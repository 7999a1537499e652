----------------------------- MODULE PipeProofs -----------------------------
(***************************************************************************)
(* Proofs about the termination handshake of pipe_t, for all settings and  *)
(* any number of hiccups.  The argument: the states of the two ends        *)
(* determine which of pipe_term and pipe_term_ack are on their way; an ack *)
(* is the last command an end sends and hiccups come before pipe_term; and *)
(* the ypipes in use are, in each direction, the writer's, those in hiccup *)
(* commands, and the reader's, which is the last of them.                  *)
(***************************************************************************)
EXTENDS PipeFacts

(* A send keeps the order of commands. *)
LEMMA OrderAppend ==
  ASSUME NEW q \in Seq(Command), NEW c \in Command, QueueOrder(q),
         ~Holds(q, "pipe_term_ack"),
         c.type \in {"pipe_term", "hiccup"} => ~Holds(q, "pipe_term")
  PROVE  QueueOrder(Append(q, c))
<1> DEFINE r == Append(q, c)
<1>1. /\ Len(q) \in Nat /\ DOMAIN q = 1 .. Len(q) /\ DOMAIN r = 1 .. Len(q) + 1
      /\ Len(r) = Len(q) + 1
      /\ \A i \in 1 .. Len(q) : r[i] = q[i]
      /\ r[Len(q) + 1] = c
  BY AppendIs
<1> HIDE DEF r
<1>2. \A i, j \in DOMAIN r : r[i].type = "pipe_term" /\ r[j].type = "pipe_term" => i = j
  BY <1>1 DEF QueueOrder, Holds
<1>3. \A i \in DOMAIN r : r[i].type = "pipe_term_ack" => i = Len(r)
  BY <1>1 DEF QueueOrder, Holds
<1>4. \A i, j \in DOMAIN r : r[i].type = "pipe_term" /\ r[j].type = "hiccup" => j < i
  BY <1>1 DEF QueueOrder, Holds
<1> QED BY <1>2, <1>3, <1>4 DEF r, QueueOrder

(* A receive keeps the order, and no hiccup follows a pipe_term and        *)
(* nothing an ack.                                                         *)
LEMMA OrderTail ==
  ASSUME NEW q \in Seq(Command), q # << >>, QueueOrder(q)
  PROVE  /\ QueueOrder(Tail(q))
         /\ Head(q).type = "pipe_term" => /\ ~Holds(Tail(q), "pipe_term")
                                          /\ ~Holds(Tail(q), "hiccup")
         /\ Head(q).type = "pipe_term_ack" => Tail(q) = << >>
<1> DEFINE r == Tail(q)
<1>1. /\ Len(q) \in Nat \ {0} /\ DOMAIN q = 1 .. Len(q) /\ DOMAIN r = 1 .. Len(q) - 1
      /\ Len(r) = Len(q) - 1 /\ r \in Seq(Command)
      /\ \A i \in 1 .. Len(q) - 1 : r[i] = q[i + 1]
      /\ Head(q) = q[1]
  OBVIOUS
<1>2. Len(r) = 0 => r = << >>
  BY <1>1, EmptyIs, Zenon
<1>3. \A i \in DOMAIN r : i + 1 \in DOMAIN q /\ r[i].type = q[i + 1].type
  BY <1>1
<1> HIDE DEF r
<1>4. \A i, j \in DOMAIN r : r[i].type = "pipe_term" /\ r[j].type = "pipe_term" => i = j
  <2> SUFFICES ASSUME NEW i \in DOMAIN r, NEW j \in DOMAIN r,
                      r[i].type = "pipe_term", r[j].type = "pipe_term"
               PROVE  i = j
    OBVIOUS
  <2>1. i + 1 = j + 1
    BY <1>3 DEF QueueOrder
  <2> QED BY <1>1, <2>1
<1>5. \A i \in DOMAIN r : r[i].type = "pipe_term_ack" => i = Len(r)
  BY <1>1, <1>3 DEF QueueOrder
<1>6. \A i, j \in DOMAIN r : r[i].type = "pipe_term" /\ r[j].type = "hiccup" => j < i
  <2> SUFFICES ASSUME NEW i \in DOMAIN r, NEW j \in DOMAIN r,
                      r[i].type = "pipe_term", r[j].type = "hiccup"
               PROVE  j < i
    OBVIOUS
  <2>1. j + 1 < i + 1
    BY <1>3 DEF QueueOrder
  <2> QED BY <1>1, <2>1
<1>7. ASSUME Head(q).type = "pipe_term", NEW i \in DOMAIN r
      PROVE  r[i].type # "pipe_term" /\ r[i].type # "hiccup"
  <2>1. 1 \in DOMAIN q /\ q[1].type = "pipe_term" /\ 1 # i + 1 /\ ~(i + 1 < 1)
    BY <1>1, <1>7
  <2> QED BY <1>3, <2>1 DEF QueueOrder
<1>8. Head(q).type = "pipe_term_ack" => r = << >>
  BY <1>1, <1>2 DEF QueueOrder
<1> QED BY <1>4, <1>5, <1>6, <1>7, <1>8 DEF r, QueueOrder, Holds
-----------------------------------------------------------------------------
(* The handshake, one lemma for each way in which it can move *)

(* What may be sent, and what the peer's queue holds then. *)
LEMMA FitsAfterSend ==
  ASSUME NEW q \in Seq(Command), NEW c \in Command
  PROVE  /\ \A type \in {"pipe_term", "pipe_term_ack", "hiccup"} :
              Holds(Append(q, c), type) <=> Holds(q, type) \/ c.type = type
         /\ Append(q, c) # << >>
<1>1. Append(q, c) # << >>
  BY AppendIs, EmptyIs
<1> QED BY <1>1, HoldsAppend

(* An empty mailbox holds no command. *)
LEMMA NothingHeld == \A type : ~Holds(<< >>, type)
BY DEF Holds

(* The commands of the handshake before and after a receive. *)
LEMMA FitsAfterReceive ==
  ASSUME NEW q \in Seq(Command), q # << >>
  PROVE  \A type \in {"pipe_term", "pipe_term_ack", "hiccup"} :
           Holds(q, type) <=> Head(q).type = type \/ Holds(Tail(q), type)
BY HoldsTail

(* An end that has not acknowledged sends a command outside the handshake. *)
LEMMA JointSendOther ==
  ASSUME NEW s \in State, NEW q \in Seq(Command), NEW t \in State, NEW r \in Seq(Command),
         Joint(s, q, t, r),
         NEW c \in Command, c.type \in {"activate_read", "activate_write"},
         s \notin {"terminating", "double_terminated", "gone"}
  PROVE  Joint(s, q, t, Append(r, c))
<1>1. t \in PeerStates(s) /\ s \in PeerStates(t)
  BY DEF Joint, PeerStates, State, QueueFits
<1>2. QueueFits(q, s, t) /\ QueueOrder(q)
  BY DEF Joint, PeerStates, QueueFits, State
<1>3. QueueFits(Append(r, c), t, s)
  BY FitsAfterSend DEF Joint, PeerStates, QueueFits, State
<1>4. QueueOrder(Append(r, c))
  BY OrderAppend DEF Joint, PeerStates, QueueFits, State
<1> QED BY <1>1, <1>2, <1>3, <1>4 DEF Joint

(* An active end sends a hiccup. *)
LEMMA JointSendHiccup ==
  ASSUME NEW s \in State, NEW q \in Seq(Command), NEW t \in State, NEW r \in Seq(Command),
         Joint(s, q, t, r),
         NEW c \in Command, c.type = "hiccup", s = "active"
  PROVE  Joint(s, q, t, Append(r, c))
<1>1. t \in PeerStates(s) /\ s \in PeerStates(t)
  BY DEF Joint, PeerStates, State, QueueFits
<1>2. QueueFits(q, s, t) /\ QueueOrder(q)
  BY DEF Joint, PeerStates, QueueFits, State
<1>3. QueueFits(Append(r, c), t, s)
  BY FitsAfterSend DEF Joint, PeerStates, QueueFits, State
<1>4. QueueOrder(Append(r, c))
  BY OrderAppend DEF Joint, PeerStates, QueueFits, State
<1> QED BY <1>1, <1>2, <1>3, <1>4 DEF Joint

(* An end asks its peer to terminate. *)
LEMMA JointSendTerm ==
  ASSUME NEW s \in State, NEW q \in Seq(Command), NEW t \in State, NEW r \in Seq(Command),
         Joint(s, q, t, r),
         s \in {"active", "delimited"}
  PROVE  Joint("terminated", q, t, Append(r, PipeTerm))
<1>1. PipeTerm \in Command /\ PipeTerm.type = "pipe_term"
  BY DEF PipeTerm, Command
<1>2. t \in PeerStates("terminated") /\ "terminated" \in PeerStates(t)
  BY DEF Joint, PeerStates, State, QueueFits
<1>3. QueueFits(q, "terminated", t) /\ QueueOrder(q)
  BY DEF Joint, PeerStates, QueueFits, State
<1>4. QueueFits(Append(r, PipeTerm), t, "terminated")
  BY <1>1, FitsAfterSend DEF Joint, PeerStates, QueueFits, State
<1>5. QueueOrder(Append(r, PipeTerm))
  BY <1>1, OrderAppend DEF Joint, PeerStates, QueueFits, State
<1> QED BY <1>2, <1>3, <1>4, <1>5 DEF Joint

(* An active end reads the delimiter. *)
LEMMA JointDelimited ==
  ASSUME NEW s \in State, NEW q \in Seq(Command), NEW t \in State, NEW r \in Seq(Command),
         Joint(s, q, t, r),
         s = "active"
  PROVE  Joint("delimited", q, t, r)
<1>1. t \in PeerStates("delimited") /\ "delimited" \in PeerStates(t)
  BY DEF Joint, PeerStates, State, QueueFits
<1>2. QueueFits(q, "delimited", t) /\ QueueOrder(q)
  BY DEF Joint, PeerStates, QueueFits, State
<1>3. QueueFits(r, t, "delimited") /\ QueueOrder(r)
  BY DEF Joint, PeerStates, QueueFits, State
<1> QED BY <1>1, <1>2, <1>3 DEF Joint

(* A pending end has nothing to wait for any more. *)
LEMMA JointPendingAck ==
  ASSUME NEW s \in State, NEW q \in Seq(Command), NEW t \in State, NEW r \in Seq(Command),
         Joint(s, q, t, r),
         s = "pending"
  PROVE  Joint("terminating", q, t, Append(r, PipeTermAck))
<1>1. PipeTermAck \in Command /\ PipeTermAck.type = "pipe_term_ack"
  BY DEF PipeTermAck, Command
<1>2. t \in PeerStates("terminating") /\ "terminating" \in PeerStates(t)
  BY DEF Joint, PeerStates, State, QueueFits
<1>3. QueueFits(q, "terminating", t) /\ QueueOrder(q)
  BY DEF Joint, PeerStates, QueueFits, State
<1>4. QueueFits(Append(r, PipeTermAck), t, "terminating")
  BY <1>1, FitsAfterSend DEF Joint, PeerStates, QueueFits, State
<1>5. QueueOrder(Append(r, PipeTermAck))
  BY <1>1, OrderAppend DEF Joint, PeerStates, QueueFits, State
<1> QED BY <1>2, <1>3, <1>4, <1>5 DEF Joint

(* A command outside the handshake is received. *)
LEMMA JointReceiveOther ==
  ASSUME NEW s \in State, NEW q \in Seq(Command), NEW t \in State, NEW r \in Seq(Command),
         Joint(s, q, t, r),
         q # << >>, Head(q).type \in {"activate_read", "activate_write", "hiccup"}
  PROVE  Joint(s, Tail(q), t, r)
<1>1. QueueOrder(q)
  BY DEF Joint
<1>2. t \in PeerStates(s) /\ s \in PeerStates(t)
  BY FitsAfterReceive, OrderTail, NothingHeld DEF Joint, PeerStates, State, QueueFits
<1>3. QueueFits(Tail(q), s, t) /\ QueueOrder(Tail(q))
  BY <1>1, OrderTail, FitsAfterReceive, NothingHeld DEF Joint, PeerStates, QueueFits, State
<1>4. QueueFits(r, t, s) /\ QueueOrder(r)
  BY FitsAfterReceive DEF Joint, PeerStates, QueueFits, State
<1> QED BY <1>2, <1>3, <1>4 DEF Joint

(* pipe_term is received by an end that has messages to read. *)
LEMMA JointTermPending ==
  ASSUME NEW s \in State, NEW q \in Seq(Command), NEW t \in State, NEW r \in Seq(Command),
         Joint(s, q, t, r),
         q # << >>, Head(q).type = "pipe_term", s = "active"
  PROVE  Joint("pending", Tail(q), t, r)
<1>1. QueueOrder(q)
  BY DEF Joint
<1>2. t \in PeerStates("pending") /\ "pending" \in PeerStates(t)
  BY FitsAfterReceive, OrderTail, NothingHeld DEF Joint, PeerStates, State, QueueFits
<1>3. QueueFits(Tail(q), "pending", t) /\ QueueOrder(Tail(q))
  BY <1>1, OrderTail, FitsAfterReceive, NothingHeld DEF Joint, PeerStates, QueueFits, State
<1>4. QueueFits(r, t, "pending") /\ QueueOrder(r)
  BY FitsAfterReceive DEF Joint, PeerStates, QueueFits, State
<1> QED BY <1>2, <1>3, <1>4 DEF Joint

(* pipe_term is received and acknowledged. *)
LEMMA JointTermAcked ==
  ASSUME NEW s \in State, NEW q \in Seq(Command), NEW t \in State, NEW r \in Seq(Command),
         Joint(s, q, t, r),
         q # << >>, Head(q).type = "pipe_term", s \in {"active", "delimited"}
  PROVE  Joint("terminating", Tail(q), t, Append(r, PipeTermAck))
<1>1. PipeTermAck \in Command /\ PipeTermAck.type = "pipe_term_ack"
  BY DEF PipeTermAck, Command
<1>2. QueueOrder(q)
  BY DEF Joint
<1>3. t \in PeerStates("terminating") /\ "terminating" \in PeerStates(t)
  BY FitsAfterReceive, OrderTail, NothingHeld DEF Joint, PeerStates, State, QueueFits
<1>4. QueueFits(Tail(q), "terminating", t) /\ QueueOrder(Tail(q))
  BY <1>2, OrderTail, FitsAfterReceive, NothingHeld DEF Joint, PeerStates, QueueFits, State
<1>5. QueueFits(Append(r, PipeTermAck), t, "terminating")
  BY <1>1, FitsAfterSend, FitsAfterReceive DEF Joint, PeerStates, QueueFits, State
<1>6. QueueOrder(Append(r, PipeTermAck))
  BY <1>1, OrderAppend DEF Joint, PeerStates, QueueFits, State
<1> QED BY <1>3, <1>4, <1>5, <1>6 DEF Joint

(* pipe_term is received by an end that has sent one. *)
LEMMA JointTermCrossed ==
  ASSUME NEW s \in State, NEW q \in Seq(Command), NEW t \in State, NEW r \in Seq(Command),
         Joint(s, q, t, r),
         q # << >>, Head(q).type = "pipe_term", s = "terminated"
  PROVE  Joint("double_terminated", Tail(q), t, Append(r, PipeTermAck))
<1>1. PipeTermAck \in Command /\ PipeTermAck.type = "pipe_term_ack"
  BY DEF PipeTermAck, Command
<1>2. QueueOrder(q)
  BY DEF Joint
<1>3. t \in PeerStates("double_terminated") /\ "double_terminated" \in PeerStates(t)
  BY FitsAfterReceive, OrderTail, NothingHeld DEF Joint, PeerStates, State, QueueFits
<1>4. QueueFits(Tail(q), "double_terminated", t) /\ QueueOrder(Tail(q))
  BY <1>2, OrderTail, FitsAfterReceive, NothingHeld DEF Joint, PeerStates, QueueFits, State
<1>5. QueueFits(Append(r, PipeTermAck), t, "double_terminated")
  BY <1>1, FitsAfterSend, FitsAfterReceive DEF Joint, PeerStates, QueueFits, State
<1>6. QueueOrder(Append(r, PipeTermAck))
  BY <1>1, OrderAppend DEF Joint, PeerStates, QueueFits, State
<1> QED BY <1>3, <1>4, <1>5, <1>6 DEF Joint

(* The peer's ack finds the end's own not sent yet. *)
LEMMA JointAckOwed ==
  ASSUME NEW s \in State, NEW q \in Seq(Command), NEW t \in State, NEW r \in Seq(Command),
         Joint(s, q, t, r),
         q # << >>, Head(q).type = "pipe_term_ack", s = "terminated"
  PROVE  Joint("gone", Tail(q), t, Append(r, PipeTermAck))
<1>1. PipeTermAck \in Command /\ PipeTermAck.type = "pipe_term_ack"
  BY DEF PipeTermAck, Command
<1>2. QueueOrder(q)
  BY DEF Joint
<1>3. t \in PeerStates("gone") /\ "gone" \in PeerStates(t)
  BY FitsAfterReceive, OrderTail, NothingHeld DEF Joint, PeerStates, State, QueueFits
<1>4. QueueFits(Tail(q), "gone", t) /\ QueueOrder(Tail(q))
  <2>1. Tail(q) = << >> /\ QueueOrder(Tail(q))
    BY <1>2, OrderTail
  <2>2. QueueFits(<< >>, "gone", t)
    BY NothingHeld DEF QueueFits
  <2> QED BY <2>1, <2>2, Zenon
<1>5. QueueFits(Append(r, PipeTermAck), t, "gone")
  BY <1>1, FitsAfterSend, FitsAfterReceive DEF Joint, PeerStates, QueueFits, State
<1>6. QueueOrder(Append(r, PipeTermAck))
  BY <1>1, OrderAppend DEF Joint, PeerStates, QueueFits, State
<1> QED BY <1>3, <1>4, <1>5, <1>6 DEF Joint

(* The peer's ack is the last thing an end waits for. *)
LEMMA JointAck ==
  ASSUME NEW s \in State, NEW q \in Seq(Command), NEW t \in State, NEW r \in Seq(Command),
         Joint(s, q, t, r),
         q # << >>, Head(q).type = "pipe_term_ack", s \in {"terminating", "double_terminated"}
  PROVE  Joint("gone", Tail(q), t, r)
<1>1. QueueOrder(q)
  BY DEF Joint
<1>2. t \in PeerStates("gone") /\ "gone" \in PeerStates(t)
  BY FitsAfterReceive, OrderTail, NothingHeld DEF Joint, PeerStates, State, QueueFits
<1>3. QueueFits(Tail(q), "gone", t) /\ QueueOrder(Tail(q))
  <2>1. Tail(q) = << >> /\ QueueOrder(Tail(q))
    BY <1>1, OrderTail
  <2>2. QueueFits(<< >>, "gone", t)
    BY NothingHeld DEF QueueFits
  <2> QED BY <2>1, <2>2, Zenon
<1>4. QueueFits(r, t, "gone") /\ QueueOrder(r)
  BY FitsAfterReceive DEF Joint, PeerStates, QueueFits, State
<1> QED BY <1>2, <1>3, <1>4 DEF Joint
-----------------------------------------------------------------------------
(* Types *)

(* An end that reads an item pops it from a ypipe that has one. *)
LEMMA PopType ==
  ASSUME TypeOK, Published, NEW x \in PipeId, published[x] > 0, Pop(x)
  PROVE  items' \in [PipeId -> Seq(Item)] /\ published' \in [PipeId -> Nat]
<1>1. items[x] \in Seq(Item) /\ items[x] # << >>
  BY DEF TypeOK, Published
<1>2. Tail(items[x]) \in Seq(Item)
  BY <1>1, TailIs
<1>3. published[x] - 1 \in Nat
  BY DEF TypeOK
<1> QED BY <1>2, <1>3 DEF Pop, TypeOK

(* flush keeps the types. *)
LEMMA FlushType ==
  ASSUME IInv, NEW x \in PipeId, NEW s \in Seq(Item), FlushPipe(x, s)
  PROVE  /\ items' \in [PipeId -> Seq(Item)] /\ published' \in [PipeId -> Nat]
         /\ sleeping' \in [PipeId -> BOOLEAN]
<1>1. Complete(s) \in Nat
  BY CompleteIs
<1> QED BY <1>1 DEF FlushPipe, TypeOK, IInv

(* Draining and deleting a ypipe keeps the types. *)
LEMMA DrainType ==
  ASSUME TypeOK, NEW x \in PipeId, NEW n \in 0 .. Len(items[x]),
         DrainAndDelete(x, items[x], n)
  PROVE  /\ items' \in [PipeId -> Seq(Item)] /\ published' \in [PipeId -> Nat]
         /\ freed' \subseteq PipeId
<1>1. items[x] \in Seq(Item)
  BY DEF TypeOK
<1>2. SubSeq(items[x], n + 1, Len(items[x])) \in Seq(Item)
  BY <1>1, SuffixIs
<1> QED BY <1>2 DEF DrainAndDelete, TypeOK

(* Reading keeps the types. *)
LEMMA TypeRead ==
  ASSUME IInv, NEW e \in End, ReadAny(e)
  PROVE  TypeOK'
<1>0. TypeOK
  BY DEF IInv
<1> USE <1>0
<1>1. inpipe[e] \in PipeId /\ cmds \in [End -> Seq(Command)] /\ published[inpipe[e]] \in Nat
  BY DEF TypeOK
<1>2. CASE ReadEmpty(e)
  BY <1>2, <1>1, Zenon DEF ReadEmpty, TypeOK
<1>3. CASE ReadDelimiter(e)
  <2>1. items' \in [PipeId -> Seq(Item)] /\ published' \in [PipeId -> Nat]
    BY <1>1, <1>3, PopType DEF ReadDelimiter, HasItem, IInv
  <2>2. state' \in [End -> State]
    <3>1. \/ state' = [state EXCEPT ![e] = "delimited"]
          \/ state' = [state EXCEPT ![e] = "terminating"]
      BY <1>3 DEF ReadDelimiter, AckAndTerminate
    <3> QED BY <3>1, Zenon DEF TypeOK, State
  <2>3. outpipe' \in [End -> PipeId \cup {NoPipe}]
    BY <1>3, Zenon DEF ReadDelimiter, AckAndTerminate, TypeOK
  <2>4. cmds' \in [End -> Seq(Command)]
    BY <1>1, <1>3, SendIs DEF ReadDelimiter, AckAndTerminate
  <2> QED BY <1>3, <2>1, <2>2, <2>3, <2>4 DEF ReadDelimiter, TypeOK
<1>4. CASE Read(e)
  <2>1. items' \in [PipeId -> Seq(Item)] /\ published' \in [PipeId -> Nat]
    BY <1>1, <1>4, PopType DEF Read, HasItem, IInv
  <2> DEFINE n == msgs_read[e] + (IF Head(items[inpipe[e]]).more THEN 0 ELSE 1)
  <2>2. n \in Nat
    BY DEF TypeOK
  <2>3. msgs_read' = [msgs_read EXCEPT ![e] = n]
    BY <1>4, Zenon DEF Read
  <2>4. cmds' \in [End -> Seq(Command)]
    BY <1>1, <1>4, <2>2, SentIs, WriteCommand, Zenon DEF Read
  <2>5. msgs_read' \in [End -> Nat]
    <3> HIDE DEF n
    <3> QED BY <2>2, <2>3 DEF TypeOK
  <2> QED BY <1>4, <2>1, <2>4, <2>5, ZenonT(40) DEF Read, TypeOK
<1> QED BY <1>2, <1>3, <1>4 DEF ReadAny

(* Writing keeps the types. *)
LEMMA TypeWrite ==
  ASSUME IInv, NEW e \in End,
         \/ CheckWriteFull(e) \/ \E more \in BOOLEAN : Write(e, more)
         \/ Rollback(e) \/ Flush(e)
  PROVE  TypeOK'
<1>0. TypeOK
  BY DEF IInv
<1> USE <1>0
<1>1. outpipe[e] # NoPipe => outpipe[e] \in PipeId /\ items[outpipe[e]] \in Seq(Item)
  BY DEF TypeOK
<1>2. CASE CheckWriteFull(e)
  BY <1>2 DEF CheckWriteFull, pipevars, TypeOK
<1>3. ASSUME NEW more \in BOOLEAN, Write(e, more) PROVE TypeOK'
  <2>1. outpipe[e] \in PipeId /\ items[outpipe[e]] \in Seq(Item)
    BY <1>1, <1>3 DEF Write, Writable, Ends, IInv
  <2> DEFINE i == [n |-> msgs_written[e], more |-> more]
  <2>2. i \in Item
    BY DEF Item, TypeOK
  <2>3. Append(items[outpipe[e]], i) \in Seq(Item)
    BY <2>1, <2>2, AppendIs, Zenon
  <2>4. items' \in [PipeId -> Seq(Item)]
    BY <1>3, <2>1, <2>3, ZenonT(40) DEF Write, TypeOK
  <2>5. msgs_written' \in [End -> Nat]
    BY <1>3 DEF Write, TypeOK
  <2> QED BY <1>3, <2>4, <2>5, Zenon DEF Write, TypeOK
<1>4. CASE Rollback(e)
  <2>1. outpipe[e] \in PipeId /\ items[outpipe[e]] \in Seq(Item)
    BY <1>1, <1>4 DEF Rollback
  <2>2. SubSeq(items[outpipe[e]], 1, Complete(items[outpipe[e]])) \in Seq(Item)
    BY <2>1, DelimitedIs, Zenon
  <2>3. items' \in [PipeId -> Seq(Item)]
    BY <1>4, <2>1, <2>2, Zenon DEF Rollback, TypeOK
  <2> QED BY <1>4, <2>3, Zenon DEF Rollback, TypeOK, endvars
<1>5. CASE Flush(e)
  <2>1. outpipe[e] \in PipeId /\ items[outpipe[e]] \in Seq(Item)
    BY <1>1, <1>5, Zenon DEF Flush
  <2>2. /\ items' \in [PipeId -> Seq(Item)] /\ published' \in [PipeId -> Nat]
        /\ sleeping' \in [PipeId -> BOOLEAN]
    BY <1>5, <2>1, FlushType DEF Flush
  <2>3. cmds' \in [End -> Seq(Command)]
    BY <1>5, SendIs, Zenon DEF Flush, TypeOK
  <2> QED BY <1>5, <2>2, <2>3, Zenon DEF Flush, TypeOK, endvars
<1> QED BY <1>2, <1>3, <1>4, <1>5

(* Termination and hiccups keep the types. *)
LEMMA TypeEnd ==
  ASSUME IInv, NEW e \in End,
         \/ \E delay_ \in BOOLEAN : Terminate(e, delay_)
         \/ TerminateDelimiter(e) \/ Hiccup(e)
  PROVE  TypeOK'
<1>0. TypeOK
  BY DEF IInv
<1> USE <1>0
<1>1. outpipe[e] # NoPipe => outpipe[e] \in PipeId /\ items[outpipe[e]] \in Seq(Item)
  BY Zenon DEF TypeOK
<1>2. ASSUME NEW delay_ \in BOOLEAN, Terminate(e, delay_) PROVE TypeOK'
  <2>1. cmds' \in [End -> Seq(Command)]
    <3>1. \/ cmds' = cmds
          \/ cmds' = Sent(cmds, e, PipeTerm) \/ cmds' = Sent(cmds, e, PipeTermAck)
      BY <1>2, Zenon DEF Terminate, AckAndTerminate
    <3>2. cmds \in [End -> Seq(Command)]
      BY DEF TypeOK
    <3>3. CASE cmds' = Sent(cmds, e, PipeTerm)
      BY ONLY <3>2, <3>3, e \in End, SendIs
    <3>4. CASE cmds' = Sent(cmds, e, PipeTermAck)
      BY ONLY <3>2, <3>4, e \in End, SendIs
    <3> QED BY ONLY <3>1, <3>2, <3>3, <3>4
  <2>2. state' \in [End -> State]
    <3>1. \/ state' = state
          \/ state' = [state EXCEPT ![e] = "terminated"]
          \/ state' = [state EXCEPT ![e] = "terminating"]
      BY <1>2, Zenon DEF Terminate, AckAndTerminate
    <3> QED BY <3>1, Zenon DEF TypeOK, State
  <2>3. outpipe' \in [End -> PipeId \cup {NoPipe}]
    BY <1>2, Zenon DEF Terminate, AckAndTerminate, TypeOK
  <2>4. pc' \in [End -> {"idle", "delimiter"}]
    BY <1>2, Zenon DEF Terminate, TypeOK
  <2>5. out_active' \in [End -> BOOLEAN] /\ delay' \in [End -> BOOLEAN]
    BY <1>2, Zenon DEF Terminate, TypeOK
  <2> QED BY <1>2, <2>1, <2>2, <2>3, <2>4, <2>5, Zenon DEF Terminate, TypeOK, pipevars
<1>3. CASE TerminateDelimiter(e)
  <2>1. outpipe[e] \in PipeId /\ items[outpipe[e]] \in Seq(Item)
    BY <1>1, <1>3, Zenon DEF TerminateDelimiter, Ends, IInv
  <2> DEFINE s == Append(SubSeq(items[outpipe[e]], 1, Complete(items[outpipe[e]])), Delimiter)
  <2>2. s \in Seq(Item)
    BY <2>1, DelimitedIs, Zenon
  <2>3. /\ FlushPipe(outpipe[e], s)
        /\ cmds' = IF FlushFails(outpipe[e], s) THEN Sent(cmds, e, ActivateRead) ELSE cmds
    BY <1>3, Zenon DEF TerminateDelimiter
  <2> HIDE DEF s
  <2>4. /\ items' \in [PipeId -> Seq(Item)] /\ published' \in [PipeId -> Nat]
        /\ sleeping' \in [PipeId -> BOOLEAN]
    BY <2>1, <2>2, <2>3, FlushType
  <2>5. cmds' \in [End -> Seq(Command)]
    BY <2>3, SendIs, Zenon DEF TypeOK
  <2> QED BY <1>3, <2>4, <2>5, Zenon DEF TerminateDelimiter, TypeOK
<1>4. CASE Hiccup(e)
  <2>1. allocated \in PipeId
    BY <1>4 DEF Hiccup, MayHiccup
  <2>2. cmds' \in [End -> Seq(Command)]
    BY <1>4, <2>1, SentIs, HiccupCommand, Zenon DEF Hiccup, TypeOK
  <2>3. inpipe' \in [End -> PipeId] /\ in_active' \in [End -> BOOLEAN] /\ allocated' \in Nat
    BY <1>4, <2>1 DEF Hiccup, TypeOK
  <2> QED BY <1>4, <2>2, <2>3, Zenon DEF Hiccup, TypeOK
<1> QED BY <1>2, <1>3, <1>4

(* The command handlers keep the types. *)
LEMMA TypeProcess ==
  ASSUME IInv, NEW e \in End, Process(e)
  PROVE  TypeOK'
<1>0. TypeOK
  BY DEF IInv
<1> USE <1>0
<1>1. cmds[e] # << >>
  BY Zenon DEF Process, ProcessActivateRead, ProcessActivateWrite, ProcessHiccup,
         ProcessPipeTerm, ProcessPipeTermAck, Next_is
<1>2. Received(e) \in [End -> Seq(Command)] /\ Head(cmds[e]) \in Command
  BY <1>1, ReceivedIs, TailIs, Zenon DEF TypeOK
<1>3. CASE ProcessActivateRead(e)
  BY <1>2, <1>3, Zenon DEF ProcessActivateRead, TypeOK, pipevars
<1>4. CASE ProcessActivateWrite(e)
  <2>1. Head(cmds[e]).msgs_read \in Nat
    BY <1>2, <1>4, CommandFields DEF ProcessActivateWrite, Next_is
  <2> QED BY <1>2, <1>4, <2>1, Zenon DEF ProcessActivateWrite, TypeOK, pipevars
<1>5. CASE ProcessHiccup(e)
  <2>1. Head(cmds[e]).pipe \in PipeId
    BY <1>2, <1>5, CommandFields, Zenon DEF ProcessHiccup, Next_is
  <2>2. outpipe[e] \in PipeId /\ items[outpipe[e]] \in Seq(Item)
    BY <1>5, Zenon DEF ProcessHiccup, TypeOK
  <2>3. /\ items' \in [PipeId -> Seq(Item)] /\ published' \in [PipeId -> Nat]
        /\ freed' \subseteq PipeId
    BY <1>5, <2>2, CompleteIs, DrainType, Zenon DEF ProcessHiccup
  <2> QED BY <1>2, <1>5, <2>1, <2>3, Zenon DEF ProcessHiccup, TypeOK
<1>6. CASE ProcessPipeTerm(e)
  <2>1. cmds' \in [End -> Seq(Command)]
    BY <1>2, <1>6, SendIs DEF ProcessPipeTerm, AckAndTerminate
  <2>2. state' \in [End -> State]
    BY <1>6, Zenon DEF ProcessPipeTerm, AckAndTerminate, TypeOK, State
  <2>3. outpipe' \in [End -> PipeId \cup {NoPipe}]
    BY <1>6, Zenon DEF ProcessPipeTerm, AckAndTerminate, TypeOK
  <2> QED BY <1>6, <2>1, <2>2, <2>3, Zenon DEF ProcessPipeTerm, TypeOK, pipevars
<1>7. CASE ProcessPipeTermAck(e)
  <2>1. cmds' \in [End -> Seq(Command)]
    <3>1. cmds' = Received(e) \/ cmds' = Sent(Received(e), e, PipeTermAck)
      BY <1>7, Zenon DEF ProcessPipeTermAck
    <3> QED BY <1>2, <3>1, SendIs
  <2>2. inpipe[e] \in PipeId /\ published[inpipe[e]] \in 0 .. Len(items[inpipe[e]])
    BY DEF TypeOK, IInv, Published
  <2>3. /\ items' \in [PipeId -> Seq(Item)] /\ published' \in [PipeId -> Nat]
        /\ freed' \subseteq PipeId
    BY <1>7, <2>2, DrainType, Zenon DEF ProcessPipeTermAck
  <2> QED BY <1>7, <2>1, <2>3, Zenon DEF ProcessPipeTermAck, TypeOK, State
<1> QED BY <1>3, <1>4, <1>5, <1>6, <1>7 DEF Process
-----------------------------------------------------------------------------
(* The handshake *)

(* It suffices to look at it from one end. *)
LEMMA JointFromOne ==
  ASSUME NEW s, NEW q, NEW e \in End, Joint(s[e], q[e], s[Peer(e)], q[Peer(e)])
  PROVE  \A x \in End : Joint(s[x], q[x], s[Peer(x)], q[Peer(x)])
<1>1. \A x \in End : x = e \/ x = Peer(e)
  BY DEF End, Peer
<1> QED BY <1>1, Peers DEF Joint

(* read may find the delimiter and send an ack. *)
LEMMA HandshakeRead ==
  ASSUME IInv, NEW e \in End, ReadAny(e)
  PROVE  Handshake'
<1> DEFINE p == Peer(e)
<1>1. /\ state[e] \in State /\ state[p] \in State /\ p \in End /\ p # e
      /\ cmds[e] \in Seq(Command) /\ cmds[p] \in Seq(Command)
      /\ state \in [End -> State] /\ cmds \in [End -> Seq(Command)]
      /\ Joint(state[e], cmds[e], state[p], cmds[p])
  BY Peers DEF IInv, TypeOK, Handshake
<1> HIDE DEF p
<1> SUFFICES Joint(state[e], cmds[e], state[p], cmds[p])'
  BY JointFromOne DEF p, Handshake
<1>2. CASE ReadEmpty(e)
  BY <1>1, <1>2 DEF ReadEmpty
<1>3. CASE ReadDelimiter(e) /\ state[e] = "active"
  <2>1. state'[e] = "delimited" /\ state'[p] = state[p] /\ cmds' = cmds
    BY <1>1, <1>3 DEF ReadDelimiter
  <2> QED BY <1>1, <1>3, <2>1, JointDelimited
<1>4. CASE ReadDelimiter(e) /\ state[e] # "active"
  <2>1. state[e] = "pending"
    BY <1>4 DEF ReadDelimiter, Readable
  <2>2. /\ state'[e] = "terminating" /\ state'[p] = state[p]
        /\ cmds' = Sent(cmds, e, PipeTermAck)
    BY <1>1, <1>4 DEF ReadDelimiter, AckAndTerminate
  <2>3. cmds'[e] = cmds[e] /\ cmds'[p] = Append(cmds[p], PipeTermAck)
    BY <1>1, <2>2, SendIs, Zenon DEF p
  <2> QED BY <1>1, <2>1, <2>2, <2>3, JointPendingAck
<1>5. CASE Read(e)
  <2> DEFINE n == msgs_read[e] + (IF Head(items[inpipe[e]]).more THEN 0 ELSE 1)
             c == [type |-> "activate_write", msgs_read |-> n]
  <2>1. n \in Nat
    BY DEF IInv, TypeOK
  <2>2. c \in Command /\ c.type = "activate_write"
    BY <2>1, WriteCommand
  <2>3. cmds' = Sent(cmds, e, c) \/ cmds' = cmds
    BY <1>5 DEF Read
  <2>4. state' = state /\ state[e] \in {"active", "pending"}
    BY <1>5 DEF Read, Readable
  <2> HIDE DEF c
  <2>5. CASE cmds' = Sent(cmds, e, c)
    <3>1. cmds'[e] = cmds[e] /\ cmds'[p] = Append(cmds[p], c)
      BY <1>1, <2>2, <2>5, SentIs, Zenon DEF p
    <3> QED BY <1>1, <2>2, <2>4, <3>1, JointSendOther, Zenon
  <2> QED BY <1>1, <2>3, <2>4, <2>5
<1> QED BY <1>2, <1>3, <1>4, <1>5 DEF ReadAny

(* The calls of a writer send activate_read only. *)
LEMMA HandshakeWrite ==
  ASSUME IInv, NEW e \in End,
         \/ CheckWriteFull(e) \/ \E more \in BOOLEAN : Write(e, more)
         \/ Rollback(e) \/ Flush(e)
  PROVE  Handshake'
<1> DEFINE p == Peer(e)
<1>1. /\ state[e] \in State /\ state[p] \in State /\ p \in End /\ p # e
      /\ cmds[e] \in Seq(Command) /\ cmds[p] \in Seq(Command)
      /\ state \in [End -> State] /\ cmds \in [End -> Seq(Command)]
      /\ Joint(state[e], cmds[e], state[p], cmds[p])
  BY Peers DEF IInv, TypeOK, Handshake
<1> HIDE DEF p
<1> SUFFICES Joint(state[e], cmds[e], state[p], cmds[p])'
  BY JointFromOne DEF p, Handshake
<1>2. CASE CheckWriteFull(e)
  BY <1>1, <1>2, Zenon DEF CheckWriteFull
<1>3. ASSUME NEW more \in BOOLEAN, Write(e, more) PROVE state' = state /\ cmds' = cmds
  BY <1>3 DEF Write
<1>4. CASE Rollback(e)
  BY <1>1, <1>4 DEF Rollback, endvars
<1>5. CASE Flush(e)
  <2>1. /\ state' = state
        /\ state[e] \notin {"terminating", "double_terminated", "gone"}
        /\ cmds' = cmds \/ cmds' = Sent(cmds, e, ActivateRead)
    BY <1>5 DEF Flush, Idle, endvars
  <2>2. CASE cmds' = Sent(cmds, e, ActivateRead)
    <3>1. cmds'[e] = cmds[e] /\ cmds'[p] = Append(cmds[p], ActivateRead)
      BY <1>1, <2>2, SendIs, Zenon DEF p
    <3> QED BY <1>1, <2>1, <3>1, JointSendOther, Commands, Zenon
  <2> QED BY <1>1, <2>1, <2>2
<1> QED BY <1>1, <1>2, <1>3, <1>4, <1>5

(* terminate and hiccup send before the end acknowledged anything. *)
LEMMA HandshakeEnd ==
  ASSUME IInv, NEW e \in End,
         \/ \E delay_ \in BOOLEAN : Terminate(e, delay_)
         \/ TerminateDelimiter(e) \/ Hiccup(e)
  PROVE  Handshake'
<1> DEFINE p == Peer(e)
<1>1. /\ state[e] \in State /\ state[p] \in State /\ p \in End /\ p # e
      /\ cmds[e] \in Seq(Command) /\ cmds[p] \in Seq(Command)
      /\ state \in [End -> State] /\ cmds \in [End -> Seq(Command)]
      /\ Joint(state[e], cmds[e], state[p], cmds[p])
  BY Peers, Zenon DEF IInv, TypeOK, Handshake
<1> HIDE DEF p
<1> SUFFICES Joint(state[e], cmds[e], state[p], cmds[p])'
  BY JointFromOne DEF p, Handshake
<1>2. ASSUME NEW delay_ \in BOOLEAN, Terminate(e, delay_)
      PROVE  Joint(state[e], cmds[e], state[p], cmds[p])'
  <2>1. CASE AsksPeer(e)
    <3>1. /\ state'[e] = "terminated" /\ state'[p] = state[p]
          /\ cmds' = Sent(cmds, e, PipeTerm)
      BY <1>1, <1>2, <2>1, Zenon DEF Terminate, AsksPeer
    <3>2. cmds'[e] = cmds[e] /\ cmds'[p] = Append(cmds[p], PipeTerm)
      BY <1>1, <3>1, SendIs, Zenon DEF p
    <3> QED BY <1>1, <2>1, <3>1, <3>2, JointSendTerm, Zenon DEF AsksPeer
  <2>2. CASE state[e] = "pending" /\ ~delay_
    <3>1. /\ state'[e] = "terminating" /\ state'[p] = state[p]
          /\ cmds' = Sent(cmds, e, PipeTermAck)
      BY <1>1, <1>2, <2>2 DEF Terminate, AsksPeer, AckAndTerminate
    <3>2. cmds'[e] = cmds[e] /\ cmds'[p] = Append(cmds[p], PipeTermAck)
      BY <1>1, <3>1, SendIs, Zenon DEF p
    <3> QED BY <1>1, <2>2, <3>1, <3>2, JointPendingAck
  <2>3. CASE state' = state /\ cmds' = cmds
    BY <1>1, <2>3
  <2> QED BY <1>2, <2>1, <2>2, <2>3, Zenon DEF Terminate
<1>3. CASE TerminateDelimiter(e)
  <2>1. /\ state' = state
        /\ state[e] \notin {"terminating", "double_terminated", "gone"}
    BY <1>3 DEF TerminateDelimiter, IInv, Ends
  <2>2. cmds' = cmds \/ cmds' = Sent(cmds, e, ActivateRead)
    BY <1>3 DEF TerminateDelimiter
  <2>3. CASE cmds' = Sent(cmds, e, ActivateRead)
    <3>1. cmds'[e] = cmds[e] /\ cmds'[p] = Append(cmds[p], ActivateRead)
      BY <1>1, <2>3, SendIs, Zenon DEF p
    <3> QED BY <1>1, <2>1, <3>1, JointSendOther, Commands
  <2> QED BY <1>1, <2>1, <2>2, <2>3
<1>4. CASE Hiccup(e)
  <2> DEFINE c == [type |-> "hiccup", pipe |-> allocated]
  <2>1. c \in Command /\ c.type = "hiccup"
    BY <1>4, HiccupCommand, Zenon DEF Hiccup, MayHiccup
  <2>2. state' = state /\ state[e] = "active" /\ cmds' = Sent(cmds, e, c)
    BY <1>4 DEF Hiccup, MayHiccup
  <2> HIDE DEF c
  <2>3. cmds'[e] = cmds[e] /\ cmds'[p] = Append(cmds[p], c)
    BY <1>1, <2>1, <2>2, SentIs, Zenon DEF p
  <2> QED BY <1>1, <2>1, <2>2, <2>3, JointSendHiccup
<1> QED BY <1>2, <1>3, <1>4, Zenon

(* The handlers move both ends through the handshake. *)
LEMMA HandshakeProcess ==
  ASSUME IInv, NEW e \in End, Process(e)
  PROVE  Handshake'
<1> DEFINE p == Peer(e)
           q == cmds[e]
<1>1. /\ state[e] \in State /\ state[p] \in State /\ p \in End /\ p # e
      /\ q \in Seq(Command) /\ cmds[p] \in Seq(Command)
      /\ state \in [End -> State]
      /\ Joint(state[e], q, state[p], cmds[p])
  BY Peers, Zenon DEF IInv, TypeOK, Handshake
<1>2. q # << >>
  BY Zenon DEF Process, ProcessActivateRead, ProcessActivateWrite, ProcessHiccup,
         ProcessPipeTerm, ProcessPipeTermAck, Next_is
<1>3. /\ Received(e) \in [End -> Seq(Command)]
      /\ Received(e)[e] = Tail(q) /\ Received(e)[p] = cmds[p]
  BY <1>2, ReceivedIs, Zenon DEF IInv
<1>4. /\ Sent(Received(e), e, PipeTermAck)[e] = Tail(q)
      /\ Sent(Received(e), e, PipeTermAck)[p] = Append(cmds[p], PipeTermAck)
  <2>1. /\ Sent(Received(e), e, PipeTermAck)[e] = Received(e)[e]
        /\ Sent(Received(e), e, PipeTermAck)[p] = Append(Received(e)[p], PipeTermAck)
    BY <1>3, SendIs, Zenon
  <2> QED BY ONLY <1>3, <2>1, Zenon
<1> HIDE DEF p
<1> SUFFICES Joint(state[e], cmds[e], state[p], cmds[p])'
  BY JointFromOne, Zenon DEF p, Handshake
<1> HIDE DEF q
<1>5. CASE ProcessActivateRead(e) \/ ProcessActivateWrite(e) \/ ProcessHiccup(e)
  <2>1. /\ Head(q).type \in {"activate_read", "activate_write", "hiccup"}
        /\ cmds' = Received(e) /\ state' = state
    BY <1>5 DEF ProcessActivateRead, ProcessActivateWrite, ProcessHiccup, Next_is, q
  <2> QED BY <1>1, <1>2, <1>3, <2>1, JointReceiveOther, Zenon
<1>6. CASE ProcessPipeTerm(e)
  <2>1. Head(q).type = "pipe_term"
    BY <1>6, Zenon DEF ProcessPipeTerm, Next_is, q
  <2>2. CASE state[e] = "active" /\ delay[e]
    <3>1. state'[e] = "pending" /\ state'[p] = state[p] /\ cmds' = Received(e)
      BY <1>1, <1>6, <2>2, Zenon DEF ProcessPipeTerm, AcksAtOnce
    <3> QED BY <1>1, <1>2, <1>3, <2>1, <2>2, <3>1, JointTermPending, Zenon
  <2>3. CASE AcksAtOnce(e)
    <3>1. /\ state'[e] = "terminating" /\ state'[p] = state[p]
          /\ cmds' = Sent(Received(e), e, PipeTermAck)
      BY <1>1, <1>6, <2>3 DEF ProcessPipeTerm, AcksAtOnce, AckAndTerminate
    <3>2. state[e] \in {"active", "delimited"}
      BY <2>3, Zenon DEF AcksAtOnce
    <3> QED BY <1>1, <1>2, <1>4, <2>1, <3>1, <3>2, JointTermAcked, ZenonT(40)
  <2>4. CASE state[e] = "terminated"
    <3>1. /\ state'[e] = "double_terminated" /\ state'[p] = state[p]
          /\ cmds' = Sent(Received(e), e, PipeTermAck)
      BY <1>1, <1>6, <2>4 DEF ProcessPipeTerm, AcksAtOnce
    <3> QED BY <1>1, <1>2, <1>4, <2>1, <2>4, <3>1, JointTermCrossed, Zenon
  <2> QED BY <1>6, <2>2, <2>3, <2>4 DEF ProcessPipeTerm
<1>7. CASE ProcessPipeTermAck(e)
  <2>1. /\ Head(q).type = "pipe_term_ack"
        /\ state[e] \in {"terminating", "double_terminated", "terminated"}
        /\ state'[e] = "gone" /\ state'[p] = state[p]
    BY <1>1, <1>7, Zenon DEF ProcessPipeTermAck, Next_is, q
  <2>2. CASE state[e] = "terminated"
    <3>1. cmds' = Sent(Received(e), e, PipeTermAck)
      BY <1>7, <2>2 DEF ProcessPipeTermAck, AckOwed
    <3> QED BY <1>1, <1>2, <1>4, <2>1, <2>2, <3>1, JointAckOwed, Zenon
  <2>3. CASE state[e] # "terminated"
    <3>1. cmds' = Received(e)
      BY <1>7, <2>3 DEF ProcessPipeTermAck, AckOwed
    <3> QED BY <1>1, <1>2, <1>3, <2>1, <2>3, <3>1, JointAck, Zenon
  <2> QED BY <2>2, <2>3, Zenon
<1> QED BY <1>5, <1>6, <1>7 DEF Process
-----------------------------------------------------------------------------
(* State, outpipe and pc of an end *)

LEMMA EndsStep ==
  ASSUME IInv, Next
  PROVE  Ends'
<1>1. PICK e \in End :
        \/ ReadAny(e) \/ CheckWriteFull(e) \/ \E more \in BOOLEAN : Write(e, more)
        \/ Rollback(e) \/ Flush(e)
        \/ \E delay_ \in BOOLEAN : Terminate(e, delay_)
        \/ TerminateDelimiter(e) \/ Hiccup(e) \/ Process(e)
  BY DEF Next
<1>2. /\ state \in [End -> State] /\ outpipe \in [End -> PipeId \cup {NoPipe}]
      /\ pc \in [End -> {"idle", "delimiter"}]
      /\ \A x \in PipeId : x # NoPipe
  BY DEF IInv, TypeOK, PipeId, NoPipe
<1>3. Ends
  BY DEF IInv
<1>4. CASE state' = state /\ outpipe' = outpipe /\ pc' = pc
  BY <1>3, <1>4 DEF Ends
<1>5. CASE ReadDelimiter(e)
  <2>1. /\ pc[e] = "idle" /\ pc' = pc
        /\ state[e] \in {"active", "pending"}
        /\ \/ state' = [state EXCEPT ![e] = "delimited"] /\ outpipe' = outpipe
           \/ /\ state' = [state EXCEPT ![e] = "terminating"]
              /\ outpipe' = [outpipe EXCEPT ![e] = NoPipe]
    BY <1>5 DEF ReadDelimiter, Readable, Idle, AckAndTerminate
  <2> QED BY <1>2, <1>3, <2>1 DEF Ends
<1>6. ASSUME NEW delay_ \in BOOLEAN, Terminate(e, delay_) PROVE Ends'
  <2>1. CASE AsksPeer(e)
    <3>1. /\ state' = [state EXCEPT ![e] = "terminated"]
          /\ pc' = [pc EXCEPT ![e] = "delimiter"]
          /\ outpipe' = outpipe
          /\ state[e] \in {"active", "delimited"}
      BY <1>6, <2>1 DEF Terminate, AsksPeer
    <3> QED BY <1>2, <1>3, <3>1 DEF Ends
  <2>2. CASE state[e] = "pending" /\ ~delay_
    <3>1. /\ state' = [state EXCEPT ![e] = "terminating"]
          /\ outpipe' = [outpipe EXCEPT ![e] = NoPipe]
          /\ pc' = pc /\ pc[e] = "idle"
      BY <1>6, <2>2, Zenon DEF Terminate, AsksPeer, AckAndTerminate, Idle
    <3> QED BY <1>2, <1>3, <3>1, Zenon DEF Ends
  <2>3. CASE state[e] = "pending" /\ delay_
    <3>1. state' = state /\ outpipe' = outpipe /\ pc' = [pc EXCEPT ![e] = "delimiter"]
      BY <1>6, <2>3 DEF Terminate, AsksPeer
    <3> QED BY <1>2, <1>3, <2>3, <3>1 DEF Ends
  <2> QED BY <1>4, <1>6, <2>1, <2>2, <2>3 DEF Terminate
<1>7. CASE TerminateDelimiter(e)
  <2>1. state' = state /\ outpipe' = outpipe /\ pc' = [pc EXCEPT ![e] = "idle"]
    BY <1>7 DEF TerminateDelimiter
  <2> QED BY <1>2, <1>3, <2>1 DEF Ends
<1>8. CASE ProcessHiccup(e)
  <2>1. Head(cmds[e]).pipe \in PipeId
    <3>1. Head(cmds[e]) \in Command /\ Head(cmds[e]).type = "hiccup"
      BY <1>8, TailIs, Zenon DEF ProcessHiccup, Next_is, IInv, TypeOK
    <3> QED BY <3>1, CommandFields, Zenon
  <2>2. /\ state' = state /\ pc' = pc /\ outpipe[e] # NoPipe
        /\ outpipe' = [outpipe EXCEPT ![e] = Head(cmds[e]).pipe]
    BY <1>8 DEF ProcessHiccup
  <2> QED BY <1>2, <1>3, <2>1, <2>2 DEF Ends
<1>9. CASE ProcessPipeTerm(e)
  <2>1. pc' = pc /\ pc[e] = "idle"
    BY <1>9 DEF ProcessPipeTerm, Next_is, Idle
  <2>2. \/ /\ state[e] = "active" /\ state' = [state EXCEPT ![e] = "pending"]
           /\ outpipe' = outpipe
        \/ /\ state' = [state EXCEPT ![e] = "terminating"]
           /\ outpipe' = [outpipe EXCEPT ![e] = NoPipe]
        \/ /\ state' = [state EXCEPT ![e] = "double_terminated"]
           /\ outpipe' = [outpipe EXCEPT ![e] = NoPipe]
    BY <1>9 DEF ProcessPipeTerm, AckAndTerminate
  <2> QED BY <1>2, <1>3, <2>1, <2>2 DEF Ends
<1>10. CASE ProcessPipeTermAck(e)
  <2>1. /\ pc' = pc /\ pc[e] = "idle" /\ state' = [state EXCEPT ![e] = "gone"]
        /\ outpipe' = [outpipe EXCEPT ![e] = NoPipe]
    BY <1>10 DEF ProcessPipeTermAck, Next_is, Idle
  <2> QED BY <1>2, <1>3, <2>1, Zenon DEF Ends
<1>11. CASE ReadEmpty(e) \/ Read(e) \/ CheckWriteFull(e) \/ Rollback(e) \/ Flush(e)
            \/ Hiccup(e) \/ ProcessActivateRead(e) \/ ProcessActivateWrite(e)
  BY <1>4, <1>11, ZenonT(40) DEF ReadEmpty, Read, CheckWriteFull, Rollback, Flush, Hiccup,
       ProcessActivateRead, ProcessActivateWrite, endvars
<1>12. CASE \E more \in BOOLEAN : Write(e, more)
  BY <1>4, <1>12, Zenon DEF Write
<1> QED BY <1>1, <1>5, <1>6, <1>7, <1>8, <1>9, <1>10, <1>11, <1>12 DEF ReadAny, Process
-----------------------------------------------------------------------------
(* What is published *)

(* The changes of a ypipe that keep a whole number of messages published.  *)
PublishedIn(s, n) == n <= Len(s) /\ (n > 0 => ~s[n].more)

(* read takes the first published item. *)
LEMMA PublishedPop ==
  ASSUME NEW s \in Seq(Item), NEW n \in Nat, n > 0, PublishedIn(s, n)
  PROVE  PublishedIn(Tail(s), n - 1)
<1>1. Len(s) \in Nat /\ Len(s) > 0 /\ s # << >>
  BY DEF PublishedIn
<1>2. Len(Tail(s)) = Len(s) - 1 /\ \A i \in 1 .. Len(s) - 1 : Tail(s)[i] = s[i + 1]
  BY <1>1
<1>3. n - 1 > 0 => Tail(s)[n - 1] = s[n]
  BY <1>1, <1>2 DEF PublishedIn
<1> QED BY <1>1, <1>2, <1>3 DEF PublishedIn

(* write publishes nothing. *)
LEMMA PublishedAppend ==
  ASSUME NEW s \in Seq(Item), NEW n \in Nat, PublishedIn(s, n), NEW i \in Item
  PROVE  PublishedIn(Append(s, i), n)
<1>1. /\ Len(Append(s, i)) = Len(s) + 1 /\ Len(s) \in Nat
      /\ \A j \in 1 .. Len(s) : Append(s, i)[j] = s[j]
  BY AppendIs
<1> QED BY <1>1 DEF PublishedIn

(* rollback keeps what is published. *)
LEMMA PublishedRollback ==
  ASSUME IInv, NEW s \in Seq(Item), NEW n \in Nat, PublishedIn(s, n)
  PROVE  PublishedIn(SubSeq(s, 1, Complete(s)), n)
<1>1. n <= Complete(s) /\ Complete(s) \in Nat
  BY CompleteIs DEF PublishedIn
<1>2. /\ Len(SubSeq(s, 1, Complete(s))) = Complete(s)
      /\ \A i \in 1 .. Complete(s) : SubSeq(s, 1, Complete(s))[i] = s[i]
  BY DelimitedIs
<1> QED BY <1>1, <1>2 DEF PublishedIn

(* flush publishes whole messages. *)
LEMMA PublishedFlush ==
  ASSUME IInv, NEW s \in Seq(Item)
  PROVE  PublishedIn(s, Complete(s)) /\ PublishedIn(s, 0)
BY CompleteIs DEF PublishedIn

(* What is published ends with a whole message after every step. *)
LEMMA PublishedStep ==
  ASSUME IInv, Next, TypeOK'
  PROVE  Published'
<1>1. PICK e \in End :
        \/ ReadAny(e) \/ CheckWriteFull(e) \/ \E more \in BOOLEAN : Write(e, more)
        \/ Rollback(e) \/ Flush(e)
        \/ \E delay_ \in BOOLEAN : Terminate(e, delay_)
        \/ TerminateDelimiter(e) \/ Hiccup(e) \/ Process(e)
  BY Zenon DEF Next
<1>2. /\ items \in [PipeId -> Seq(Item)] /\ published \in [PipeId -> Nat]
      /\ inpipe[e] \in PipeId
      /\ outpipe[e] # NoPipe => outpipe[e] \in PipeId
      /\ items' \in [PipeId -> Seq(Item)]
  BY Zenon DEF IInv, TypeOK
<1>3. \A x \in PipeId : PublishedIn(items[x], published[x])
  BY Zenon DEF IInv, Published, PublishedIn
<1> SUFFICES ASSUME NEW x \in PipeId
             PROVE  PublishedIn(items'[x], published'[x])
  BY Zenon DEF Published, PublishedIn
<1>4. CASE items' = items /\ published' = published
  BY <1>3, <1>4
<1>5. CASE ReadDelimiter(e) \/ Read(e)
  <2>1. published[inpipe[e]] > 0 /\ Pop(inpipe[e])
    BY <1>5, Zenon DEF ReadDelimiter, Read, HasItem
  <2>2. CASE x = inpipe[e]
    <3>1. items'[x] = Tail(items[x]) /\ published'[x] = published[x] - 1
      BY <1>2, <2>1, <2>2, Zenon DEF Pop
    <3>2. items[x] \in Seq(Item) /\ published[x] \in Nat /\ published[x] > 0
      BY <1>2, <2>1, <2>2, Zenon
    <3> QED BY <1>3, <3>1, <3>2, PublishedPop
  <2>3. CASE x # inpipe[e]
    BY <1>2, <1>3, <2>1, <2>3, Zenon DEF Pop
  <2> QED BY <2>2, <2>3
<1>6. ASSUME NEW more \in BOOLEAN, Write(e, more)
      PROVE  PublishedIn(items'[x], published'[x])
  <2> DEFINE i == [n |-> msgs_written[e], more |-> more]
  <2>1. i \in Item
    BY Zenon DEF IInv, TypeOK, Item
  <2>2. outpipe[e] \in PipeId
    BY <1>2, <1>6, Zenon DEF Write, Writable, IInv, Ends
  <2>3. /\ published' = published
        /\ items' = [items EXCEPT ![outpipe[e]] = Append(items[outpipe[e]], i)]
    BY <1>6, Zenon DEF Write
  <2> HIDE DEF i
  <2>4. items'[x] = items[x] \/ items'[x] = Append(items[x], i)
    BY <1>2, <2>2, <2>3
  <2>5. items[x] \in Seq(Item) /\ published[x] \in Nat
    BY <1>2
  <2> QED BY <1>3, <2>1, <2>3, <2>4, <2>5, PublishedAppend, Zenon
<1>7. CASE Rollback(e)
  <2>1. /\ published' = published /\ outpipe[e] \in PipeId
        /\ items' = [items EXCEPT ![outpipe[e]] =
                        SubSeq(items[outpipe[e]], 1, Complete(items[outpipe[e]]))]
    BY <1>2, <1>7 DEF Rollback
  <2>2. items'[x] = items[x] \/ items'[x] = SubSeq(items[x], 1, Complete(items[x]))
    BY <1>2, <2>1
  <2>3. items[x] \in Seq(Item) /\ published[x] \in Nat
    BY <1>2, Zenon
  <2> QED BY <1>3, <2>1, <2>2, <2>3, PublishedRollback
<1>8. ASSUME NEW s \in Seq(Item), FlushPipe(outpipe[e], s), outpipe[e] # NoPipe
      PROVE  PublishedIn(items'[x], published'[x])
  <2>1. \/ items'[x] = items[x] /\ published'[x] = published[x]
        \/ items'[x] = s /\ published'[x] = Complete(s)
    BY <1>2, <1>8 DEF FlushPipe
  <2> QED BY <1>3, <2>1, PublishedFlush, Zenon
<1>9. CASE Flush(e)
  <2>1. /\ outpipe[e] # NoPipe /\ items[outpipe[e]] \in Seq(Item)
        /\ FlushPipe(outpipe[e], items[outpipe[e]])
    BY <1>2, <1>9, Zenon DEF Flush
  <2> QED BY <1>8, <2>1, Zenon
<1>10. CASE TerminateDelimiter(e)
  <2> DEFINE s == Append(SubSeq(items[outpipe[e]], 1, Complete(items[outpipe[e]])), Delimiter)
  <2>1. outpipe[e] # NoPipe /\ items[outpipe[e]] \in Seq(Item)
    BY <1>2, <1>10, Zenon DEF TerminateDelimiter, IInv, Ends
  <2>2. s \in Seq(Item)
    BY <2>1, DelimitedIs, Zenon
  <2>3. FlushPipe(outpipe[e], s)
    BY <1>10 DEF TerminateDelimiter
  <2> HIDE DEF s
  <2> QED BY <1>8, <2>1, <2>2, <2>3, Zenon
<1>11. ASSUME NEW y \in PipeId, NEW s, NEW n, DrainAndDelete(y, s, n)
       PROVE  PublishedIn(items'[x], published'[x])
  <2>1. x # y => items'[x] = items[x] /\ published'[x] = published[x]
    BY <1>2, <1>11 DEF DrainAndDelete
  <2>2. x = y => published'[x] = 0
    BY <1>2, <1>11 DEF DrainAndDelete
  <2>3. items'[x] \in Seq(Item)
    BY <1>2, Zenon
  <2> QED BY <1>3, <2>1, <2>2, <2>3, PublishedFlush
<1>12. CASE ProcessHiccup(e)
  <2>1. outpipe[e] \in PipeId
    BY <1>2, <1>12, Zenon DEF ProcessHiccup
  <2> QED BY <1>11, <1>12, <2>1, Zenon DEF ProcessHiccup
<1>13. CASE ProcessPipeTermAck(e)
  BY <1>2, <1>11, <1>13, ZenonT(40) DEF ProcessPipeTermAck
<1>14. CASE ReadEmpty(e) \/ CheckWriteFull(e) \/ Hiccup(e) \/ ProcessActivateRead(e)
            \/ ProcessActivateWrite(e) \/ ProcessPipeTerm(e)
  BY <1>4, <1>14, Zenon DEF ReadEmpty, CheckWriteFull, Hiccup, ProcessActivateRead,
       ProcessActivateWrite, ProcessPipeTerm, pipevars
<1>15. CASE \E delay_ \in BOOLEAN : Terminate(e, delay_)
  BY <1>4, <1>15, Zenon DEF Terminate, pipevars
<1> QED BY <1>1, <1>5, <1>6, <1>7, <1>9, <1>10, <1>12, <1>13, <1>14, <1>15
        DEF ReadAny, Process
-----------------------------------------------------------------------------
(* Ownership of the ypipes *)

(* Commands other than hiccups leave the chain as it is. *)
LEMMA ChainAppend ==
  ASSUME NEW q \in Seq(Command), NEW c \in Command, c.type # "hiccup",
         NEW out, NEW in, Chain(q, out, in)
  PROVE  Chain(Append(q, c), out, in)
<1> DEFINE r == Append(q, c)
<1>1. \A x : Carries(r, x) <=> Carries(q, x)
  BY CarriesAppend
<1>2. /\ Len(q) \in Nat /\ DOMAIN q = 1 .. Len(q) /\ DOMAIN r = 1 .. Len(q) + 1
      /\ \A i \in 1 .. Len(q) : r[i] = q[i]
      /\ r[Len(q) + 1] = c
  BY AppendIs
<1> HIDE DEF r
<1>3. \A i \in DOMAIN r : r[i].type = "hiccup" => i \in DOMAIN q /\ r[i] = q[i]
  BY <1>2
<1> QED BY <1>1, <1>3, Zenon DEF Chain, r

(* A receive other than of a hiccup keeps the chain of ypipes. *)
LEMMA ChainTail ==
  ASSUME NEW q \in Seq(Command), q # << >>, Head(q).type # "hiccup",
         NEW out, NEW in, Chain(q, out, in)
  PROVE  Chain(Tail(q), out, in)
<1> DEFINE r == Tail(q)
<1>1. \A x : Carries(r, x) <=> Carries(q, x)
  BY CarriesTail
<1>2. /\ Len(q) \in Nat \ {0} /\ DOMAIN q = 1 .. Len(q) /\ DOMAIN r = 1 .. Len(q) - 1
      /\ \A i \in 1 .. Len(q) - 1 : r[i] = q[i + 1]
  OBVIOUS
<1> HIDE DEF r
<1>3. \A i \in DOMAIN r : i + 1 \in DOMAIN q /\ r[i] = q[i + 1] /\ i \in Nat
  BY <1>2
<1>4. \A i, j \in DOMAIN r : i < j => i + 1 < j + 1
  BY <1>3
<1>5. SUFFICES ASSUME out # NoPipe,
                      NEW i \in DOMAIN r, NEW j \in DOMAIN r, i < j,
                      r[i].type = "hiccup", r[j].type = "hiccup"
               PROVE  r[i].pipe < r[j].pipe
  BY <1>1 DEF Chain, r
<1> QED BY <1>3, <1>4, <1>5 DEF Chain

(* A new ypipe becomes the last one of the chain. *)
LEMMA ChainHiccup ==
  ASSUME NEW q \in Seq(Command), NEW c \in Command, c.type = "hiccup",
         NEW out \in PipeId, NEW in \in PipeId, Chain(q, out, in),
         out < c.pipe, in < c.pipe
  PROVE  Chain(Append(q, c), out, c.pipe)
<1> DEFINE r == Append(q, c)
<1>1. \A x : Carries(r, x) <=> Carries(q, x) \/ c.pipe = x
  BY CarriesAppend
<1>2. /\ Len(q) \in Nat /\ DOMAIN q = 1 .. Len(q) /\ DOMAIN r = 1 .. Len(q) + 1
      /\ \A i \in 1 .. Len(q) : r[i] = q[i]
      /\ r[Len(q) + 1] = c
  BY AppendIs
<1>3. out # NoPipe /\ out \in Nat /\ in \in Nat /\ c.pipe \in Nat
  BY CommandFields DEF PipeId, NoPipe
<1>4. \A i \in DOMAIN q : q[i].type = "hiccup" => q[i].pipe \in PipeId
  BY CommandFields
<1> HIDE DEF r
<1>5. \A x \in PipeId : Carries(r, x) => out < x /\ x <= c.pipe
  BY <1>1, <1>3 DEF Chain, PipeId
<1>6. ASSUME NEW i \in DOMAIN r, NEW j \in DOMAIN r, i < j,
             r[i].type = "hiccup", r[j].type = "hiccup"
      PROVE  r[i].pipe < r[j].pipe
  <2>1. i \in DOMAIN q /\ r[i] = q[i] /\ ((j \in DOMAIN q /\ r[j] = q[j]) \/ r[j] = c)
    BY <1>2, <1>6
  <2>2. CASE r[j] = c
    <3>1. Carries(q, q[i].pipe) /\ q[i].pipe \in PipeId
      BY <1>4, <1>6, <2>1 DEF Carries
    <3>2. q[i].pipe <= in
      BY <1>3, <3>1, Zenon DEF Chain
    <3> QED BY <1>3, <2>1, <2>2, <3>1, <3>2 DEF PipeId
  <2> QED BY <1>3, <1>6, <2>1, <2>2 DEF Chain
<1> QED BY <1>1, <1>5, <1>6 DEF Chain, r

(* The first ypipe of the chain becomes the writer's. *)
LEMMA ChainProcess ==
  ASSUME NEW q \in Seq(Command), q # << >>, Head(q).type = "hiccup",
         NEW out \in PipeId, NEW in \in PipeId, Chain(q, out, in)
  PROVE  /\ Chain(Tail(q), Head(q).pipe, in) /\ Head(q).pipe \in PipeId
         /\ out # in /\ ~Carries(Tail(q), out) /\ out # Head(q).pipe
<1> DEFINE r == Tail(q)
           h == Head(q).pipe
<1>1. \A x : Carries(q, x) <=> h = x \/ Carries(r, x)
  BY CarriesTail
<1>2. /\ Len(q) \in Nat \ {0} /\ DOMAIN q = 1 .. Len(q) /\ DOMAIN r = 1 .. Len(q) - 1
      /\ \A i \in 1 .. Len(q) - 1 : r[i] = q[i + 1]
      /\ Head(q) = q[1] /\ Head(q) \in Command
  OBVIOUS
<1>3. h \in PipeId
  BY <1>2, CommandFields
<1>4. out # NoPipe /\ h # NoPipe /\ out \in Nat /\ in \in Nat /\ h \in Nat
  BY <1>3 DEF PipeId, NoPipe
<1>5. q[1].type = "hiccup" /\ q[1].pipe = h
  BY <1>2
<1> HIDE DEF r, h
<1>6. out < h /\ h <= in
  BY <1>1, <1>3, <1>4 DEF Chain
<1>7. \A i \in DOMAIN r : i + 1 \in DOMAIN q /\ r[i] = q[i + 1] /\ i \in Nat /\ 1 < i + 1
  BY <1>2
<1>8. ASSUME NEW x \in PipeId, Carries(r, x) PROVE h < x /\ x <= in
  <2>1. PICK i \in DOMAIN r : r[i].type = "hiccup" /\ r[i].pipe = x
    BY <1>8 DEF Carries
  <2>2. 1 \in DOMAIN q /\ i + 1 \in DOMAIN q /\ 1 < i + 1 /\ q[i + 1] = r[i]
    BY <1>2, <1>7
  <2>3. q[1].pipe < q[i + 1].pipe
    BY <1>4, <1>5, <2>1, <2>2 DEF Chain
  <2>4. x <= in
    BY <1>1, <1>4, <1>8, Zenon DEF Chain
  <2> QED BY <1>5, <2>1, <2>2, <2>3, <2>4
<1>9. ASSUME NEW i \in DOMAIN r, NEW j \in DOMAIN r, i < j,
             r[i].type = "hiccup", r[j].type = "hiccup"
      PROVE  r[i].pipe < r[j].pipe
  <2>1. i + 1 < j + 1
    BY <1>7, <1>9
  <2> QED BY <1>4, <1>7, <1>9, <2>1 DEF Chain
<1>10. in = h \/ Carries(r, in)
  BY <1>1, <1>4, <1>6 DEF Chain
<1>11. Chain(r, h, in)
  BY <1>8, <1>9, <1>10 DEF Chain
<1>12. out # in /\ out # h /\ ~Carries(r, out)
  BY <1>4, <1>6, <1>8
<1> QED BY <1>3, <1>11, <1>12 DEF r, h

(* A step that neither creates nor deletes a ypipe.  An end that gives up  *)
(* its outpipe leaves it to the peer, who still reads it.                  *)
LEMMA OwnershipKept ==
  ASSUME IInv, Handshake', NEW e \in End,
         inpipe' = inpipe, allocated' = allocated, freed' = freed,
         outpipe'[Peer(e)] = outpipe[Peer(e)],
         \/ outpipe'[e] = outpipe[e]
         \/ outpipe'[e] = NoPipe /\ state'[e] \in {"terminating", "double_terminated"},
         \A d \in End : state'[d] = "gone" <=> state[d] = "gone",
         \A d \in End, x \in PipeId : Carries(cmds'[d], x) <=> Carries(cmds[d], x),
         \A d \in End : Chain(cmds'[d], outpipe[d], inpipe[Peer(d)])
  PROVE  Ownership'
<1> DEFINE p == Peer(e)
<1>1. p \in End /\ p # e /\ Peer(p) = e /\ (\A d \in End : d = e \/ d = p)
  BY DEF Peer, End
<1>2. /\ inpipe[e] \in PipeId /\ inpipe[p] \in PipeId
      /\ outpipe[e] \in PipeId \cup {NoPipe}
      /\ \A x \in PipeId : x # NoPipe
  BY <1>1 DEF IInv, TypeOK, PipeId, NoPipe
<1>3. Ownership
  BY Zenon DEF IInv
<1> HIDE DEF p
<1>4. \A x \in PipeId : InUse(p, x)' <=> InUse(p, x)
  BY <1>1, Zenon DEF InUse, p
<1>5. \A x \in PipeId : InUse(e, x)' <=> InUse(e, x)
  <2>1. CASE outpipe'[e] = outpipe[e]
    BY <1>1, <2>1, Zenon DEF InUse, p
  <2>2. CASE outpipe'[e] = NoPipe /\ outpipe[e] # NoPipe
    <3>1. state'[e] \in {"terminating", "double_terminated"}
      BY <2>2, Zenon
    <3>2. ~Holds(cmds'[e], "hiccup")
      BY <3>1, Zenon DEF Handshake, Joint, QueueFits
    <3>3. \A x \in PipeId : ~Carries(cmds'[e], x) /\ ~Carries(cmds[e], x)
      BY <3>2, CarriesHolds, Zenon
    <3>4. inpipe[p] = outpipe[e]
      BY <1>1, <1>2, <1>3, <2>2, <3>3, Zenon DEF Ownership, Chain, p
    <3>5. state[e] \notin {"terminating", "double_terminated", "gone"}
      BY <2>2 DEF IInv, Ends
    <3>6. state[p] # "gone"
      BY <1>1, <3>5 DEF IInv, Handshake, Joint, PeerStates, p, TypeOK, State
    <3> QED BY <1>1, <1>2, <2>2, <3>3, <3>4, <3>6, Zenon DEF InUse, p
  <2> QED BY <1>2, <2>1, <2>2, Zenon
<1>6. \A d \in End : Chain(cmds'[d], outpipe'[d], inpipe'[Peer(d)])
  <2>1. Chain(cmds'[p], outpipe'[p], inpipe'[Peer(p)])
    BY <1>1 DEF p
  <2>2. Chain(cmds'[e], outpipe'[e], inpipe'[Peer(e)])
    BY <1>2 DEF Chain
  <2> QED BY <1>1, <2>1, <2>2
<1>7. e \in {0, 1} /\ {e, p} = {0, 1}
  BY DEF End, p, Peer
<1> QED BY <1>3, <1>4, <1>5, <1>6, <1>7 DEF Ownership

(* The mailboxes after a step that sends or receives no hiccup. *)
LEMMA CarriedAfterSend ==
  ASSUME IInv, NEW e \in End, NEW c \in Command, c.type # "hiccup",
         cmds' = Sent(cmds, e, c)
  PROVE  /\ \A d \in End, x \in PipeId : Carries(cmds'[d], x) <=> Carries(cmds[d], x)
         /\ \A d \in End : Chain(cmds'[d], outpipe[d], inpipe[Peer(d)])
<1>1. \A d \in End : d = e \/ d = Peer(e)
  BY DEF Peer, End
<1>2. /\ cmds'[e] = cmds[e] /\ cmds'[Peer(e)] = Append(cmds[Peer(e)], c)
      /\ cmds[Peer(e)] \in Seq(Command)
  BY SentIs, Peers, Zenon DEF IInv, TypeOK
<1>3. \A d \in End : Chain(cmds[d], outpipe[d], inpipe[Peer(d)])
  BY DEF IInv, Ownership
<1>4. Chain(cmds'[Peer(e)], outpipe[Peer(e)], inpipe[Peer(Peer(e))])
  BY <1>2, <1>3, Peers, ChainAppend
<1>5. \A x \in PipeId : Carries(cmds'[Peer(e)], x) <=> Carries(cmds[Peer(e)], x)
  BY <1>2, CarriesAppend
<1> QED BY <1>1, <1>2, <1>3, <1>4, <1>5, Zenon

(* The same for both ends, with an acknowledgement sent or not. *)
LEMMA CarriedAfterReceive ==
  ASSUME IInv, NEW e \in End, cmds[e] # << >>, Head(cmds[e]).type # "hiccup",
         \/ cmds' = Received(e)
         \/ cmds' = Sent(Received(e), e, PipeTermAck)
  PROVE  /\ \A d \in End, x \in PipeId : Carries(cmds'[d], x) <=> Carries(cmds[d], x)
         /\ \A d \in End : Chain(cmds'[d], outpipe[d], inpipe[Peer(d)])
<1> DEFINE p == Peer(e)
<1>1. (\A d \in End : d = e \/ d = p) /\ p \in End
  BY DEF Peer, End
<1>2. /\ Received(e) \in [End -> Seq(Command)]
      /\ Received(e)[e] = Tail(cmds[e]) /\ Received(e)[p] = cmds[p]
      /\ cmds[e] \in Seq(Command) /\ cmds[p] \in Seq(Command)
  BY <1>1, ReceivedIs, Zenon DEF IInv, TypeOK
<1>3. \A d \in End : Chain(cmds[d], outpipe[d], inpipe[Peer(d)])
  BY DEF IInv, Ownership
<1>4. cmds'[e] = Tail(cmds[e]) /\ (cmds'[p] = cmds[p] \/ cmds'[p] = Append(cmds[p], PipeTermAck))
  <2>1. CASE cmds' = Received(e)
    BY <1>2, <2>1
  <2>2. CASE cmds' = Sent(Received(e), e, PipeTermAck)
    <3>1. cmds'[e] = Received(e)[e] /\ cmds'[p] = Append(Received(e)[p], PipeTermAck)
      BY <1>2, <2>2, SendIs, Zenon
    <3> QED BY ONLY <1>2, <3>1
  <2> QED BY <2>1, <2>2
<1> HIDE DEF p
<1>5. Chain(cmds'[e], outpipe[e], inpipe[Peer(e)])
  BY <1>2, <1>3, <1>4, ChainTail, Zenon
<1>6. \A x \in PipeId : Carries(cmds'[e], x) <=> Carries(cmds[e], x)
  BY <1>2, <1>4, CarriesTail
<1>7. PipeTermAck \in Command /\ PipeTermAck.type # "hiccup"
  BY Commands
<1>8. Chain(cmds'[p], outpipe[p], inpipe[Peer(p)])
  BY <1>1, <1>2, <1>3, <1>4, <1>7, ChainAppend, Zenon
<1>9. \A x \in PipeId : Carries(cmds'[p], x) <=> Carries(cmds[p], x)
  <2>1. \A x : Carries(Append(cmds[p], PipeTermAck), x) <=> Carries(cmds[p], x)
    BY <1>2, <1>7, CarriesAppend, Zenon
  <2> QED BY <1>4, <2>1, Zenon
<1> QED BY <1>1, <1>5, <1>6, <1>8, <1>9

(* The steps that leave the ypipes to their owners. *)
LEMMA OwnershipCalls ==
  ASSUME IInv, Handshake', NEW e \in End,
         \/ ReadAny(e) \/ CheckWriteFull(e) \/ \E more \in BOOLEAN : Write(e, more)
         \/ Rollback(e) \/ Flush(e)
         \/ \E delay_ \in BOOLEAN : Terminate(e, delay_)
         \/ TerminateDelimiter(e)
  PROVE  Ownership'
<1>1. Peer(e) \in End /\ Peer(e) # e /\ state \in [End -> State]
      /\ outpipe \in [End -> PipeId \cup {NoPipe}] /\ state[e] # "gone"
  <2>1. state[e] # "gone"
    BY Zenon DEF ReadAny, ReadEmpty, ReadDelimiter, Read, Readable, CheckWriteFull, Write,
           Writable, Rollback, Flush, Terminate, Idle, TerminateDelimiter, IInv, Ends
  <2> QED BY <2>1, Peers DEF IInv, TypeOK
<1>2. inpipe' = inpipe /\ allocated' = allocated /\ freed' = freed
  BY Zenon DEF ReadAny, ReadEmpty, ReadDelimiter, Read, CheckWriteFull, Write, Rollback,
         Flush, Terminate, TerminateDelimiter, endvars, pipevars
<1>3. \/ state' = state /\ outpipe' = outpipe
      \/ /\ \/ state' = [state EXCEPT ![e] = "delimited"]
            \/ state' = [state EXCEPT ![e] = "terminated"]
         /\ outpipe' = outpipe
      \/ /\ state' = [state EXCEPT ![e] = "terminating"]
         /\ outpipe' = [outpipe EXCEPT ![e] = NoPipe]
  BY Zenon DEF ReadAny, ReadEmpty, ReadDelimiter, Read, CheckWriteFull, Write, Rollback,
         Flush, Terminate, TerminateDelimiter, endvars, AckAndTerminate
<1>4. \/ cmds' = cmds
      \/ \E c \in Command : c.type # "hiccup" /\ cmds' = Sent(cmds, e, c)
  <2>1. \/ cmds' = cmds
        \/ cmds' = Sent(cmds, e, ActivateRead) \/ cmds' = Sent(cmds, e, PipeTerm)
        \/ cmds' = Sent(cmds, e, PipeTermAck)
        \/ Read(e)
    BY Zenon DEF ReadAny, ReadEmpty, ReadDelimiter, CheckWriteFull, Write, Rollback,
           Flush, Terminate, TerminateDelimiter, AckAndTerminate
  <2>2. CASE Read(e)
    <3> DEFINE n == msgs_read[e] + (IF Head(items[inpipe[e]]).more THEN 0 ELSE 1)
               c == [type |-> "activate_write", msgs_read |-> n]
    <3>1. n \in Nat
      BY DEF IInv, TypeOK
    <3>2. c \in Command /\ c.type # "hiccup"
      BY <3>1, WriteCommand, Zenon
    <3>3. cmds' = cmds \/ cmds' = Sent(cmds, e, c)
      BY <2>2, Zenon DEF Read
    <3> HIDE DEF c
    <3> QED BY <3>2, <3>3
  <2> QED BY <2>1, <2>2, Commands
<1>5. /\ \A d \in End, x \in PipeId : Carries(cmds'[d], x) <=> Carries(cmds[d], x)
      /\ \A d \in End : Chain(cmds'[d], outpipe[d], inpipe[Peer(d)])
  <2>1. CASE cmds' = cmds
    BY <2>1, Zenon DEF IInv, Ownership
  <2> QED BY <1>4, <2>1, CarriedAfterSend, Zenon
<1>6. \A d \in End : state'[d] = "gone" <=> state[d] = "gone"
  BY <1>1, <1>3
<1>7. /\ outpipe'[Peer(e)] = outpipe[Peer(e)]
      /\ \/ outpipe'[e] = outpipe[e]
         \/ outpipe'[e] = NoPipe /\ state'[e] \in {"terminating", "double_terminated"}
  BY <1>1, <1>3, Zenon
<1> QED BY <1>2, <1>5, <1>6, <1>7, OwnershipKept

(* hiccup creates a ypipe and passes it to the peer. *)
LEMMA OwnershipHiccup ==
  ASSUME IInv, NEW e \in End, Hiccup(e)
  PROVE  Ownership'
<1> DEFINE p == Peer(e)
           c == [type |-> "hiccup", pipe |-> allocated]
<1>1. p \in End /\ p # e /\ Peer(p) = e /\ (\A d \in End : d = e \/ d = p)
  BY DEF Peer, End
<1>2. /\ allocated \in PipeId /\ allocated' = allocated + 1 /\ freed' = freed
      /\ outpipe' = outpipe /\ state' = state /\ state[e] = "active"
      /\ inpipe' = [inpipe EXCEPT ![e] = allocated]
      /\ cmds' = Sent(cmds, e, c)
  BY DEF Hiccup, MayHiccup
<1>3. c \in Command /\ c.type = "hiccup" /\ c.pipe = allocated
  BY <1>2, HiccupCommand
<1> HIDE DEF c, p
<1>4. /\ inpipe \in [End -> PipeId] /\ outpipe \in [End -> PipeId \cup {NoPipe}]
      /\ cmds \in [End -> Seq(Command)]
  BY DEF IInv, TypeOK
<1>5. cmds'[e] = cmds[e] /\ cmds'[p] = Append(cmds[p], c) /\ cmds[p] \in Seq(Command)
  <2>1. cmds'[e] = cmds[e] /\ cmds'[Peer(e)] = Append(cmds[Peer(e)], c)
    BY ONLY <1>2, <1>3, <1>4, e \in End, SentIs, Zenon
  <2> QED BY <1>1, <1>4, <2>1 DEF p
<1>6. inpipe'[e] = allocated /\ inpipe'[p] = inpipe[p] /\ inpipe[e] \in PipeId
  BY <1>1, <1>2, <1>4
<1>7. state[p] \in {"active", "delimited", "terminated"}
  BY <1>1, <1>2 DEF IInv, Handshake, Joint, PeerStates, p
<1>8. outpipe[p] \in PipeId /\ outpipe[p] # NoPipe
  BY <1>1, <1>4, <1>7, Zenon DEF IInv, Ends
<1>9. Ownership
  BY DEF IInv
<1>10. inpipe[e] < allocated /\ outpipe[p] < allocated
  <2>1. InUse(p, inpipe[e]) /\ InUse(p, outpipe[p])
    BY <1>1, <1>2, <1>8 DEF InUse
  <2>2. p \in {0, 1}
    BY <1>1, Zenon DEF End
  <2> QED BY <1>6, <1>8, <1>9, <2>1, <2>2 DEF Ownership
<1>11. Chain(cmds'[p], outpipe'[p], inpipe'[e])
  BY <1>1, <1>2, <1>3, <1>5, <1>6, <1>8, <1>9, <1>10, ChainHiccup, ZenonT(40) DEF Ownership
<1>12. Chain(cmds'[e], outpipe'[e], inpipe'[p])
  BY <1>1, <1>2, <1>5, <1>6, <1>9, Zenon DEF Ownership, p
<1>13. \A x \in PipeId : InUse(e, x)' <=> InUse(e, x)
  BY <1>1, <1>2, <1>5, <1>6, Zenon DEF InUse, p
<1>14. \A x \in PipeId : InUse(p, x)' <=> InUse(p, x) \/ x = allocated
  <2>1. \A x : Carries(cmds'[p], x) <=> Carries(cmds[p], x) \/ x = allocated
    BY <1>3, <1>5, CarriesAppend
  <2>2. inpipe[e] = outpipe[p] \/ Carries(cmds[p], inpipe[e])
    BY <1>1, <1>8, <1>9 DEF Ownership, Chain
  <2> QED BY <1>1, <1>2, <1>6, <1>8, <2>1, <2>2 DEF InUse
<1>15. {e, p} = {0, 1}
  BY DEF End, p, Peer
<1>16. allocated' \in 2 .. MaxHiccups + 2
  BY <1>2, <1>9, PipeAssumption DEF Ownership, PipeId
<1>17. \A x \in PipeId : x < allocated + 1 <=> x < allocated \/ x = allocated
  BY <1>2 DEF PipeId
<1>18. /\ allocated \notin freed /\ ~InUse(0, allocated) /\ ~InUse(1, allocated)
  BY <1>2, <1>9, <1>17 DEF Ownership, PipeId
<1>19. /\ \A x \in PipeId : ~(InUse(0, x)' /\ InUse(1, x)')
       /\ \A x \in PipeId : x \in freed' => ~InUse(0, x)' /\ ~InUse(1, x)'
       /\ \A x \in PipeId : x < allocated' <=> x \in freed' \/ InUse(0, x)' \/ InUse(1, x)'
  BY <1>2, <1>9, <1>13, <1>14, <1>15, <1>17, <1>18 DEF Ownership
<1> QED BY <1>1, <1>11, <1>12, <1>16, <1>19 DEF Ownership, p

(* process_hiccup deletes a ypipe that nobody reads any more. *)
LEMMA OwnershipProcessHiccup ==
  ASSUME IInv, NEW e \in End, ProcessHiccup(e)
  PROVE  Ownership'
<1> DEFINE p == Peer(e)
           o == outpipe[e]
           h == Head(cmds[e]).pipe
<1>1. p \in End /\ p # e /\ Peer(p) = e /\ (\A d \in End : d = e \/ d = p)
  BY DEF Peer, End
<1>2. /\ cmds[e] # << >> /\ Head(cmds[e]).type = "hiccup" /\ o # NoPipe
      /\ outpipe' = [outpipe EXCEPT ![e] = h] /\ cmds' = Received(e)
      /\ state' = state /\ inpipe' = inpipe /\ allocated' = allocated
      /\ freed' = freed \cup {o}
  BY Zenon DEF ProcessHiccup, Next_is, DrainAndDelete
<1>3. /\ inpipe \in [End -> PipeId] /\ outpipe \in [End -> PipeId \cup {NoPipe}]
      /\ cmds[e] \in Seq(Command) /\ cmds[p] \in Seq(Command)
  BY <1>1, Zenon DEF IInv, TypeOK
<1>4. cmds'[e] = Tail(cmds[e]) /\ cmds'[p] = cmds[p]
  BY <1>2, ReceivedIs, Zenon DEF IInv
<1>5. o \in PipeId /\ inpipe[p] \in PipeId /\ \A x \in PipeId : x # NoPipe
  BY <1>1, <1>2, <1>3 DEF PipeId, NoPipe
<1>6. Ownership
  BY Zenon DEF IInv
<1> HIDE DEF p, o, h
<1>7. Chain(cmds[e], o, inpipe[p])
  BY <1>6, Zenon DEF Ownership, p, o
<1>8. /\ Chain(Tail(cmds[e]), h, inpipe[p]) /\ h \in PipeId
      /\ o # inpipe[p] /\ ~Carries(Tail(cmds[e]), o) /\ o # h
  BY <1>2, <1>3, <1>5, <1>7, ChainProcess, Zenon DEF h
<1>9. outpipe'[e] = h /\ outpipe'[p] = outpipe[p] /\ outpipe[e] = o
  BY <1>1, <1>2, <1>3, Zenon DEF o
<1>10. \A x : Carries(cmds[e], x) <=> h = x \/ Carries(Tail(cmds[e]), x)
  BY <1>2, <1>3, CarriesTail DEF h
<1>11. \A x \in PipeId : InUse(e, x)' <=> InUse(e, x) /\ x # o
  BY <1>2, <1>4, <1>5, <1>8, <1>9, <1>10 DEF InUse, p
<1>12. \A x \in PipeId : InUse(p, x)' <=> InUse(p, x)
  BY <1>1, <1>2, <1>4, <1>9 DEF InUse
<1>13. InUse(e, o)
  BY <1>2, <1>9 DEF InUse
<1>14. {e, p} = {0, 1}
  BY DEF End, p, Peer
<1>15. /\ \A x \in PipeId : ~(InUse(0, x)' /\ InUse(1, x)')
       /\ \A x \in PipeId : x \in freed' => ~InUse(0, x)' /\ ~InUse(1, x)'
       /\ \A x \in PipeId : x < allocated' <=> x \in freed' \/ InUse(0, x)' \/ InUse(1, x)'
  <2>1. CASE e = 0 /\ p = 1
    BY <1>2, <1>5, <1>6, <1>11, <1>12, <1>13, <2>1 DEF Ownership
  <2>2. CASE e = 1 /\ p = 0
    BY <1>2, <1>5, <1>6, <1>11, <1>12, <1>13, <2>2 DEF Ownership
  <2> QED BY <1>14, <2>1, <2>2, e \in End DEF End
<1>16. Chain(cmds'[e], outpipe'[e], inpipe'[p]) /\ Chain(cmds'[p], outpipe'[p], inpipe'[e])
  BY <1>1, <1>2, <1>4, <1>6, <1>8, <1>9, Zenon DEF Ownership
<1> QED BY <1>1, <1>2, <1>6, <1>15, <1>16 DEF Ownership, p

(* process_pipe_term_ack deletes the inpipe, which the peer has given up.  *)
LEMMA OwnershipAck ==
  ASSUME IInv, Handshake', Ends', NEW e \in End, ProcessPipeTermAck(e)
  PROVE  Ownership'
<1> DEFINE p == Peer(e)
           i == inpipe[e]
<1>1. p \in End /\ p # e /\ Peer(p) = e /\ (\A d \in End : d = e \/ d = p)
  BY DEF Peer, End
<1>2. /\ cmds[e] # << >> /\ Head(cmds[e]).type = "pipe_term_ack"
      /\ state[e] \in {"terminating", "double_terminated", "terminated"}
      /\ state' = [state EXCEPT ![e] = "gone"]
      /\ outpipe' = [outpipe EXCEPT ![e] = NoPipe]
      /\ cmds' = Received(e) \/ cmds' = Sent(Received(e), e, PipeTermAck)
      /\ inpipe' = inpipe /\ allocated' = allocated
      /\ freed' = freed \cup {i}
  BY Zenon DEF ProcessPipeTermAck, Next_is, DrainAndDelete
<1>3. /\ state \in [End -> State]
      /\ inpipe \in [End -> PipeId] /\ outpipe \in [End -> PipeId \cup {NoPipe}]
  BY DEF IInv, TypeOK
<1>4. i \in PipeId /\ inpipe[p] \in PipeId /\ \A x \in PipeId : x # NoPipe
  BY <1>1, <1>3 DEF PipeId, NoPipe
<1>5. /\ state'[e] = "gone" /\ state'[p] = state[p]
      /\ outpipe'[e] = NoPipe /\ outpipe'[p] = outpipe[p]
  BY <1>1, <1>2, <1>3
<1> HIDE DEF p, i
<1>6. Ownership
  BY DEF IInv
<1>7. /\ \A d \in End, x \in PipeId : Carries(cmds'[d], x) <=> Carries(cmds[d], x)
      /\ \A d \in End : Chain(cmds'[d], outpipe[d], inpipe[Peer(d)])
  BY <1>2, CarriedAfterReceive
<1>8. state'[p] \in {"terminating", "double_terminated", "gone"}
  BY <1>1, <1>5 DEF Handshake, Joint, PeerStates, p
<1>9. outpipe[p] = NoPipe
  BY <1>1, <1>5, <1>8 DEF Ends
<1>10. \A x \in PipeId : ~Carries(cmds'[e], x) /\ ~Carries(cmds'[p], x)
  <2>1. ~Holds(cmds'[e], "hiccup") /\ ~Holds(cmds'[p], "hiccup")
    BY <1>1, <1>5, <1>8 DEF Handshake, Joint, QueueFits, p
  <2> QED BY <2>1, CarriesHolds
<1>11. \A x \in PipeId : ~Carries(cmds[e], x) /\ ~Carries(cmds[p], x)
  BY <1>1, <1>7, <1>10, Zenon
<1>12. \A x \in PipeId : ~InUse(p, x)' /\ (InUse(p, x) <=> x = i)
  BY <1>1, <1>2, <1>5, <1>9, <1>10, <1>11, ZenonT(40) DEF InUse, i
<1>13. \A x \in PipeId : InUse(e, x)' <=> InUse(e, x)
  <2>1. outpipe[e] # NoPipe => outpipe[e] = inpipe[p]
    BY <1>4, <1>6, <1>11, Zenon DEF Ownership, Chain, p
  <2>2. outpipe[e] # NoPipe => state[p] # "gone"
    <3>1. outpipe[e] # NoPipe => state[e] = "terminated"
      BY <1>2 DEF IInv, Ends
    <3> QED BY <1>1, <3>1 DEF IInv, Handshake, Joint, PeerStates, p
  <2> QED BY <1>1, <1>2, <1>5, <1>10, <1>11, <2>1, <2>2, Zenon DEF InUse, p
<1>14. {e, p} = {0, 1}
  BY DEF End, p, Peer
<1>15. /\ \A x \in PipeId : ~(InUse(0, x)' /\ InUse(1, x)')
       /\ \A x \in PipeId : x \in freed' => ~InUse(0, x)' /\ ~InUse(1, x)'
       /\ \A x \in PipeId : x < allocated' <=> x \in freed' \/ InUse(0, x)' \/ InUse(1, x)'
  <2>1. CASE e = 0 /\ p = 1
    BY <1>2, <1>4, <1>6, <1>12, <1>13, <2>1 DEF Ownership
  <2>2. CASE e = 1 /\ p = 0
    BY <1>2, <1>4, <1>6, <1>12, <1>13, <2>2 DEF Ownership
  <2> QED BY <1>14, <2>1, <2>2, e \in End DEF End
<1>16. \A d \in End : Chain(cmds'[d], outpipe'[d], inpipe'[Peer(d)])
  BY <1>1, <1>5, <1>9 DEF Chain
<1> QED BY <1>2, <1>6, <1>15, <1>16 DEF Ownership

(* The handlers keep the ypipes apart and delete each once. *)
LEMMA OwnershipProcess ==
  ASSUME IInv, Handshake', Ends', NEW e \in End, Process(e)
  PROVE  Ownership'
<1>1. Peer(e) \in End /\ Peer(e) # e /\ state \in [End -> State]
      /\ outpipe \in [End -> PipeId \cup {NoPipe}]
  BY Peers, Zenon DEF IInv, TypeOK
<1>2. CASE ProcessActivateRead(e) \/ ProcessActivateWrite(e)
  <2>1. /\ cmds[e] # << >> /\ Head(cmds[e]).type # "hiccup"
        /\ cmds' = Received(e) /\ state' = state /\ outpipe' = outpipe
        /\ inpipe' = inpipe /\ allocated' = allocated /\ freed' = freed
    BY <1>2 DEF ProcessActivateRead, ProcessActivateWrite, Next_is, pipevars
  <2>2. /\ \A d \in End, x \in PipeId : Carries(cmds'[d], x) <=> Carries(cmds[d], x)
        /\ \A d \in End : Chain(cmds'[d], outpipe[d], inpipe[Peer(d)])
    BY <2>1, CarriedAfterReceive, Zenon
  <2> QED BY <2>1, <2>2, OwnershipKept
<1>3. CASE ProcessPipeTerm(e)
  <2>1. /\ cmds[e] # << >> /\ Head(cmds[e]).type # "hiccup" /\ state[e] # "gone"
        /\ cmds' = Received(e) \/ cmds' = Sent(Received(e), e, PipeTermAck)
        /\ inpipe' = inpipe /\ allocated' = allocated /\ freed' = freed
    BY <1>3 DEF ProcessPipeTerm, Next_is, pipevars, AckAndTerminate, Idle
  <2>2. \/ /\ state' = [state EXCEPT ![e] = "pending"]
           /\ outpipe' = outpipe
        \/ /\ state' = [state EXCEPT ![e] = "terminating"]
           /\ outpipe' = [outpipe EXCEPT ![e] = NoPipe]
        \/ /\ state' = [state EXCEPT ![e] = "double_terminated"]
           /\ outpipe' = [outpipe EXCEPT ![e] = NoPipe]
    BY <1>3 DEF ProcessPipeTerm, AckAndTerminate
  <2>3. /\ \A d \in End, x \in PipeId : Carries(cmds'[d], x) <=> Carries(cmds[d], x)
        /\ \A d \in End : Chain(cmds'[d], outpipe[d], inpipe[Peer(d)])
    BY <2>1, CarriedAfterReceive, Zenon
  <2>4. \A d \in End : state'[d] = "gone" <=> state[d] = "gone"
    BY <1>1, <2>1, <2>2
  <2>5. /\ outpipe'[Peer(e)] = outpipe[Peer(e)]
        /\ \/ outpipe'[e] = outpipe[e]
           \/ outpipe'[e] = NoPipe /\ state'[e] \in {"terminating", "double_terminated"}
    BY <1>1, <2>2
  <2> QED BY <2>1, <2>3, <2>4, <2>5, OwnershipKept
<1> QED BY <1>2, <1>3, OwnershipProcessHiccup, OwnershipAck DEF Process
-----------------------------------------------------------------------------
(* The theorems *)

LEMMA IInvInit == CompleteFinds /\ Init => IInv
<1> SUFFICES ASSUME CompleteFinds, Init PROVE IInv
  OBVIOUS
<1>1. \A x : << >> \in Seq(x)
  BY EmptyIs
<1>2. TypeOK
  BY <1>1, PipeAssumption DEF Init, TypeOK, SettingType, PipeId, End, Peer, State
<1>3. Handshake
  <2>1. QueueFits(<< >>, "active", "active") /\ QueueOrder(<< >>)
    BY NothingHeld DEF QueueFits, QueueOrder
  <2>2. "active" \in PeerStates("active")
    BY DEF PeerStates
  <2> QED BY <2>1, <2>2, Peers DEF Init, Handshake, Joint
<1>4. Ends
  BY DEF Init, Ends, End, Peer, NoPipe
<1>5. Published
  BY <1>1 DEF Init, Published
<1>6. Ownership
  <2>1. \A x : ~Carries(<< >>, x)
    BY DEF Carries
  <2>2. \A e \in End : outpipe[e] = Peer(e) /\ inpipe[Peer(e)] = Peer(e)
                       /\ state[Peer(e)] # "gone" /\ cmds[e] = << >> /\ Peer(e) # NoPipe
    BY Peers DEF Init, End, Peer, NoPipe
  <2>3. \A e \in End : Chain(cmds[e], outpipe[e], inpipe[Peer(e)])
    BY <2>1, <2>2 DEF Chain
  <2>4. \A e \in End, x \in PipeId : InUse(e, x) <=> x = Peer(e)
    BY <2>1, <2>2 DEF InUse
  <2>5. \A x \in PipeId : (InUse(0, x) <=> x = 1) /\ (InUse(1, x) <=> x = 0)
    BY <2>4 DEF End, Peer
  <2>6. \A x \in PipeId : x < 2 <=> x = 0 \/ x = 1
    BY DEF PipeId
  <2>7. allocated = 2 /\ freed = {} /\ 2 \in 2 .. MaxHiccups + 2
    BY PipeAssumption DEF Init
  <2> QED BY <2>3, <2>5, <2>6, <2>7 DEF Ownership
<1> QED BY <1>2, <1>3, <1>4, <1>5, <1>6 DEF IInv

(* Every step keeps the invariant. *)
LEMMA IInvStep == IInv /\ [Next]_vars => IInv'
<1>1. ASSUME IInv, UNCHANGED vars PROVE IInv'
  BY <1>1, Zenon DEF IInv, vars, endvars, pipevars, TypeOK, Handshake, Ends, Ownership,
              InUse, Published, CompleteFinds
<1>2. ASSUME IInv, Next PROVE IInv'
  <2>1. PICK e \in End :
          \/ ReadAny(e) \/ CheckWriteFull(e) \/ \E more \in BOOLEAN : Write(e, more)
          \/ Rollback(e) \/ Flush(e)
          \/ \E delay_ \in BOOLEAN : Terminate(e, delay_)
          \/ TerminateDelimiter(e) \/ Hiccup(e) \/ Process(e)
    BY <1>2 DEF Next
  <2>2. TypeOK'
    BY <1>2, <2>1, TypeRead, TypeWrite, TypeEnd, TypeProcess
  <2>3. Handshake'
    BY <1>2, <2>1, HandshakeRead, HandshakeWrite, HandshakeEnd, HandshakeProcess
  <2>4. Ends'
    BY <1>2, EndsStep
  <2>5. Published'
    BY <1>2, <2>2, PublishedStep
  <2>6. Ownership'
    BY <1>2, <2>1, <2>3, <2>4, OwnershipCalls, OwnershipHiccup, OwnershipProcess, Zenon
  <2>7. CompleteFinds'
    BY <1>2 DEF IInv, CompleteFinds
  <2> QED BY <2>2, <2>3, <2>4, <2>5, <2>6, <2>7 DEF IInv
<1> QED BY <1>1, <1>2, ZenonT(40)

(* The invariant implies that the ends part cleanly. *)
LEMMA CleanFromIInv == IInv => CleanEnd
<1> SUFFICES ASSUME IInv PROVE CleanEnd
  BY Zenon
<1>1. NoDanglingCommand
  BY Zenon DEF IInv, Handshake, Joint, QueueFits, NoDanglingCommand
<1>2. \A e \in End : state[e] # "gone" => inpipe[e] \notin freed /\ outpipe[e] \notin freed
  <2> SUFFICES ASSUME NEW e \in End, state[e] # "gone"
               PROVE  inpipe[e] \notin freed /\ outpipe[e] \notin freed
    BY Zenon
  <2>1. inpipe[e] \in PipeId /\ InUse(Peer(e), inpipe[e])
    BY Peers, Zenon DEF IInv, TypeOK, InUse
  <2>2. outpipe[e] \in PipeId => InUse(e, outpipe[e])
    BY DEF InUse, PipeId, NoPipe
  <2>3. freed \subseteq PipeId /\ Peer(e) \in {0, 1} /\ e \in {0, 1}
    BY DEF IInv, TypeOK, Peer, End
  <2> QED BY <2>1, <2>2, <2>3 DEF IInv, Ownership
<1>3. (\A e \in End : state[e] = "gone") => freed = 0 .. allocated - 1
  <2> SUFFICES ASSUME \A e \in End : state[e] = "gone"
               PROVE  freed = 0 .. allocated - 1
    OBVIOUS
  <2>1. \A e \in End : outpipe[e] = NoPipe /\ cmds[e] = << >>
    BY <1>1 DEF IInv, Ends, NoDanglingCommand
  <2>2. \A e \in End, x \in PipeId : ~InUse(e, x)
    BY <2>1, Peers DEF InUse, Carries
  <2>3. \A x \in PipeId : x \in freed <=> x < allocated
    BY <2>2 DEF IInv, Ownership, End
  <2>4. freed \subseteq PipeId /\ allocated \in 2 .. MaxHiccups + 2
    BY DEF IInv, TypeOK, Ownership
  <2>5. \A x : x \in 0 .. allocated - 1 <=> x \in PipeId /\ x < allocated
    BY <2>4, PipeAssumption DEF PipeId
  <2> QED BY ONLY <2>3, <2>4, <2>5, Zenon
<1>4. HandlersAssert
  <2> SUFFICES ASSUME NEW e \in End, cmds[e] # << >>
               PROVE  LET type == Head(cmds[e]).type IN
                 /\ type = "pipe_term" => state[e] \in {"active", "delimited", "terminated"}
                 /\ type = "pipe_term_ack" =>
                      state[e] \in {"terminating", "double_terminated", "terminated"}
                 /\ type = "hiccup" => outpipe[e] # NoPipe
    BY DEF HandlersAssert
  <2>1. Holds(cmds[e], Head(cmds[e]).type)
    BY HoldsTail, Zenon DEF IInv, TypeOK
  <2>2. /\ QueueFits(cmds[e], state[e], state[Peer(e)])
        /\ state[Peer(e)] \in PeerStates(state[e])
        /\ state[e] \in State
    BY Zenon DEF IInv, Handshake, Joint, TypeOK
  <2>3. outpipe[e] = NoPipe => state[e] \in {"terminating", "double_terminated", "gone"}
    BY DEF IInv, Ends
  <2> QED BY <2>1, <2>2, <2>3 DEF QueueFits, PeerStates, State
<1> QED BY <1>1, <1>2, <1>3, <1>4 DEF CleanEnd, PipesFreedOnce, IInv
=============================================================================
