------------------------------ MODULE PipeFacts ------------------------------
(***************************************************************************)
(* What the proofs about pipe_t are built from: the invariant of the       *)
(* termination handshake, and facts about queues of commands and about the *)
(* messages in a ypipe.                                                    *)
(***************************************************************************)
EXTENDS Pipe, TLAPS

(* The invariant of the handshake *)

(* The states an end can be in while its peer is in state s. *)
PeerStates(s) ==
  CASE s \in {"active", "delimited"} -> {"active", "delimited", "terminated"}
    [] s = "pending"                 -> {"terminated"}
    [] s = "terminating"             -> {"terminated", "gone"}
    [] s = "terminated"              -> State \ {"gone"}
    [] s = "double_terminated"       -> {"terminated", "double_terminated", "gone"}
    [] s = "gone"                    -> {"terminating", "double_terminated", "gone"}

Holds(q, type) == \E i \in DOMAIN q : q[i].type = type

(* What is on its way to an end in state s from a peer in state t. *)
QueueFits(q, s, t) ==
  /\ Holds(q, "pipe_term") <=>
       /\ t \in {"terminated", "double_terminated"}
       /\ s \in {"active", "delimited", "terminated"}
  /\ Holds(q, "pipe_term_ack") <=>
       t \in {"terminating", "double_terminated", "gone"} /\ s # "gone"
  /\ Holds(q, "hiccup") => s \in {"active", "delimited", "terminated"}
  /\ s = "gone" => q = << >>

(* In what order. *)
QueueOrder(q) ==
  /\ \A i, j \in DOMAIN q : q[i].type = "pipe_term" /\ q[j].type = "pipe_term" => i = j
  /\ \A i \in DOMAIN q : q[i].type = "pipe_term_ack" => i = Len(q)
  /\ \A i, j \in DOMAIN q : q[i].type = "pipe_term" /\ q[j].type = "hiccup" => j < i

(* An end in state s with the commands q on their way to it, and its peer. *)
Joint(s, q, t, r) ==
  /\ t \in PeerStates(s) /\ s \in PeerStates(t)
  /\ QueueFits(q, s, t) /\ QueueOrder(q)
  /\ QueueFits(r, t, s) /\ QueueOrder(r)

Handshake ==
  \A e \in End : Joint(state[e], cmds[e], state[Peer(e)], cmds[Peer(e)])

(* The state of an end, its outpipe and the call it is in. *)
Ends ==
  \A e \in End :
    /\ outpipe[e] = NoPipe <=> state[e] \in {"terminating", "double_terminated", "gone"}
    /\ pc[e] = "delimiter" => state[e] \in {"terminated", "pending"}

Carries(q, x) == \E i \in DOMAIN q : q[i].type = "hiccup" /\ q[i].pipe = x

(* The ypipes from the writer's to the reader's, in the order they were    *)
(* created.                                                                *)
Chain(q, out, in) ==
  out # NoPipe =>
    /\ \A x \in PipeId : Carries(q, x) => out < x /\ x <= in
    /\ \A i, j \in DOMAIN q : /\ q[i].type = "hiccup" /\ q[j].type = "hiccup"
                              /\ i < j
                              => q[i].pipe < q[j].pipe
    /\ in = out \/ Carries(q, in)

(* The ypipe x is in use in the direction from e to its peer. *)
InUse(e, x) ==
  \/ x = outpipe[e] /\ outpipe[e] # NoPipe
  \/ Carries(cmds[e], x)
  \/ x = inpipe[Peer(e)] /\ state[Peer(e)] # "gone"

Ownership ==
  /\ allocated \in 2 .. MaxHiccups + 2
  /\ \A e \in End : Chain(cmds[e], outpipe[e], inpipe[Peer(e)])
  /\ \A x \in PipeId : ~(InUse(0, x) /\ InUse(1, x))
  /\ \A x \in PipeId : x \in freed => ~InUse(0, x) /\ ~InUse(1, x)
  /\ \A x \in PipeId : x < allocated <=> x \in freed \/ InUse(0, x) \/ InUse(1, x)

(* What is published ends with a whole message. *)
Published ==
  \A x \in PipeId : /\ published[x] <= Len(items[x])
                    /\ published[x] > 0 => ~items[x][published[x]].more

(* Complete is the position of the last end of a message.  This is a fact  *)
(* about sequences, for which the steps do not matter; PipeTheorems shows  *)
(* it.                                                                     *)
CompleteFinds ==
  \A s \in Seq(Item) :
    /\ Complete(s) \in 0 .. Len(s)
    /\ Complete(s) > 0 => ~s[Complete(s)].more
    /\ \A i \in 1 .. Len(s) : ~s[i].more => i <= Complete(s)

IInv == TypeOK /\ Handshake /\ Ends /\ Ownership /\ Published /\ CompleteFinds
-----------------------------------------------------------------------------
(* Facts about sequences *)

LEMMA EmptyIs ==
  ASSUME NEW S
  PROVE  /\ << >> \in Seq(S) /\ Len(<< >>) = 0
         /\ \A s \in Seq(S) : s # << >> => Len(s) \in Nat \ {0}
OBVIOUS

(* A sequence without its first item. *)
LEMMA TailIs ==
  ASSUME NEW S, NEW s \in Seq(S), s # << >>
  PROVE  /\ Head(s) \in S /\ Tail(s) \in Seq(S) /\ Len(Tail(s)) = Len(s) - 1
         /\ \A i \in 1 .. Len(Tail(s)) : Tail(s)[i] = s[i + 1]
OBVIOUS

(* A sequence with one more item. *)
LEMMA AppendIs ==
  ASSUME NEW S, NEW s \in Seq(S), NEW x \in S
  PROVE  /\ Append(s, x) \in Seq(S) /\ Append(s, x) # << >>
         /\ Len(Append(s, x)) = Len(s) + 1 /\ Append(s, x)[Len(s) + 1] = x
         /\ \A i \in 1 .. Len(s) : Append(s, x)[i] = s[i]
OBVIOUS

(* The first n items of a sequence. *)
LEMMA PrefixIs ==
  ASSUME NEW S, NEW s \in Seq(S), NEW n \in 0 .. Len(s)
  PROVE  /\ SubSeq(s, 1, n) \in Seq(S) /\ Len(SubSeq(s, 1, n)) = n
         /\ \A i \in 1 .. n : SubSeq(s, 1, n)[i] = s[i]
OBVIOUS

(* The items from position n on. *)
LEMMA SuffixIs ==
  ASSUME NEW S, NEW s \in Seq(S), NEW n \in Int, n > 0
  PROVE  SubSeq(s, n, Len(s)) \in Seq(S)
OBVIOUS

(* Complete finds the end of the last whole message. *)
LEMMA CompleteIs ==
  ASSUME IInv, NEW s \in Seq(Item)
  PROVE  /\ Complete(s) \in 0 .. Len(s)
         /\ Complete(s) > 0 => ~s[Complete(s)].more
         /\ \A i \in 1 .. Len(s) : ~s[i].more => i <= Complete(s)
BY DEF IInv, CompleteFinds

(* What a queue of commands holds after a send and after a receive. *)
LEMMA HoldsAppend ==
  ASSUME NEW q \in Seq(Command), NEW c \in Command, NEW type
  PROVE  Holds(Append(q, c), type) <=> Holds(q, type) \/ c.type = type
<1> DEFINE r == Append(q, c)
<1>1. /\ Len(q) \in Nat /\ DOMAIN q = 1 .. Len(q) /\ DOMAIN r = 1 .. Len(q) + 1
      /\ \A i \in 1 .. Len(q) : r[i] = q[i]
      /\ r[Len(q) + 1] = c
  BY AppendIs
<1> HIDE DEF r
<1>2. Holds(r, type) => Holds(q, type) \/ c.type = type
  BY <1>1 DEF Holds
<1>3. Holds(q, type) => Holds(r, type)
  BY <1>1 DEF Holds
<1>4. c.type = type => Holds(r, type)
  BY <1>1 DEF Holds
<1> QED BY <1>2, <1>3, <1>4 DEF r

(* What is held before a receive is the first command or is held after it. *)
LEMMA HoldsTail ==
  ASSUME NEW q \in Seq(Command), q # << >>, NEW type
  PROVE  Holds(q, type) <=> Head(q).type = type \/ Holds(Tail(q), type)
<1> DEFINE r == Tail(q)
<1>1. /\ Len(q) \in Nat \ {0} /\ DOMAIN q = 1 .. Len(q) /\ DOMAIN r = 1 .. Len(q) - 1
      /\ \A i \in 1 .. Len(q) - 1 : r[i] = q[i + 1]
      /\ Head(q) = q[1]
  OBVIOUS
<1> HIDE DEF r
<1>2. ASSUME Holds(q, type) PROVE Head(q).type = type \/ Holds(r, type)
  <2>1. PICK i \in 1 .. Len(q) : q[i].type = type
    BY <1>1, <1>2 DEF Holds
  <2>2. CASE i = 1
    BY <1>1, <2>1, <2>2
  <2>3. CASE i # 1
    <3>1. i - 1 \in DOMAIN r /\ r[i - 1] = q[i]
      BY <1>1, <2>3
    <3> QED BY <2>1, <3>1 DEF Holds
  <2> QED BY <2>2, <2>3
<1>3. Holds(r, type) => Holds(q, type)
  BY <1>1 DEF Holds
<1>4. Head(q).type = type => Holds(q, type)
  BY <1>1 DEF Holds
<1> QED BY <1>2, <1>3, <1>4 DEF r

-----------------------------------------------------------------------------
(* Commands and mailboxes *)

LEMMA Peers == \A e \in End : Peer(e) \in End /\ Peer(e) # e /\ Peer(Peer(e)) = e
BY DEF End, Peer

(* The two mailboxes after a send, a receive, and both. *)
LEMMA SentIs ==
  ASSUME NEW q \in [End -> Seq(Command)], NEW e \in End, NEW c \in Command
  PROVE  /\ Sent(q, e, c) \in [End -> Seq(Command)]
         /\ Sent(q, e, c)[e] = q[e]
         /\ Sent(q, e, c)[Peer(e)] = Append(q[Peer(e)], c)
BY Peers, AppendIs DEF Sent

(* process_commands takes the first command of one mailbox. *)
LEMMA ReceivedIs ==
  ASSUME TypeOK, NEW e \in End, cmds[e] # << >>
  PROVE  /\ Received(e) \in [End -> Seq(Command)]
         /\ Received(e)[e] = Tail(cmds[e])
         /\ Received(e)[Peer(e)] = cmds[Peer(e)]
<1>1. Tail(cmds[e]) \in Seq(Command)
  BY TailIs DEF TypeOK
<1> QED BY <1>1, Peers DEF Received, TypeOK

(* The commands without arguments. *)
LEMMA Commands ==
  /\ ActivateRead \in Command /\ ActivateRead.type = "activate_read"
  /\ PipeTerm \in Command /\ PipeTerm.type = "pipe_term"
  /\ PipeTermAck \in Command /\ PipeTermAck.type = "pipe_term_ack"
BY DEF ActivateRead, PipeTerm, PipeTermAck, Command

(* send_activate_write carries the count of messages read. *)
LEMMA WriteCommand ==
  ASSUME NEW n \in Nat
  PROVE  LET c == [type |-> "activate_write", msgs_read |-> n]
         IN  c \in Command /\ c.type = "activate_write" /\ c.msgs_read = n
BY DEF Command

(* send_hiccup carries the new ypipe. *)
LEMMA HiccupCommand ==
  ASSUME NEW x \in PipeId
  PROVE  LET c == [type |-> "hiccup", pipe |-> x]
         IN  c \in Command /\ c.type = "hiccup" /\ c.pipe = x
BY DEF Command

(* The mailboxes after one of the commands without arguments was sent. *)
LEMMA SendIs ==
  ASSUME NEW q \in [End -> Seq(Command)], NEW e \in End,
         NEW c \in {ActivateRead, PipeTerm, PipeTermAck}
  PROVE  /\ Sent(q, e, c) \in [End -> Seq(Command)]
         /\ Sent(q, e, c)[e] = q[e]
         /\ Sent(q, e, c)[Peer(e)] = Append(q[Peer(e)], c)
<1>1. c \in Command
  BY Commands
<1> QED BY ONLY <1>1, SentIs, q \in [End -> Seq(Command)], e \in End

(* The fields of a command that has them. *)
LEMMA CommandFields ==
  ASSUME NEW c \in Command
  PROVE  /\ c.type = "activate_write" => c.msgs_read \in Nat
         /\ c.type = "hiccup" => c.pipe \in PipeId
BY DEF Command

(* What is carried after a send and after a receive. *)
LEMMA CarriesAppend ==
  ASSUME NEW q \in Seq(Command), NEW c \in Command, NEW x
  PROVE  Carries(Append(q, c), x) <=> Carries(q, x) \/ (c.type = "hiccup" /\ c.pipe = x)
<1> DEFINE r == Append(q, c)
<1>1. /\ Len(q) \in Nat /\ DOMAIN q = 1 .. Len(q) /\ DOMAIN r = 1 .. Len(q) + 1
      /\ \A i \in 1 .. Len(q) : r[i] = q[i]
      /\ r[Len(q) + 1] = c
  BY AppendIs
<1> HIDE DEF r
<1>2. Carries(r, x) => Carries(q, x) \/ (c.type = "hiccup" /\ c.pipe = x)
  BY <1>1 DEF Carries
<1>3. Carries(q, x) => Carries(r, x)
  BY <1>1 DEF Carries
<1>4. c.type = "hiccup" /\ c.pipe = x => Carries(r, x)
  BY <1>1 DEF Carries
<1> QED BY <1>2, <1>3, <1>4 DEF r

(* A ypipe on its way is in the first command or behind it. *)
LEMMA CarriesTail ==
  ASSUME NEW q \in Seq(Command), q # << >>, NEW x
  PROVE  Carries(q, x) <=> \/ Head(q).type = "hiccup" /\ Head(q).pipe = x
                           \/ Carries(Tail(q), x)
<1> DEFINE r == Tail(q)
<1>1. /\ Len(q) \in Nat \ {0} /\ DOMAIN q = 1 .. Len(q) /\ DOMAIN r = 1 .. Len(q) - 1
      /\ \A i \in 1 .. Len(q) - 1 : r[i] = q[i + 1]
      /\ Head(q) = q[1]
  OBVIOUS
<1> HIDE DEF r
<1>2. ASSUME Carries(q, x)
      PROVE  (Head(q).type = "hiccup" /\ Head(q).pipe = x) \/ Carries(r, x)
  <2>1. PICK i \in 1 .. Len(q) : q[i].type = "hiccup" /\ q[i].pipe = x
    BY <1>1, <1>2 DEF Carries
  <2>2. CASE i = 1
    BY <1>1, <2>1, <2>2
  <2>3. CASE i # 1
    <3>1. i - 1 \in DOMAIN r /\ r[i - 1] = q[i]
      BY <1>1, <2>3
    <3> QED BY <2>1, <3>1 DEF Carries
  <2> QED BY <2>2, <2>3
<1>3. Carries(r, x) => Carries(q, x)
  BY <1>1 DEF Carries
<1>4. Head(q).type = "hiccup" /\ Head(q).pipe = x => Carries(q, x)
  BY <1>1 DEF Carries
<1> QED BY <1>2, <1>3, <1>4 DEF r

(* A ypipe is on its way in a hiccup only. *)
LEMMA CarriesHolds ==
  ASSUME NEW q, NEW x, Carries(q, x)
  PROVE  Holds(q, "hiccup")
BY DEF Carries, Holds

-----------------------------------------------------------------------------
(* What is written *)

(* What terminate leaves in the ypipe: whole messages and the delimiter. *)
LEMMA DelimitedIs ==
  ASSUME IInv, NEW s \in Seq(Item)
  PROVE  LET c == Complete(s)
             t == Append(SubSeq(s, 1, c), Delimiter)
         IN  /\ SubSeq(s, 1, c) \in Seq(Item) /\ Len(SubSeq(s, 1, c)) = c
             /\ \A i \in 1 .. c : SubSeq(s, 1, c)[i] = s[i]
             /\ t \in Seq(Item) /\ Len(t) = c + 1 /\ t[c + 1] = Delimiter
             /\ \A i \in 1 .. c : t[i] = s[i]
             /\ Complete(t) = c + 1
<1> DEFINE c == Complete(s)
           u == SubSeq(s, 1, c)
           t == Append(u, Delimiter)
<1>1. c \in 0 .. Len(s)
  BY CompleteIs
<1> HIDE DEF c
<1>2. u \in Seq(Item) /\ Len(u) = c /\ \A i \in 1 .. c : u[i] = s[i]
  BY <1>1, PrefixIs
<1>3. Delimiter \in Item /\ ~Delimiter.more
  BY DEF Item, Delimiter
<1> HIDE DEF u
<1>4. /\ t \in Seq(Item) /\ Len(t) = c + 1 /\ t[c + 1] = Delimiter
      /\ \A i \in 1 .. c : t[i] = u[i]
  BY <1>2, <1>3, AppendIs
<1> HIDE DEF t
<1>5. Complete(t) = c + 1
  BY <1>1, <1>3, <1>4, CompleteIs
<1> QED BY <1>2, <1>4, <1>5 DEF c, u, t
-----------------------------------------------------------------------------
(* Items and reports *)

(* How far the counter of messages is once the item i is written or read. *)
After(i) == i.n + (IF i.more THEN 0 ELSE 1)

(* The items s of a ypipe, between the reader's counter a and the writer's *)
(* counter b.                                                              *)
Numbered(s, a, b) ==
  /\ a <= b
  /\ \A i \in 1 .. Len(s) : s[i] # Delimiter => a <= s[i].n /\ After(s[i]) <= b
  /\ \A i, j \in 1 .. Len(s) : i < j /\ s[i] # Delimiter /\ s[j] # Delimiter
                               => After(s[i]) <= s[j].n

(* The number of the message an item belongs to; the delimiter comes when  *)
(* all b messages are written.                                             *)
Number(i, b) == IF i = Delimiter THEN b ELSE i.n

(* No message is missing, a message has at most two parts, and the         *)
(* delimiter is last.                                                      *)
Consecutive(s, a, b) ==
  /\ IF s = << >> THEN a = b ELSE Number(s[1], b) = a
  /\ \A i \in 1 .. Len(s) :
       /\ i < Len(s) => s[i] # Delimiter /\ Number(s[i + 1], b) = After(s[i])
       /\ i = Len(s) => s[i] = Delimiter \/ After(s[i]) = b
       /\ i < Len(s) /\ s[i].more => ~s[i + 1].more

HasDelimiter(s) == \E i \in 1 .. Len(s) : s[i] = Delimiter

IsReport(c) == c.type = "activate_write"

(* The reports on their way to an end that knows k of n messages read. *)
Reported(q, k, n) ==
  /\ k <= n
  /\ \A i \in 1 .. Len(q) : IsReport(q[i]) => k <= q[i].msgs_read /\ q[i].msgs_read <= n
  /\ \A i, j \in 1 .. Len(q) : IsReport(q[i]) /\ IsReport(q[j]) /\ i < j
                               => q[i].msgs_read <= q[j].msgs_read

(* The last report, l at most messages behind. *)
LastReport(q, k, n, l) ==
  \E r \in 0 .. n :
    /\ r % l = 0 /\ n < r + l
    /\ k = r \/ \E i \in 1 .. Len(q) : IsReport(q[i]) /\ q[i].msgs_read = r
    /\ k <= r /\ \A i \in 1 .. Len(q) : IsReport(q[i]) => q[i].msgs_read <= r

-----------------------------------------------------------------------------
(* Facts about the numbers of messages *)

LEMMA ItemFacts ==
  ASSUME NEW i \in Item, i # Delimiter
  PROVE  /\ i.n \in Nat /\ i.more \in BOOLEAN /\ After(i) \in Nat
         /\ i.more => After(i) = i.n
         /\ ~i.more => After(i) = i.n + 1
         /\ i.n <= After(i)
<1>1. i.n \in Nat /\ i.more \in BOOLEAN
  BY DEF Item
<1> QED BY <1>1 DEF After

(* A part of message n, and the number of the message after it. *)
LEMMA PartFacts ==
  ASSUME NEW n \in Nat, NEW more \in BOOLEAN
  PROVE  LET i == [n |-> n, more |-> more]
         IN  /\ i \in Item /\ i # Delimiter /\ i.n = n /\ i.more = more
             /\ After(i) = n + (IF more THEN 0 ELSE 1)
BY DEF Item, Delimiter, After

(* read leaves a ypipe numbered, from the next message on. *)
LEMMA NumberedTail ==
  ASSUME NEW s \in Seq(Item), s # << >>, NEW a \in Nat, NEW b \in Nat, Numbered(s, a, b)
  PROVE  /\ Numbered(Tail(s), a, b)
         /\ s[1] # Delimiter =>
              Numbered(Tail(s), a + (IF s[1].more THEN 0 ELSE 1), b)
<1> DEFINE t == Tail(s)
<1>1. /\ Len(s) \in Nat \ {0} /\ Len(t) = Len(s) - 1 /\ t \in Seq(Item)
      /\ \A i \in 1 .. Len(t) : t[i] = s[i + 1] /\ i + 1 \in 1 .. Len(s) /\ 1 < i + 1
      /\ \A i \in 1 .. Len(s) : s[i] \in Item
      /\ 1 \in 1 .. Len(s)
  OBVIOUS
<1> HIDE DEF t
<1>2. \A i, j \in 1 .. Len(t) : i < j => i + 1 < j + 1
  BY <1>1
<1>3. \A i, j \in 1 .. Len(t) : i < j /\ t[i] # Delimiter /\ t[j] # Delimiter
                                => After(t[i]) <= t[j].n
  BY <1>1, <1>2, Zenon DEF Numbered
<1>4. Numbered(t, a, b)
  BY <1>1, <1>3, Zenon DEF Numbered
<1>5. ASSUME s[1] # Delimiter
      PROVE  Numbered(t, a + (IF s[1].more THEN 0 ELSE 1), b)
  <2> DEFINE c == a + (IF s[1].more THEN 0 ELSE 1)
  <2>1. a <= s[1].n /\ After(s[1]) <= b
    BY <1>1, <1>5 DEF Numbered
  <2>2. c \in Nat /\ c <= After(s[1]) /\ After(s[1]) \in Nat
    <3>1. s[1].more => c = a
      OBVIOUS
    <3>2. ~s[1].more => c = a + 1
      OBVIOUS
    <3> HIDE DEF c
    <3> QED BY <1>1, <1>5, <2>1, <3>1, <3>2, ItemFacts
  <2> HIDE DEF c
  <2>3. c <= b
    BY <2>1, <2>2
  <2>4. ASSUME NEW i \in 1 .. Len(t), t[i] # Delimiter
        PROVE  c <= t[i].n /\ After(t[i]) <= b
    <3>1. After(s[1]) <= t[i].n
      BY <1>1, <1>5, <2>4 DEF Numbered
    <3>2. t[i].n \in Nat
      BY <1>1, <2>4, ItemFacts
    <3>3. After(t[i]) <= b
      BY <1>4, <2>4, Zenon DEF Numbered
    <3> QED BY <2>2, <3>1, <3>2, <3>3
  <2> QED BY <1>3, <2>3, <2>4 DEF Numbered, c
<1> QED BY <1>4, <1>5 DEF t

(* write leaves a ypipe numbered, up to the next message. *)
LEMMA NumberedAppend ==
  ASSUME NEW s \in Seq(Item), NEW a \in Nat, NEW b \in Nat, Numbered(s, a, b),
         NEW i \in Item, i # Delimiter, i.n = b
  PROVE  Numbered(Append(s, i), a, After(i))
<1> DEFINE t == Append(s, i)
<1>1. /\ Len(s) \in Nat /\ Len(t) = Len(s) + 1
      /\ \A j \in 1 .. Len(s) : t[j] = s[j] /\ s[j] \in Item
      /\ t[Len(s) + 1] = i
  BY AppendIs
<1>2. b <= After(i) /\ After(i) \in Nat
  BY ItemFacts
<1> HIDE DEF t
<1>3. \A j \in 1 .. Len(s) : s[j] # Delimiter => s[j].n \in Nat /\ After(s[j]) \in Nat
  BY <1>1, ItemFacts, Zenon
<1>4. a <= After(i)
  BY <1>2 DEF Numbered
<1>5. ASSUME NEW j \in 1 .. Len(t), t[j] # Delimiter
      PROVE  a <= t[j].n /\ After(t[j]) <= After(i)
  BY <1>1, <1>2, <1>3, <1>5 DEF Numbered
<1>6. ASSUME NEW j \in 1 .. Len(t), NEW k \in 1 .. Len(t), j < k,
             t[j] # Delimiter, t[k] # Delimiter
      PROVE  After(t[j]) <= t[k].n
  <2>1. j \in 1 .. Len(s) /\ (k \in 1 .. Len(s) \/ k = Len(s) + 1)
    BY <1>1, <1>6
  <2>2. CASE k = Len(s) + 1
    BY <1>1, <1>6, <2>1, <2>2, Zenon DEF Numbered
  <2> QED BY <1>1, <1>6, <2>1, <2>2 DEF Numbered
<1> QED BY <1>4, <1>5, <1>6 DEF Numbered, t

(* rollback and the delimiter leave a ypipe numbered. *)
LEMMA NumberedPrefix ==
  ASSUME NEW s, NEW a, NEW b, Numbered(s, a, b),
         NEW t, Len(t) \in Nat, Len(s) \in Nat,
         \A i \in 1 .. Len(t) : t[i] = Delimiter \/ (i <= Len(s) /\ t[i] = s[i])
  PROVE  Numbered(t, a, b)
<1>1. \A i \in 1 .. Len(t) : t[i] # Delimiter => i \in 1 .. Len(s) /\ t[i] = s[i]
  OBVIOUS
<1> QED BY <1>1 DEF Numbered

(* read finds the next message, or the delimiter after the last one. *)
LEMMA ConsecutiveTail ==
  ASSUME NEW s \in Seq(Item), s # << >>, NEW a \in Nat, NEW b \in Nat, Consecutive(s, a, b)
  PROVE  /\ s[1] = Delimiter => a = b /\ Tail(s) = << >> /\ Consecutive(Tail(s), a, b)
         /\ s[1] # Delimiter =>
              /\ s[1].n = a
              /\ Consecutive(Tail(s), a + (IF s[1].more THEN 0 ELSE 1), b)
<1> DEFINE t == Tail(s)
<1>1. /\ Len(s) \in Nat \ {0} /\ Len(t) = Len(s) - 1 /\ t \in Seq(Item)
      /\ \A i \in 1 .. Len(t) : t[i] = s[i + 1] /\ i + 1 \in 1 .. Len(s)
      /\ 1 \in 1 .. Len(s) /\ s[1] \in Item
  OBVIOUS
<1>2. (Len(t) = 0 => t = << >>) /\ (Len(t) # 0 => t # << >>)
  BY <1>1, EmptyIs, Zenon
<1> HIDE DEF t
<1>3. Number(s[1], b) = a
  BY DEF Consecutive
<1>4. CASE s[1] = Delimiter
  <2>1. a = b
    BY <1>3, <1>4 DEF Number
  <2>2. Len(s) = 1
    BY <1>1, <1>4 DEF Consecutive
  <2>3. t = << >> /\ Len(t) = 0
    BY <1>1, <1>2, <2>2
  <2>4. Consecutive(t, a, b)
    BY <2>1, <2>3 DEF Consecutive
  <2> QED BY <1>4, <2>1, <2>3, <2>4 DEF t
<1>5. CASE s[1] # Delimiter
  <2> DEFINE c == a + (IF s[1].more THEN 0 ELSE 1)
  <2>1. s[1].n = a
    BY <1>3, <1>5 DEF Number
  <2>2. After(s[1]) = c
    BY <2>1 DEF After
  <2> HIDE DEF c
  <2>3. t = << >> => c = b
    <3> SUFFICES ASSUME t = << >> PROVE c = b
      OBVIOUS
    <3>1. Len(s) = 1
      BY <1>1, <1>2
    <3> QED BY <1>1, <1>5, <2>2, <3>1 DEF Consecutive
  <2>4. t # << >> => Number(t[1], b) = c
    <3> SUFFICES ASSUME t # << >> PROVE Number(t[1], b) = c
      OBVIOUS
    <3>1. 1 < Len(s) /\ 1 \in 1 .. Len(t) /\ 1 + 1 = 2
      BY <1>1, <1>2
    <3>2. t[1] = s[2] /\ Number(s[2], b) = After(s[1])
      BY <1>1, <3>1 DEF Consecutive
    <3> QED BY <2>2, <3>2
  <2>5. ASSUME NEW i \in 1 .. Len(t)
        PROVE  /\ i < Len(t) => t[i] # Delimiter /\ Number(t[i + 1], b) = After(t[i])
               /\ i = Len(t) => t[i] = Delimiter \/ After(t[i]) = b
               /\ i < Len(t) /\ t[i].more => ~t[i + 1].more
    <3>1. /\ i + 1 \in 1 .. Len(s) /\ t[i] = s[i + 1]
          /\ i < Len(t) <=> i + 1 < Len(s)
          /\ i = Len(t) <=> i + 1 = Len(s)
      BY <1>1
    <3>2. i < Len(t) => i + 1 \in 1 .. Len(t) /\ t[i + 1] = s[(i + 1) + 1]
      BY <1>1
    <3> QED BY <3>1, <3>2 DEF Consecutive
  <2>6. Consecutive(t, c, b)
    BY <2>3, <2>4, <2>5 DEF Consecutive
  <2> QED BY <1>5, <2>1, <2>6 DEF t, c
<1> QED BY <1>4, <1>5

(* write adds the next part. *)
LEMMA ConsecutiveAppend ==
  ASSUME NEW s \in Seq(Item), NEW a \in Nat, NEW b \in Nat, Consecutive(s, a, b),
         ~HasDelimiter(s), NEW i \in Item, i # Delimiter, i.n = b,
         i.more => s = << >> \/ ~s[Len(s)].more
  PROVE  Consecutive(Append(s, i), a, After(i)) /\ ~HasDelimiter(Append(s, i))
<1> DEFINE t == Append(s, i)
           c == After(i)
<1>1. /\ Len(s) \in Nat /\ Len(t) = Len(s) + 1
      /\ \A j \in 1 .. Len(s) : t[j] = s[j]
      /\ t[Len(s) + 1] = i
  BY AppendIs
<1>2. t # << >> /\ (s = << >> <=> Len(s) = 0)
  BY <1>1, EmptyIs
<1> HIDE DEF t, c
<1>3. \A j \in 1 .. Len(t) : t[j] # Delimiter
  BY <1>1 DEF HasDelimiter
<1>4. \A j \in 1 .. Len(t) : \A x : Number(t[j], x) = t[j].n
  BY <1>3 DEF Number
<1>5. t[1].n = a
  <2>1. CASE s = << >>
    BY <1>1, <1>2, <2>1 DEF Consecutive
  <2>2. CASE s # << >>
    <3>1. 1 \in 1 .. Len(s) /\ 1 \in 1 .. Len(t) /\ t[1] = s[1] /\ Number(s[1], b) = a
      BY <1>1, <1>2, <2>2 DEF Consecutive
    <3> QED BY <1>4, <3>1
  <2> QED BY <2>1, <2>2
<1>6. ASSUME NEW j \in 1 .. Len(t)
      PROVE  /\ j < Len(t) => t[j] # Delimiter /\ Number(t[j + 1], c) = After(t[j])
             /\ j = Len(t) => t[j] = Delimiter \/ After(t[j]) = c
             /\ j < Len(t) /\ t[j].more => ~t[j + 1].more
  <2>1. CASE j = Len(t)
    BY <1>1, <2>1 DEF c
  <2>2. CASE j = Len(s)
    <3>1. j \in 1 .. Len(s) /\ t[j] = s[j] /\ j + 1 \in 1 .. Len(t) /\ t[j + 1] = i
      BY <1>1, <1>6, <2>2
    <3>2. After(s[j]) = b
      BY <1>3, <2>2, <3>1 DEF Consecutive
    <3>3. s[j].more => ~i.more
      BY <1>2, <2>2, <3>1
    <3> QED BY <1>1, <1>3, <1>4, <2>2, <3>1, <3>2, <3>3
  <2>3. CASE j < Len(s)
    <3>1. /\ j \in 1 .. Len(s) /\ t[j] = s[j] /\ j + 1 \in 1 .. Len(t)
          /\ j + 1 \in 1 .. Len(s) /\ t[j + 1] = s[j + 1] /\ j < Len(t)
      BY <1>1, <1>6, <2>3
    <3>2. Number(s[j + 1], b) = After(s[j]) /\ (s[j].more => ~s[j + 1].more)
      BY <2>3, <3>1 DEF Consecutive
    <3>3. Number(t[j + 1], c) = Number(t[j + 1], b)
      BY <1>4, <3>1, Zenon
    <3> QED BY <1>1, <1>3, <2>3, <3>1, <3>2, <3>3
  <2> QED BY <1>1, <1>6, <2>1, <2>2, <2>3
<1>7. Number(t[1], c) = a
  <2>1. 1 \in 1 .. Len(t)
    BY <1>1
  <2> QED BY <1>4, <1>5, <2>1, Zenon
<1> QED BY <1>2, <1>3, <1>6, <1>7 DEF Consecutive, HasDelimiter, t, c

(* rollback removes parts of the unfinished message only. *)
LEMMA ConsecutiveRollback ==
  ASSUME NEW s \in Seq(Item), NEW a \in Nat, NEW b \in Nat, Consecutive(s, a, b),
         NEW c \in 0 .. Len(s), c > 0 => ~s[c].more,
         \A i \in 1 .. Len(s) : ~s[i].more => i <= c,
         NEW t \in Seq(Item), Len(t) = c, \A i \in 1 .. c : t[i] = s[i]
  PROVE  Consecutive(t, a, b) /\ (HasDelimiter(t) => HasDelimiter(s))
<1>1. Len(s) \in Nat /\ c \in Nat /\ c <= Len(s) /\ \A i \in 1 .. c : i \in 1 .. Len(s)
  OBVIOUS
<1>2. HasDelimiter(t) => HasDelimiter(s)
  BY <1>1 DEF HasDelimiter
<1>3. (t = << >> <=> c = 0) /\ (s = << >> <=> Len(s) = 0)
  BY <1>1, EmptyIs
<1>4. CASE c = Len(s)
  <2>1. (s = << >> <=> t = << >>) /\ (t # << >> => t[1] = s[1])
    BY <1>1, <1>3, <1>4
  <2>2. \A i \in 1 .. Len(t) : t[i] = s[i] /\ (i < Len(t) => t[i + 1] = s[i + 1])
    BY <1>1, <1>4
  <2>3. IF t = << >> THEN a = b ELSE Number(t[1], b) = a
    BY <2>1 DEF Consecutive
  <2>4. \A i \in 1 .. Len(t) :
          /\ i < Len(t) => t[i] # Delimiter /\ Number(t[i + 1], b) = After(t[i])
          /\ i = Len(t) => t[i] = Delimiter \/ After(t[i]) = b
          /\ i < Len(t) /\ t[i].more => ~t[i + 1].more
    BY <1>4, <2>2, Zenon DEF Consecutive
  <2> QED BY <1>2, <2>3, <2>4 DEF Consecutive
<1>5. CASE c < Len(s)
  <2>1. c + 1 \in 1 .. Len(s) /\ s[c + 1].more
    BY <1>1, <1>5
  <2>2. c + 1 = Len(s)
    <3>1. c + 1 < Len(s) => ~s[(c + 1) + 1].more /\ (c + 1) + 1 \in 1 .. Len(s)
      BY <1>1, <2>1 DEF Consecutive
    <3>2. ~(c + 1 < Len(s))
      BY <1>1, <3>1
    <3> QED BY <1>1, <1>5, <3>2
  <2>3. s[c + 1] \in Item /\ s[c + 1] # Delimiter
    BY <2>1 DEF Delimiter
  <2>4. After(s[c + 1]) = b
    BY <2>1, <2>2, <2>3 DEF Consecutive
  <2>5. s[c + 1].n = b
    BY <2>1, <2>3, <2>4, ItemFacts, Zenon
  <2>6. Number(s[c + 1], b) = b
    BY <2>3, <2>5 DEF Number
  <2>7. IF t = << >> THEN a = b ELSE Number(t[1], b) = a
    <3>1. CASE c = 0
      BY <1>3, <2>1, <2>6, <3>1 DEF Consecutive
    <3>2. CASE c # 0
      BY <1>1, <1>3, <3>2 DEF Consecutive
    <3> QED BY <3>1, <3>2
  <2>8. ASSUME NEW i \in 1 .. Len(t)
        PROVE  /\ i < Len(t) => t[i] # Delimiter /\ Number(t[i + 1], b) = After(t[i])
               /\ i = Len(t) => t[i] = Delimiter \/ After(t[i]) = b
               /\ i < Len(t) /\ t[i].more => ~t[i + 1].more
    <3>1. i \in 1 .. Len(s) /\ i < Len(s) /\ t[i] = s[i]
      BY <1>1, <1>5
    <3>2. i < Len(t) => t[i + 1] = s[i + 1]
      BY <1>1
    <3>3. i = Len(t) => i = c
      OBVIOUS
    <3> QED BY <2>6, <3>1, <3>2, <3>3 DEF Consecutive
  <2> QED BY <1>2, <2>7, <2>8 DEF Consecutive
<1> QED BY <1>1, <1>4, <1>5

(* terminate adds the delimiter behind the last message. *)
LEMMA ConsecutiveDelimiter ==
  ASSUME NEW s \in Seq(Item), NEW a \in Nat, NEW b \in Nat, Consecutive(s, a, b),
         ~HasDelimiter(s),
         NEW t \in Seq(Item), Len(t) = Len(s) + 1, t[Len(s) + 1] = Delimiter,
         \A i \in 1 .. Len(s) : t[i] = s[i]
  PROVE  Consecutive(t, a, b)
<1>1. Len(s) \in Nat /\ (s = << >> <=> Len(s) = 0) /\ t # << >>
  BY EmptyIs
<1>2. Number(Delimiter, b) = b /\ ~Delimiter.more
  BY DEF Number, Delimiter
<1>3. Number(t[1], b) = a
  <2>1. CASE s = << >>
    BY <1>1, <1>2, <2>1 DEF Consecutive
  <2>2. CASE s # << >>
    BY <1>1, <2>2 DEF Consecutive
  <2> QED BY <2>1, <2>2
<1>4. ASSUME NEW i \in 1 .. Len(t)
      PROVE  /\ i < Len(t) => t[i] # Delimiter /\ Number(t[i + 1], b) = After(t[i])
             /\ i = Len(t) => t[i] = Delimiter \/ After(t[i]) = b
             /\ i < Len(t) /\ t[i].more => ~t[i + 1].more
  <2>1. CASE i = Len(s) + 1
    BY <1>1, <2>1
  <2>2. CASE i = Len(s)
    <3>1. i \in 1 .. Len(s) /\ s[i] # Delimiter /\ t[i] = s[i] /\ t[i + 1] = Delimiter
      BY <1>1, <2>2 DEF HasDelimiter
    <3>2. After(s[i]) = b
      BY <2>2, <3>1 DEF Consecutive
    <3> QED BY <1>1, <1>2, <2>2, <3>1, <3>2
  <2>3. CASE i < Len(s)
    <3>1. /\ i \in 1 .. Len(s) /\ i + 1 \in 1 .. Len(s) /\ t[i] = s[i] /\ t[i + 1] = s[i + 1]
          /\ i # Len(t)
      BY <1>1, <2>3
    <3> QED BY <2>3, <3>1 DEF Consecutive
  <2> QED BY <1>1, <2>1, <2>2, <2>3
<1> QED BY <1>1, <1>3, <1>4 DEF Consecutive

(* A ypipe without the end of a message is read to the end. *)
LEMMA NoneUnread ==
  ASSUME NEW s \in Seq(Item), NEW a \in Nat, NEW b \in Nat, Consecutive(s, a, b),
         ~HasDelimiter(s), \A i \in 1 .. Len(s) : s[i].more
  PROVE  a = b
<1>1. Len(s) \in Nat /\ (s = << >> <=> Len(s) = 0)
  BY EmptyIs
<1>2. CASE s = << >>
  BY <1>2 DEF Consecutive
<1>3. CASE s # << >>
  <2>1. 1 \in 1 .. Len(s) /\ s[1] \in Item /\ s[1] # Delimiter /\ s[1].more
    BY <1>1, <1>3 DEF HasDelimiter
  <2>2. 1 = Len(s)
    <3>1. 1 < Len(s) => ~s[1 + 1].more /\ 1 + 1 \in 1 .. Len(s)
      BY <1>1, <2>1 DEF Consecutive
    <3>2. Len(s) <= 1 /\ 1 <= Len(s)
      BY <1>1, <1>3, <3>1
    <3>3. \A l \in Nat : l <= 1 /\ 1 <= l => 1 = l
      OBVIOUS
    <3> QED BY <1>1, <3>2, <3>3, Zenon
  <2>3. After(s[1]) = b /\ Number(s[1], b) = a
    BY <1>3, <2>1, <2>2 DEF Consecutive
  <2> QED BY <2>1, <2>3, ItemFacts DEF Number
<1> QED BY <1>2, <1>3

-----------------------------------------------------------------------------
(* Facts about the reports of messages read *)

LEMMA ReportFacts ==
  ASSUME NEW q \in Seq(Command), NEW i \in 1 .. Len(q), IsReport(q[i])
  PROVE  q[i].msgs_read \in Nat
<1>1. q[i] \in Command
  OBVIOUS
<1> QED BY <1>1 DEF Command, IsReport

(* The reports on their way stay right when more is read. *)
LEMMA ReportedMore ==
  ASSUME NEW q \in Seq(Command), NEW k \in Nat, NEW n \in Nat, NEW m \in Nat,
         n <= m, Reported(q, k, n)
  PROVE  Reported(q, k, m)
<1>1. k <= m
  BY DEF Reported
<1>2. \A i \in 1 .. Len(q) : IsReport(q[i]) => q[i].msgs_read <= m
  BY ReportFacts DEF Reported
<1> QED BY <1>1, <1>2 DEF Reported

(* read sends a report of what is read. *)
LEMMA ReportedAppend ==
  ASSUME NEW q \in Seq(Command), NEW k \in Nat, NEW n \in Nat, Reported(q, k, n),
         NEW c \in Command, IsReport(c) => c.msgs_read = n
  PROVE  Reported(Append(q, c), k, n)
<1> DEFINE r == Append(q, c)
<1>1. /\ Len(q) \in Nat /\ Len(r) = Len(q) + 1 /\ r[Len(q) + 1] = c
      /\ \A i \in 1 .. Len(q) : r[i] = q[i]
  BY AppendIs
<1> HIDE DEF r
<1>2. k <= n
  BY DEF Reported
<1>3. \A i \in 1 .. Len(r) : IsReport(r[i]) => k <= r[i].msgs_read /\ r[i].msgs_read <= n
  BY <1>1, <1>2 DEF Reported
<1>4. ASSUME NEW i \in 1 .. Len(r), NEW j \in 1 .. Len(r),
             IsReport(r[i]), IsReport(r[j]), i < j
      PROVE  r[i].msgs_read <= r[j].msgs_read
  <2>1. i \in 1 .. Len(q) /\ (j \in 1 .. Len(q) \/ j = Len(q) + 1)
    BY <1>1, <1>4
  <2>2. CASE j = Len(q) + 1
    BY <1>1, <1>4, <2>1, <2>2 DEF Reported
  <2> QED BY <1>1, <1>4, <2>1, <2>2 DEF Reported
<1> QED BY <1>2, <1>3, <1>4 DEF Reported, r

(* The positions of the commands before and after a receive. *)
LEMMA TailPositions ==
  ASSUME NEW q \in Seq(Command), q # << >>
  PROVE  /\ Len(q) \in Nat \ {0} /\ Len(Tail(q)) = Len(q) - 1 /\ 1 \in 1 .. Len(q)
         /\ Head(q) = q[1] /\ q[1] \in Command
         /\ \A i \in 1 .. Len(Tail(q)) : i + 1 \in 1 .. Len(q) /\ Tail(q)[i] = q[i + 1]
         /\ \A i \in 1 .. Len(q) : i = 1 \/ (i - 1 \in 1 .. Len(Tail(q))
                                             /\ Tail(q)[i - 1] = q[i])
OBVIOUS

(* process_activate_write takes the next report. *)
LEMMA ReportedTail ==
  ASSUME NEW q \in Seq(Command), q # << >>, NEW k \in Nat, NEW n \in Nat, Reported(q, k, n)
  PROVE  /\ Reported(Tail(q), k, n)
         /\ IsReport(Head(q)) => /\ Reported(Tail(q), Head(q).msgs_read, n)
                                 /\ k <= Head(q).msgs_read /\ Head(q).msgs_read <= n
                                 /\ Head(q).msgs_read \in Nat
<1> DEFINE r == Tail(q)
<1>1. /\ Len(q) \in Nat \ {0} /\ Len(r) = Len(q) - 1 /\ 1 \in 1 .. Len(q) /\ Head(q) = q[1]
      /\ \A i \in 1 .. Len(r) : i + 1 \in 1 .. Len(q) /\ r[i] = q[i + 1] /\ 1 < i + 1
  BY TailPositions
<1> HIDE DEF r
<1>2. \A i, j \in 1 .. Len(r) : IsReport(r[i]) /\ IsReport(r[j]) /\ i < j
                                 => r[i].msgs_read <= r[j].msgs_read
  <2>1. \A i, j \in 1 .. Len(r) : i < j => i + 1 < j + 1
    BY <1>1
  <2> QED BY <1>1, <2>1 DEF Reported
<1>3. Reported(r, k, n)
  BY <1>1, <1>2, Zenon DEF Reported
<1>4. ASSUME IsReport(q[1])
      PROVE  /\ Reported(r, q[1].msgs_read, n)
             /\ k <= q[1].msgs_read /\ q[1].msgs_read <= n /\ q[1].msgs_read \in Nat
  <2>1. k <= q[1].msgs_read /\ q[1].msgs_read <= n
    BY <1>1, <1>4 DEF Reported
  <2>2. \A i \in 1 .. Len(r) : IsReport(r[i]) => q[1].msgs_read <= r[i].msgs_read
    BY <1>1, <1>4, Zenon DEF Reported
  <2>3. q[1].msgs_read \in Nat
    BY <1>1, <1>4, ReportFacts, Zenon
  <2> QED BY <1>3, <2>1, <2>2, <2>3, Zenon DEF Reported
<1> QED BY <1>1, <1>3, <1>4 DEF r

(* Other commands do not change what the last report is. *)
LEMMA LastReportAppend ==
  ASSUME NEW q \in Seq(Command), NEW k \in Nat, NEW n \in Nat, NEW l \in Nat \ {0},
         LastReport(q, k, n, l), NEW c \in Command, ~IsReport(c)
  PROVE  LastReport(Append(q, c), k, n, l)
<1> DEFINE t == Append(q, c)
<1>1. /\ Len(q) \in Nat /\ Len(t) = Len(q) + 1 /\ t[Len(q) + 1] = c
      /\ \A i \in 1 .. Len(q) : t[i] = q[i]
  BY AppendIs
<1> HIDE DEF t
<1>2. \A i \in 1 .. Len(t) : IsReport(t[i]) => i \in 1 .. Len(q) /\ t[i] = q[i]
  BY <1>1
<1>3. \A i \in 1 .. Len(q) : i \in 1 .. Len(t) /\ t[i] = q[i]
  BY <1>1
<1>4. LastReport(t, k, n, l)
  BY <1>2, <1>3, Zenon DEF LastReport
<1> QED BY <1>4 DEF t

(* A report sent at a multiple of the low-water mark is up to date. *)
LEMMA LastReportNew ==
  ASSUME NEW q \in Seq(Command), NEW k \in Nat, NEW n \in Nat, NEW l \in Nat \ {0},
         Reported(q, k, n), n % l = 0, NEW c \in Command, IsReport(c), c.msgs_read = n
  PROVE  LastReport(Append(q, c), k, n, l)
<1> DEFINE t == Append(q, c)
<1>1. /\ Len(q) \in Nat /\ Len(t) = Len(q) + 1 /\ t[Len(q) + 1] = c
      /\ \A i \in 1 .. Len(q) : t[i] = q[i]
  BY AppendIs
<1> HIDE DEF t
<1>2. \A i \in 1 .. Len(t) : IsReport(t[i]) => t[i].msgs_read <= n
  BY <1>1 DEF Reported
<1>3. Len(q) + 1 \in 1 .. Len(t) /\ IsReport(t[Len(q) + 1]) /\ t[Len(q) + 1].msgs_read = n
  BY <1>1
<1>4. n \in 0 .. n /\ n < n + l /\ k <= n
  BY DEF Reported
<1>5. LastReport(t, k, n, l)
  BY <1>2, <1>3, <1>4 DEF LastReport
<1> QED BY <1>5, Zenon DEF t

(* Multiples of l. *)
LEMMA Multiple ==
  ASSUME NEW j \in Nat, NEW l \in Nat \ {0}
  PROVE  (l * j) % l = 0
OBVIOUS

(* The next multiple of l. *)
LEMMA NextMultiple ==
  ASSUME NEW r \in Nat, NEW l \in Nat \ {0}, r % l = 0
  PROVE  (r + l) % l = 0
<1>1. PICK j \in Nat : r = l * j
  <2>1. r = l * (r \div l) /\ r \div l \in Nat
    OBVIOUS
  <2> QED BY <2>1
<1>2. PICK k \in Nat : k = j + 1
  OBVIOUS
<1>3. r + l = l * k
  BY <1>1, <1>2
<1>4. (l * k) % l = 0
  BY Multiple
<1> QED BY <1>3, <1>4

(* The last report is still recent when read does not reach the next       *)
(* multiple of the low-water mark.                                         *)
LEMMA LastReportNext ==
  ASSUME NEW q \in Seq(Command), NEW k \in Nat, NEW n \in Nat, NEW l \in Nat \ {0},
         LastReport(q, k, n, l), (n + 1) % l # 0
  PROVE  LastReport(q, k, n + 1, l)
<1>1. PICK r \in 0 .. n :
        /\ r % l = 0 /\ n < r + l
        /\ k = r \/ \E i \in 1 .. Len(q) : IsReport(q[i]) /\ q[i].msgs_read = r
        /\ k <= r /\ \A i \in 1 .. Len(q) : IsReport(q[i]) => q[i].msgs_read <= r
  BY Zenon DEF LastReport
<1>2. (r + l) % l = 0
  <2>1. r \in Nat /\ r % l = 0
    BY <1>1
  <2> QED BY ONLY <2>1, l \in Nat \ {0}, NextMultiple, Zenon
<1>3. n + 1 # r + l
  BY <1>2
<1>4. r \in 0 .. n + 1 /\ n + 1 < r + l
  BY <1>1, <1>3
<1> QED BY <1>1, <1>4, Zenon DEF LastReport

(* process_activate_write takes over what the report says. *)
LEMMA LastReportTail ==
  ASSUME NEW q \in Seq(Command), q # << >>, NEW k \in Nat, NEW n \in Nat,
         NEW l \in Nat \ {0}, LastReport(q, k, n, l), Reported(q, k, n)
  PROVE  /\ ~IsReport(Head(q)) => LastReport(Tail(q), k, n, l)
         /\ IsReport(Head(q)) => LastReport(Tail(q), Head(q).msgs_read, n, l)
<1> DEFINE t == Tail(q)
<1>1. /\ Len(q) \in Nat \ {0} /\ Len(t) = Len(q) - 1 /\ 1 \in 1 .. Len(q) /\ Head(q) = q[1]
      /\ \A i \in 1 .. Len(t) : i + 1 \in 1 .. Len(q) /\ t[i] = q[i + 1]
      /\ \A i \in 1 .. Len(q) : i = 1 \/ (i - 1 \in 1 .. Len(t) /\ t[i - 1] = q[i])
  BY TailPositions
<1> HIDE DEF t
<1>2. PICK r \in 0 .. n :
        /\ r % l = 0 /\ n < r + l
        /\ k = r \/ \E i \in 1 .. Len(q) : IsReport(q[i]) /\ q[i].msgs_read = r
        /\ k <= r /\ \A i \in 1 .. Len(q) : IsReport(q[i]) => q[i].msgs_read <= r
  BY Zenon DEF LastReport
<1>3. \A i \in 1 .. Len(t) : IsReport(t[i]) => t[i].msgs_read <= r
  BY <1>1, <1>2
<1>4. ASSUME ~IsReport(q[1]) PROVE LastReport(t, k, n, l)
  <2>1. k = r \/ \E i \in 1 .. Len(t) : IsReport(t[i]) /\ t[i].msgs_read = r
    <3> SUFFICES ASSUME NEW i \in 1 .. Len(q), IsReport(q[i]), q[i].msgs_read = r
                 PROVE  \E j \in 1 .. Len(t) : IsReport(t[j]) /\ t[j].msgs_read = r
      BY <1>2, Zenon
    <3>1. i - 1 \in 1 .. Len(t) /\ t[i - 1] = q[i]
      BY <1>1, <1>4, Zenon
    <3> QED BY <3>1, Zenon
  <2> QED BY <1>2, <1>3, <2>1, Zenon DEF LastReport
<1>5. ASSUME IsReport(q[1]) PROVE LastReport(t, q[1].msgs_read, n, l)
  <2>1. q[1].msgs_read <= r /\ k <= q[1].msgs_read /\ q[1].msgs_read \in Nat
    BY <1>1, <1>2, <1>5, ReportFacts DEF Reported
  <2>2. q[1].msgs_read = r \/ \E i \in 1 .. Len(t) : IsReport(t[i]) /\ t[i].msgs_read = r
    <3>1. CASE k = r
      BY <2>1, <3>1
    <3>2. CASE k # r
      <4>1. PICK i \in 1 .. Len(q) : IsReport(q[i]) /\ q[i].msgs_read = r
        BY <1>2, <3>2
      <4>2. i = 1 \/ (i - 1 \in 1 .. Len(t) /\ t[i - 1] = q[i])
        BY <1>1
      <4> QED BY <4>1, <4>2
    <3> QED BY <3>1, <3>2
  <2> QED BY <1>2, <1>3, <2>1, <2>2, Zenon DEF LastReport
<1> QED BY <1>1, <1>4, <1>5 DEF t

(* Without a newer report on its way an end is less than one low-water     *)
(* mark behind.                                                            *)
LEMMA NothingNew ==
  ASSUME NEW q \in Seq(Command), NEW k \in Nat, NEW n \in Nat, NEW l \in Nat \ {0},
         LastReport(q, k, n, l),
         \A i \in 1 .. Len(q) : IsReport(q[i]) => ~(q[i].msgs_read > k)
  PROVE  n < k + l
<1>1. PICK r \in 0 .. n :
        /\ n < r + l
        /\ k = r \/ \E i \in 1 .. Len(q) : IsReport(q[i]) /\ q[i].msgs_read = r
        /\ k <= r
  BY Zenon DEF LastReport
<1>2. k = r
  BY <1>1
<1> QED BY <1>1, <1>2

(* compute_lwm gives a mark that is reached before the high-water mark. *)
LEMMA LowBelowHigh ==
  ASSUME NEW h \in Nat \ {0}
  PROVE  compute_lwm(h) \in Nat \ {0} /\ compute_lwm(h) <= h
BY DEF compute_lwm, max_wm_delta
=============================================================================
