--------------------------- MODULE PipeFlowProofs ---------------------------
(***************************************************************************)
(* Proofs about the messages in a pair of pipe_t objects: flow control by  *)
(* the high-water and low-water marks, order, and delivery before          *)
(* termination.  They build on the handshake of PipeProofs.  The argument: *)
(* the numbers of the messages in a ypipe lie between the reader's and the *)
(* writer's counter, the reports on their way lie between what the writer  *)
(* knows and the reader's counter, and the last report is less than one    *)
(* low-water mark behind.                                                  *)
(***************************************************************************)
EXTENDS PipeFacts

-----------------------------------------------------------------------------
(* The invariant *)

(* The messages in the ypipe an end writes to, and the two counters. *)
Numbering ==
  \A e \in End :
    /\ msgs_read[Peer(e)] <= msgs_written[e]
    /\ outpipe[e] # NoPipe =>
         Numbered(items[outpipe[e]], msgs_read[Peer(e)], msgs_written[e])

(* Nothing is written to a ypipe before its writer has it. *)
NewPipesEmpty ==
  \A x \in PipeId : (x >= allocated \/ Carries(cmds[0], x) \/ Carries(cmds[1], x)) =>
                      items[x] = << >> /\ published[x] = 0

(* What an end knows its peer to have read, and is about to learn. *)
Reports == \A e \in End : Reported(cmds[e], peers_msgs_read[e], msgs_read[Peer(e)])

(* The writer's knowledge is less than one low-water mark behind. *)
LowWater ==
  \A e \in End : Hwm[e] > 0 =>
    LastReport(cmds[e], peers_msgs_read[e], msgs_read[Peer(e)], lwm(Peer(e)))

(* Only a full pipe stops a writer. *)
HighWater ==
  \A e \in End :
    /\ Hwm[e] > 0 => msgs_written[e] - peers_msgs_read[e] <= Hwm[e]
    /\ state[e] = "active" /\ ~out_active[e] => Full(e)

(* A reader sleeps over an empty ypipe only, or will be activated. *)
Wakeups ==
  /\ \A x \in PipeId : sleeping[x] => published[x] = 0
  /\ \A e \in End : state[e] \in {"active", "pending"} /\ ~in_active[e] =>
                      sleeping[inpipe[e]] \/ InTransit(e, "activate_read")

(* Until the first hiccup nothing is lost and the delimiter is last. *)
BeforeHiccup ==
  allocated = 2 =>
    \A e \in End :
      /\ inpipe[e] = e /\ outpipe[e] \in {Peer(e), NoPipe}
      /\ outpipe[e] # NoPipe =>
           /\ Consecutive(items[Peer(e)], msgs_read[Peer(e)], msgs_written[e])
           /\ HasDelimiter(items[Peer(e)]) =>
                state[e] \in {"terminated", "pending"} /\ pc[e] = "idle"
      /\ state[e] = "delimited" => /\ msgs_read[e] = msgs_written[Peer(e)]
                                   /\ state[Peer(e)] = "terminated"

FInv == /\ IInv /\ Numbering /\ NewPipesEmpty /\ Reports /\ LowWater /\ HighWater
        /\ Wakeups /\ BeforeHiccup
-----------------------------------------------------------------------------
(* The ypipes and the mailboxes in a step of the end e *)

(* A step that the end e takes *)
StepOf(e) ==
  \/ ReadAny(e) \/ CheckWriteFull(e) \/ \E more \in BOOLEAN : Write(e, more)
  \/ Rollback(e) \/ Flush(e)
  \/ \E delay_ \in BOOLEAN : Terminate(e, delay_)
  \/ TerminateDelimiter(e) \/ Hiccup(e) \/ Process(e)

(* The ypipe an end writes to is its own: its peer neither writes to it,   *)
(* nor is it on its way in a hiccup, nor does the end itself read it.      *)
LEMMA OwnPipe ==
  ASSUME IInv, NEW e \in End
  PROVE  /\ outpipe[e] # NoPipe =>
              /\ outpipe[e] \in PipeId /\ outpipe[e] < allocated
              /\ outpipe[e] # outpipe[Peer(e)]
              /\ \A d \in End : ~Carries(cmds[d], outpipe[e])
         /\ state[e] # "gone" => inpipe[e] # outpipe[e]
         /\ inpipe[e] \in PipeId /\ allocated \in Nat
<1> DEFINE p == Peer(e)
<1>1. /\ p \in End /\ Peer(p) = e /\ p # e
      /\ inpipe[e] \in PipeId /\ outpipe[e] \in PipeId \cup {NoPipe}
      /\ outpipe[p] \in PipeId \cup {NoPipe} /\ allocated \in Nat
  BY Peers DEF IInv, TypeOK
<1>2. \A x \in PipeId : ~(InUse(e, x) /\ InUse(p, x))
  BY <1>1, Zenon DEF IInv, Ownership, End
<1>3. \A x \in PipeId : InUse(e, x) => x < allocated
  BY <1>1 DEF IInv, Ownership, End
<1>4. state[e] # "gone" => inpipe[e] # outpipe[e]
  <2>1. state[e] # "gone" => InUse(p, inpipe[e])
    BY <1>1 DEF InUse
  <2>2. outpipe[e] \in PipeId => InUse(e, outpipe[e])
    BY <1>1 DEF InUse, PipeId, NoPipe
  <2> QED BY <1>1, <1>2, <2>1, <2>2
<1>5. ASSUME outpipe[e] # NoPipe
      PROVE  /\ outpipe[e] \in PipeId /\ outpipe[e] < allocated
             /\ outpipe[e] # outpipe[p]
             /\ \A d \in End : ~Carries(cmds[d], outpipe[e])
  <2>1. outpipe[e] \in PipeId /\ InUse(e, outpipe[e])
    BY <1>1, <1>5 DEF InUse
  <2>2. outpipe[e] # outpipe[p]
    <3>1. outpipe[p] \in PipeId => InUse(p, outpipe[p])
      BY DEF InUse, PipeId, NoPipe
    <3> QED BY <1>2, <2>1, <3>1
  <2>3. ~Carries(cmds[p], outpipe[e])
    BY <1>2, <2>1 DEF InUse
  <2>4. ~Carries(cmds[e], outpipe[e])
    <3>1. Carries(cmds[e], outpipe[e]) => outpipe[e] < outpipe[e]
      BY <1>5, <2>1 DEF IInv, Ownership, Chain
    <3>2. outpipe[e] \in Int
      BY <2>1 DEF PipeId
    <3> QED BY <3>1, <3>2
  <2>5. \A d \in End : d = e \/ d = p
    BY DEF End, Peer
  <2> QED BY <1>3, <2>1, <2>2, <2>3, <2>4, <2>5
<1> QED BY <1>1, <1>4, <1>5

(* What an end reads, its peer writes: a ypipe that the peer does not have *)
(* yet is empty, and a peer that stopped writing has seen the end leave.   *)
LEMMA ReadsFromWriter ==
  ASSUME IInv, NewPipesEmpty, NEW e \in End, Readable(e), HasItem(e)
  PROVE  outpipe[Peer(e)] = inpipe[e] /\ outpipe[Peer(e)] # NoPipe
<1> DEFINE p == Peer(e)
<1>1. /\ p \in End /\ Peer(p) = e /\ inpipe[e] \in PipeId /\ state[e] \in {"active", "pending"}
      /\ published[inpipe[e]] # 0
  BY Peers DEF IInv, TypeOK, Readable, HasItem
<1>2. state[p] \notin {"terminating", "double_terminated", "gone"}
  BY <1>1 DEF IInv, Handshake, Joint, PeerStates
<1>3. outpipe[p] # NoPipe
  BY <1>1, <1>2, Zenon DEF IInv, Ends
<1>4. inpipe[e] = outpipe[p] \/ Carries(cmds[p], inpipe[e])
  BY <1>1, <1>3 DEF IInv, Ownership, Chain
<1>5. ~Carries(cmds[p], inpipe[e])
  BY <1>1 DEF NewPipesEmpty, End
<1> QED BY <1>3, <1>4, <1>5

(* What a step of e may do to the commands on their way to d. *)
QueueMove(e, d) ==
  \/ cmds'[d] = cmds[d]
  \/ /\ cmds[d] # << >> /\ cmds'[d] = Tail(cmds[d])
     /\ IsReport(Head(cmds[d])) => d = e /\ ProcessActivateWrite(e)
     /\ Head(cmds[d]).type = "activate_read" => d = e /\ ProcessActivateRead(e)
  \/ \E c \in Command :
       /\ cmds'[d] = Append(cmds[d], c)
       /\ IsReport(c) => d = Peer(e) /\ Read(e)
       /\ c.type = "hiccup" => c.pipe = allocated /\ allocated' = allocated + 1

(* The mailboxes in a step. *)
LEMMA QueueStep ==
  ASSUME IInv, NEW e \in End, StepOf(e), NEW d \in End
  PROVE  QueueMove(e, d)
<1> DEFINE p == Peer(e)
<1>1. /\ p \in End /\ p # e /\ (d = e \/ d = p)
      /\ cmds \in [End -> Seq(Command)] /\ msgs_read[e] \in Nat /\ TypeOK
  BY Peers, Zenon DEF IInv, TypeOK, End, Peer
<1>2. CASE cmds' = cmds
  BY <1>2 DEF QueueMove
<1>3. ASSUME NEW c \in Command, cmds' = Sent(cmds, e, c),
             c.type \in {"activate_read", "pipe_term", "pipe_term_ack"}
      PROVE  QueueMove(e, d)
  <2>1. cmds'[e] = cmds[e] /\ cmds'[p] = Append(cmds[p], c)
    BY <1>1, <1>3, SentIs, Zenon
  <2>2. ~IsReport(c) /\ c.type # "hiccup"
    BY <1>3 DEF IsReport
  <2> QED BY <1>1, <2>1, <2>2, Zenon DEF QueueMove
<1>4. CASE cmds' \in {Sent(cmds, e, ActivateRead), Sent(cmds, e, PipeTerm),
                      Sent(cmds, e, PipeTermAck)}
  BY <1>3, <1>4, Commands
<1>5. ASSUME cmds[e] # << >>, cmds' = Received(e) \/ cmds' = Sent(Received(e), e, PipeTermAck),
             IsReport(Head(cmds[e])) => ProcessActivateWrite(e),
             Head(cmds[e]).type = "activate_read" => ProcessActivateRead(e)
      PROVE  QueueMove(e, d)
  <2>1. /\ Received(e) \in [End -> Seq(Command)] /\ Received(e)[e] = Tail(cmds[e])
        /\ Received(e)[p] = cmds[p]
    BY <1>1, <1>5, ReceivedIs
  <2>2. /\ cmds'[e] = Tail(cmds[e])
        /\ cmds'[p] = cmds[p] \/ cmds'[p] = Append(cmds[p], PipeTermAck)
    <3> DEFINE r == Received(e)
               s == Sent(r, e, PipeTermAck)
    <3>1. PipeTermAck \in {ActivateRead, PipeTerm, PipeTermAck}
      BY Zenon
    <3>2. s[e] = r[e] /\ s[p] = Append(r[p], PipeTermAck)
      BY ONLY e \in End, <2>1, <3>1, SendIs, Zenon
    <3>3. r[e] = Tail(cmds[e]) /\ r[p] = cmds[p] /\ (cmds' = r \/ cmds' = s)
      BY <1>5, <2>1, Zenon
    <3> HIDE DEF r, s, p
    <3> QED BY ONLY <3>2, <3>3
  <2>3. PipeTermAck \in Command /\ ~IsReport(PipeTermAck) /\ PipeTermAck.type # "hiccup"
    BY Commands DEF IsReport
  <2>4. CASE d = e
    BY <1>5, <2>2, <2>4 DEF QueueMove
  <2>5. CASE d = p
    BY <2>2, <2>3, <2>5, Zenon DEF QueueMove
  <2> QED BY <1>1, <2>4, <2>5
<1>6. CASE ReadEmpty(e) \/ CheckWriteFull(e) \/ Rollback(e)
           \/ \E more \in BOOLEAN : Write(e, more)
  BY <1>2, <1>6, Zenon DEF ReadEmpty, CheckWriteFull, Rollback, Write
<1>7. CASE ReadDelimiter(e) \/ Flush(e) \/ TerminateDelimiter(e)
  <2>1. cmds' \in {cmds, Sent(cmds, e, ActivateRead), Sent(cmds, e, PipeTermAck)}
    BY <1>7 DEF ReadDelimiter, AckAndTerminate, Flush, TerminateDelimiter
  <2> QED BY <1>2, <1>4, <2>1
<1>8. CASE \E delay_ \in BOOLEAN : Terminate(e, delay_)
  <2>1. cmds' \in {cmds, Sent(cmds, e, PipeTerm), Sent(cmds, e, PipeTermAck)}
    BY <1>8 DEF Terminate, AckAndTerminate
  <2> QED BY <1>2, <1>4, <2>1
<1>9. CASE Read(e)
  <2>1. PICK n \in Nat : n = msgs_read[e] + (IF Head(items[inpipe[e]]).more THEN 0 ELSE 1)
    BY <1>1
  <2> DEFINE c == [type |-> "activate_write", msgs_read |-> n]
  <2>2. cmds' = cmds \/ cmds' = Sent(cmds, e, c)
    BY <1>9, <2>1, Zenon DEF Read
  <2>3. c \in Command /\ c.type = "activate_write"
    BY WriteCommand, Zenon
  <2> HIDE DEF c
  <2>4. CASE cmds' = Sent(cmds, e, c)
    <3>1. cmds'[e] = cmds[e] /\ cmds'[p] = Append(cmds[p], c)
      BY <1>1, <2>3, <2>4, SentIs, Zenon
    <3> QED BY <1>1, <1>9, <2>3, <3>1, Zenon DEF QueueMove
  <2> QED BY <1>2, <2>2, <2>4
<1>10. CASE Hiccup(e)
  <2> DEFINE c == [type |-> "hiccup", pipe |-> allocated]
  <2>1. cmds' = Sent(cmds, e, c) /\ allocated' = allocated + 1 /\ allocated \in PipeId
    BY <1>10, Zenon DEF Hiccup, MayHiccup
  <2>2. c \in Command /\ c.type = "hiccup" /\ c.pipe = allocated
    BY <2>1, HiccupCommand, Zenon
  <2> HIDE DEF c
  <2>3. cmds'[e] = cmds[e] /\ cmds'[p] = Append(cmds[p], c)
    BY <1>1, <2>1, <2>2, SentIs, Zenon
  <2>4. ~IsReport(c)
    BY <2>2 DEF IsReport
  <2> QED BY <1>1, <2>1, <2>2, <2>3, <2>4, Zenon DEF QueueMove
<1>11. CASE Process(e)
  <2>1. /\ cmds[e] # << >>
        /\ cmds' = Received(e) \/ cmds' = Sent(Received(e), e, PipeTermAck)
    BY <1>11, Zenon DEF Process, ProcessActivateRead, ProcessActivateWrite, ProcessHiccup,
         ProcessPipeTerm, ProcessPipeTermAck, Next_is, AckAndTerminate
  <2>2. IsReport(Head(cmds[e])) => ProcessActivateWrite(e)
    BY <1>11, Zenon DEF Process, ProcessActivateRead, ProcessHiccup,
         ProcessPipeTerm, ProcessPipeTermAck, Next_is, IsReport
  <2>3. Head(cmds[e]).type = "activate_read" => ProcessActivateRead(e)
    BY <1>11, Zenon DEF Process, ProcessActivateWrite, ProcessHiccup,
         ProcessPipeTerm, ProcessPipeTermAck, Next_is
  <2> QED BY <1>5, <2>1, <2>2, <2>3
<1> QED BY <1>6, <1>7, <1>8, <1>9, <1>10, <1>11, Zenon DEF StepOf, ReadAny

(* What no step changes, and what only some steps change. *)
LEMMA StepKeeps ==
  ASSUME IInv, NEW e \in End, StepOf(e)
  PROVE  /\ setting' = setting
         /\ allocated' = allocated \/ allocated' = allocated + 1
         /\ Read(e) \/ msgs_read' = msgs_read
         /\ ProcessActivateWrite(e) \/ peers_msgs_read' = peers_msgs_read
         /\ (\E more \in BOOLEAN : Write(e, more)) \/ msgs_written' = msgs_written
<1>1. CASE ReadAny(e)
  BY <1>1, Zenon DEF ReadAny, ReadEmpty, ReadDelimiter, Read
<1>2. CASE CheckWriteFull(e) \/ Rollback(e) \/ Flush(e) \/ \E more \in BOOLEAN : Write(e, more)
  BY <1>2, Zenon DEF CheckWriteFull, Rollback, Flush, Write, endvars, pipevars
<1>3. CASE \/ \E delay_ \in BOOLEAN : Terminate(e, delay_)
           \/ TerminateDelimiter(e) \/ Hiccup(e)
  BY <1>3 DEF Terminate, TerminateDelimiter, Hiccup, pipevars
<1>4. CASE Process(e)
  BY <1>4, Zenon DEF Process, ProcessActivateRead, ProcessActivateWrite, ProcessHiccup,
       ProcessPipeTerm, ProcessPipeTermAck, pipevars
<1> QED BY <1>1, <1>2, <1>3, <1>4, Zenon DEF StepOf
-----------------------------------------------------------------------------
(* The reports of messages read *)

(* read counts a message with its last part, and reports every lwm-th. *)
LEMMA ReadIs ==
  ASSUME IInv, NEW e \in End, Read(e)
  PROVE  \E n \in Nat :
           /\ n = msgs_read[e] + (IF Head(items[inpipe[e]]).more THEN 0 ELSE 1)
           /\ msgs_read'[e] = n /\ msgs_read'[Peer(e)] = msgs_read[Peer(e)]
           /\ peers_msgs_read' = peers_msgs_read /\ setting' = setting
           /\ cmds'[e] = cmds[e]
           /\ \/ ~(lwm(e) > 0 /\ n % lwm(e) = 0) /\ cmds'[Peer(e)] = cmds[Peer(e)]
              \/ /\ lwm(e) > 0 /\ n % lwm(e) = 0
                 /\ \E c \in Command : /\ IsReport(c) /\ c.msgs_read = n
                                       /\ cmds'[Peer(e)] = Append(cmds[Peer(e)], c)
<1> DEFINE p == Peer(e)
<1>1. /\ p \in End /\ p # e /\ cmds \in [End -> Seq(Command)] /\ msgs_read \in [End -> Nat]
      /\ msgs_read[e] \in Nat
  BY Peers DEF IInv, TypeOK
<1>2. PICK n \in Nat : n = msgs_read[e] + (IF Head(items[inpipe[e]]).more THEN 0 ELSE 1)
  <2>1. msgs_read[e] + (IF Head(items[inpipe[e]]).more THEN 0 ELSE 1) \in Nat
    BY <1>1
  <2> QED BY <2>1, Zenon
<1> DEFINE c == [type |-> "activate_write", msgs_read |-> n]
<1>3. /\ msgs_read' = [msgs_read EXCEPT ![e] = n]
      /\ cmds' = IF lwm(e) > 0 /\ n % lwm(e) = 0 THEN Sent(cmds, e, c) ELSE cmds
      /\ peers_msgs_read' = peers_msgs_read /\ setting' = setting
  BY <1>2, Zenon DEF Read
<1>4. msgs_read'[e] = n /\ msgs_read'[p] = msgs_read[p]
  BY <1>1, <1>3
<1>5. c \in Command /\ IsReport(c) /\ c.msgs_read = n
  BY WriteCommand DEF IsReport
<1> HIDE DEF c
<1>6. Sent(cmds, e, c)[e] = cmds[e] /\ Sent(cmds, e, c)[p] = Append(cmds[p], c)
  BY <1>1, <1>5, SentIs, Zenon
<1>7. cmds'[e] = cmds[e]
  BY <1>3, <1>6
<1>8. CASE lwm(e) > 0 /\ n % lwm(e) = 0
  <2>1. cmds'[p] = Append(cmds[p], c)
    BY <1>3, <1>6, <1>8
  <2> QED BY <1>2, <1>3, <1>4, <1>5, <1>7, <1>8, <2>1
<1>9. CASE ~(lwm(e) > 0 /\ n % lwm(e) = 0)
  <2>1. cmds'[p] = cmds[p]
    BY <1>3, <1>9
  <2> QED BY <1>2, <1>3, <1>4, <1>7, <1>9, <2>1, Zenon
<1> QED BY <1>8, <1>9

(* process_activate_write takes over what is reported. *)
LEMMA LearnIs ==
  ASSUME IInv, NEW e \in End, ProcessActivateWrite(e)
  PROVE  /\ cmds[e] # << >> /\ IsReport(Head(cmds[e])) /\ cmds'[e] = Tail(cmds[e])
         /\ cmds'[Peer(e)] = cmds[Peer(e)]
         /\ peers_msgs_read'[e] = Head(cmds[e]).msgs_read
         /\ peers_msgs_read'[Peer(e)] = peers_msgs_read[Peer(e)]
         /\ msgs_read' = msgs_read /\ setting' = setting
<1>1. /\ Peer(e) \in End /\ Peer(e) # e /\ TypeOK /\ peers_msgs_read \in [End -> Nat]
  BY Peers DEF IInv, TypeOK
<1>2. /\ cmds[e] # << >> /\ Head(cmds[e]).type = "activate_write" /\ cmds' = Received(e)
      /\ peers_msgs_read' = [peers_msgs_read EXCEPT ![e] = Head(cmds[e]).msgs_read]
      /\ msgs_read' = msgs_read /\ setting' = setting
  BY Zenon DEF ProcessActivateWrite, Next_is
<1>3. cmds'[e] = Tail(cmds[e]) /\ cmds'[Peer(e)] = cmds[Peer(e)]
  BY <1>1, <1>2, ReceivedIs
<1> QED BY <1>1, <1>2, <1>3 DEF IsReport

(* The reports on their way stay between the counters. *)
LEMMA ReportsStep ==
  ASSUME IInv, Reports, NEW e \in End, StepOf(e)
  PROVE  Reports'
<1> SUFFICES ASSUME NEW d \in End
             PROVE  Reported(cmds'[d], peers_msgs_read'[d], msgs_read'[Peer(d)])
  BY Zenon DEF Reports
<1>1. /\ Peer(d) \in End /\ Peer(d) # d /\ Peer(Peer(d)) = d
      /\ cmds[d] \in Seq(Command) /\ peers_msgs_read[d] \in Nat /\ msgs_read[Peer(d)] \in Nat
      /\ d = e \/ d = Peer(e)
  BY Peers, Zenon DEF IInv, TypeOK, End, Peer
<1>2. Reported(cmds[d], peers_msgs_read[d], msgs_read[Peer(d)])
  BY DEF Reports
<1>3. CASE Read(e)
  <2>1. CASE d = e
    BY <1>2, <1>3, <2>1, ReadIs, Zenon
  <2>2. CASE d = Peer(e)
    <3>1. PICK n \in Nat :
            /\ n = msgs_read[e] + (IF Head(items[inpipe[e]]).more THEN 0 ELSE 1)
            /\ msgs_read'[e] = n /\ peers_msgs_read' = peers_msgs_read
            /\ \/ cmds'[d] = cmds[d]
               \/ \E c \in Command : /\ IsReport(c) /\ c.msgs_read = n
                                     /\ cmds'[d] = Append(cmds[d], c)
      BY <1>3, <2>2, ReadIs, Zenon
    <3>2. Peer(d) = e
      BY <1>1, <2>2, Peers
    <3>3. msgs_read[e] <= n /\ msgs_read[e] \in Nat
      BY <1>1, <3>1, <3>2
    <3>4. Reported(cmds[d], peers_msgs_read[d], n)
      BY <1>1, <1>2, <3>2, <3>3, ReportedMore
    <3>5. \A c \in Command : (IsReport(c) /\ c.msgs_read = n) =>
                               Reported(Append(cmds[d], c), peers_msgs_read[d], n)
      BY <1>1, <3>4, ReportedAppend
    <3> QED BY <3>1, <3>2, <3>4, <3>5, Zenon
  <2> QED BY <1>1, <2>1, <2>2
<1>4. CASE ProcessActivateWrite(e)
  <2>1. CASE d = e
    BY <1>1, <1>2, <1>4, <2>1, LearnIs, ReportedTail
  <2>2. CASE d = Peer(e)
    BY <1>2, <1>4, <2>2, LearnIs
  <2> QED BY <1>1, <2>1, <2>2
<1>5. CASE ~Read(e) /\ ~ProcessActivateWrite(e)
  <2>1. peers_msgs_read' = peers_msgs_read /\ msgs_read' = msgs_read
    BY <1>5, StepKeeps
  <2>2. \/ cmds'[d] = cmds[d]
        \/ cmds[d] # << >> /\ cmds'[d] = Tail(cmds[d])
        \/ \E c \in Command : cmds'[d] = Append(cmds[d], c) /\ ~IsReport(c)
    BY <1>5, QueueStep DEF QueueMove
  <2>3. cmds[d] # << >> => Reported(Tail(cmds[d]), peers_msgs_read[d], msgs_read[Peer(d)])
    BY <1>1, <1>2, ReportedTail, Zenon
  <2>4. \A c \in Command : ~IsReport(c) =>
          Reported(Append(cmds[d], c), peers_msgs_read[d], msgs_read[Peer(d)])
    BY <1>1, <1>2, ReportedAppend
  <2> QED BY <1>2, <2>1, <2>2, <2>3, <2>4, Zenon
<1> QED BY <1>3, <1>4, <1>5

(* The low-water mark of what the peer of e reports to e. *)
LEMMA LwmIs ==
  ASSUME IInv, NEW e \in End, Hwm[e] > 0
  PROVE  lwm(Peer(e)) \in Nat \ {0} /\ lwm(Peer(e)) <= Hwm[e] /\ Hwm[e] \in Nat
<1>1. setting \in SettingType
  BY PipeAssumption DEF IInv, TypeOK
<1>2. Hwm[e] \in Nat \ {0} /\ Peer(Peer(e)) = e
  BY <1>1, Peers DEF SettingType, Hwm
<1> QED BY <1>2, LowBelowHigh DEF lwm

(* The last report stays less than one low-water mark behind. *)
LEMMA LowWaterStep ==
  ASSUME IInv, Reports, LowWater, NEW e \in End, StepOf(e)
  PROVE  LowWater'
<1>1. setting' = setting
  BY StepKeeps
<1> SUFFICES ASSUME NEW d \in End, Hwm[d] > 0
             PROVE  LastReport(cmds'[d], peers_msgs_read'[d], msgs_read'[Peer(d)],
                               lwm(Peer(d)))
  BY <1>1, Zenon DEF LowWater, Hwm, lwm
<1> DEFINE l == lwm(Peer(d))
<1>2. /\ Peer(d) \in End /\ Peer(d) # d /\ Peer(Peer(d)) = d
      /\ cmds[d] \in Seq(Command) /\ peers_msgs_read[d] \in Nat /\ msgs_read[Peer(d)] \in Nat
      /\ d = e \/ d = Peer(e)
  BY Peers, Zenon DEF IInv, TypeOK, End, Peer
<1>3. /\ Reported(cmds[d], peers_msgs_read[d], msgs_read[Peer(d)])
      /\ LastReport(cmds[d], peers_msgs_read[d], msgs_read[Peer(d)], l)
  BY Zenon DEF Reports, LowWater
<1>4. l \in Nat \ {0}
  BY LwmIs
<1> HIDE DEF l
<1>5. CASE Read(e)
  <2>1. CASE d = e
    BY <1>3, <1>5, <2>1, ReadIs DEF l
  <2>2. CASE d = Peer(e)
    <3>1. Peer(d) = e
      BY <1>2, <2>2, Peers, Zenon
    <3>2. PICK n \in Nat :
            /\ n = msgs_read[e] + (IF Head(items[inpipe[e]]).more THEN 0 ELSE 1)
            /\ msgs_read'[e] = n /\ peers_msgs_read' = peers_msgs_read
            /\ \/ ~(l > 0 /\ n % l = 0) /\ cmds'[d] = cmds[d]
               \/ /\ l > 0 /\ n % l = 0
                  /\ \E c \in Command : /\ IsReport(c) /\ c.msgs_read = n
                                        /\ cmds'[d] = Append(cmds[d], c)
      BY <1>5, <2>2, <3>1, ReadIs DEF l
    <3>3. msgs_read[e] <= n /\ msgs_read[e] \in Nat /\ (n = msgs_read[e] \/ n = msgs_read[e] + 1)
      BY <1>2, <3>1, <3>2
    <3>4. Reported(cmds[d], peers_msgs_read[d], n)
      BY <1>2, <1>3, <3>1, <3>3, ReportedMore, Zenon
    <3>5. CASE n % l = 0
      <4>1. PICK c \in Command : /\ IsReport(c) /\ c.msgs_read = n
                                 /\ cmds'[d] = Append(cmds[d], c)
        BY ONLY <1>4, <3>2, <3>5
      <4>2. LastReport(Append(cmds[d], c), peers_msgs_read[d], n, l)
        BY <1>2, <1>4, <3>4, <3>5, <4>1, LastReportNew, ZenonT(40)
      <4> QED BY <3>1, <3>2, <4>1, <4>2, ZenonT(40) DEF l
    <3>6. CASE n % l # 0
      <4>1. cmds'[d] = cmds[d]
        BY <3>2, <3>6
      <4>2. LastReport(cmds[d], peers_msgs_read[d], n, l)
        <5>1. CASE n = msgs_read[e]
          BY <1>3, <3>1, <5>1
        <5>2. CASE n = msgs_read[e] + 1
          <6>1. (msgs_read[e] + 1) % l # 0
            BY <3>6, <5>2, Zenon
          <6>2. LastReport(cmds[d], peers_msgs_read[d], msgs_read[e] + 1, l)
            BY <1>2, <1>3, <1>4, <3>1, <3>3, <6>1, LastReportNext, Zenon
          <6> QED BY <5>2, <6>2
        <5> QED BY <3>3, <5>1, <5>2
      <4> QED BY <3>1, <3>2, <4>1, <4>2 DEF l
    <3> QED BY <3>5, <3>6
  <2> QED BY <1>2, <2>1, <2>2
<1>6. CASE ProcessActivateWrite(e)
  <2>1. CASE d = e
    <3>1. /\ cmds[d] # << >> /\ IsReport(Head(cmds[d])) /\ cmds'[d] = Tail(cmds[d])
          /\ peers_msgs_read'[d] = Head(cmds[d]).msgs_read /\ msgs_read' = msgs_read
      BY <1>6, <2>1, LearnIs, Zenon
    <3>2. LastReport(Tail(cmds[d]), Head(cmds[d]).msgs_read, msgs_read[Peer(d)], l)
      BY <1>2, <1>3, <1>4, <3>1, LastReportTail, Zenon
    <3> QED BY <3>1, <3>2, Zenon DEF l
  <2>2. CASE d = Peer(e)
    BY <1>3, <1>6, <2>2, LearnIs, Zenon DEF l
  <2> QED BY <1>2, <2>1, <2>2, Zenon
<1>7. CASE ~Read(e) /\ ~ProcessActivateWrite(e)
  <2>1. peers_msgs_read' = peers_msgs_read /\ msgs_read' = msgs_read
    BY <1>7, StepKeeps
  <2>2. \/ cmds'[d] = cmds[d]
        \/ cmds[d] # << >> /\ cmds'[d] = Tail(cmds[d]) /\ ~IsReport(Head(cmds[d]))
        \/ \E c \in Command : cmds'[d] = Append(cmds[d], c) /\ ~IsReport(c)
    BY <1>7, QueueStep DEF QueueMove
  <2>3. cmds[d] # << >> /\ ~IsReport(Head(cmds[d])) =>
          LastReport(Tail(cmds[d]), peers_msgs_read[d], msgs_read[Peer(d)], l)
    BY <1>2, <1>3, <1>4, LastReportTail, Zenon
  <2>4. \A c \in Command : ~IsReport(c) =>
          LastReport(Append(cmds[d], c), peers_msgs_read[d], msgs_read[Peer(d)], l)
    BY <1>2, <1>3, <1>4, LastReportAppend, Zenon
  <2> QED BY <1>3, <2>1, <2>2, <2>3, <2>4, Zenon DEF l
<1> QED BY <1>5, <1>6, <1>7
-----------------------------------------------------------------------------
(* The numbers of the messages in the ypipes *)

(* A read takes the first item of the inpipe and leaves the other ypipes. *)
LEMMA PopIs ==
  ASSUME IInv, NEW e \in End, HasItem(e), Pop(inpipe[e])
  PROVE  /\ inpipe[e] \in PipeId
         /\ items[inpipe[e]] \in Seq(Item) /\ items[inpipe[e]] # << >>
         /\ Head(items[inpipe[e]]) = items[inpipe[e]][1]
         /\ items'[inpipe[e]] = Tail(items[inpipe[e]])
         /\ \A y \in PipeId \ {inpipe[e]} : items'[y] = items[y] /\ published'[y] = published[y]
<1> DEFINE x == inpipe[e]
<1>1. /\ x \in PipeId /\ items \in [PipeId -> Seq(Item)] /\ published \in [PipeId -> Nat]
      /\ published[x] > 0 /\ published[x] <= Len(items[x])
  BY DEF IInv, TypeOK, Published, HasItem
<1>2. items[x] \in Seq(Item) /\ items[x] # << >>
  BY <1>1
<1>3. /\ items'[x] = Tail(items[x])
      /\ \A y \in PipeId \ {x} : items'[y] = items[y] /\ published'[y] = published[y]
  BY <1>1, Zenon DEF Pop
<1> QED BY <1>1, <1>2, <1>3

(* rollback and terminate cut the outpipe to whole messages; terminate     *)
(* adds the delimiter.                                                     *)
LEMMA CutIs ==
  ASSUME IInv, NEW e \in End, Rollback(e) \/ TerminateDelimiter(e)
  PROVE  LET x == outpipe[e]
             c == Complete(items[x])
         IN  /\ x \in PipeId /\ x # NoPipe /\ items[x] \in Seq(Item)
             /\ c \in 0 .. Len(items[x]) /\ items'[x] \in Seq(Item)
             /\ \A i \in 1 .. c : items'[x][i] = items[x][i]
             /\ Rollback(e) => Len(items'[x]) = c
             /\ TerminateDelimiter(e) => Len(items'[x]) = c + 1 /\ items'[x][c + 1] = Delimiter
             /\ \A y \in PipeId \ {x} : items'[y] = items[y]
             /\ setting' = setting /\ msgs_read' = msgs_read /\ msgs_written' = msgs_written
             /\ inpipe' = inpipe /\ outpipe' = outpipe /\ state' = state
             /\ allocated' = allocated
<1> DEFINE x == outpipe[e]
           c == Complete(items[x])
           u == SubSeq(items[x], 1, c)
           t == Append(u, Delimiter)
<1>1. x # NoPipe
  BY Zenon DEF Rollback, TerminateDelimiter, IInv, Ends
<1>2. x \in PipeId /\ items \in [PipeId -> Seq(Item)] /\ items[x] \in Seq(Item)
  BY <1>1 DEF IInv, TypeOK
<1>3. c \in 0 .. Len(items[x])
  BY <1>2, CompleteIs, Zenon
<1>4. /\ u \in Seq(Item) /\ Len(u) = c /\ \A i \in 1 .. c : u[i] = items[x][i]
      /\ t \in Seq(Item) /\ Len(t) = c + 1 /\ t[c + 1] = Delimiter
      /\ \A i \in 1 .. c : t[i] = items[x][i]
  BY <1>2, DelimitedIs, Zenon
<1>5. /\ setting' = setting /\ msgs_read' = msgs_read /\ msgs_written' = msgs_written
      /\ inpipe' = inpipe /\ outpipe' = outpipe /\ state' = state /\ allocated' = allocated
  BY Zenon DEF Rollback, TerminateDelimiter, endvars
<1>6. /\ Rollback(e) => items' = [items EXCEPT ![x] = u]
      /\ TerminateDelimiter(e) => items' = [items EXCEPT ![x] = t]
  BY Zenon DEF Rollback, TerminateDelimiter, FlushPipe
<1>7. ~(Rollback(e) /\ TerminateDelimiter(e))
  BY Zenon DEF Rollback, TerminateDelimiter, Idle
<1> HIDE DEF x, c, u, t
<1>8. \A y \in PipeId \ {x} : items'[y] = items[y]
  BY <1>2, <1>6
<1>9. (Rollback(e) => items'[x] = u) /\ (TerminateDelimiter(e) => items'[x] = t)
  BY <1>2, <1>6
<1>10. CASE Rollback(e)
  BY <1>1, <1>2, <1>3, <1>4, <1>5, <1>7, <1>8, <1>9, <1>10, ZenonT(40) DEF x, c
<1>11. CASE TerminateDelimiter(e)
  BY <1>1, <1>2, <1>3, <1>4, <1>5, <1>7, <1>8, <1>9, <1>11 DEF x, c
<1> QED BY <1>10, <1>11, Zenon

(* write appends the next part to the outpipe. *)
LEMMA WriteIs ==
  ASSUME IInv, NEW e \in End, NEW more \in BOOLEAN, Write(e, more)
  PROVE  LET x == outpipe[e]
             i == [n |-> msgs_written[e], more |-> more]
         IN  /\ x \in PipeId /\ x # NoPipe /\ items[x] \in Seq(Item)
             /\ i \in Item /\ i # Delimiter /\ i.n = msgs_written[e] /\ i.more = more
             /\ items'[x] = Append(items[x], i)
             /\ \A y \in PipeId \ {x} : items'[y] = items[y]
             /\ msgs_written'[e] = After(i)
             /\ msgs_written'[Peer(e)] = msgs_written[Peer(e)]
             /\ more => Complete(items[x]) = Len(items[x])
<1> DEFINE x == outpipe[e]
           i == [n |-> msgs_written[e], more |-> more]
<1>1. /\ x # NoPipe /\ state[e] = "active"
  BY Zenon DEF Write, Writable, IInv, Ends
<1>2. /\ x \in PipeId /\ items \in [PipeId -> Seq(Item)] /\ items[x] \in Seq(Item)
      /\ msgs_written \in [End -> Nat] /\ Peer(e) \in End /\ Peer(e) # e
  BY <1>1, Peers, Zenon DEF IInv, TypeOK
<1>3. /\ i \in Item /\ i # Delimiter /\ i.n = msgs_written[e] /\ i.more = more
      /\ After(i) = msgs_written[e] + (IF more THEN 0 ELSE 1)
  BY <1>2, PartFacts
<1>4. /\ items' = [items EXCEPT ![x] = Append(items[x], i)]
      /\ msgs_written' = [msgs_written EXCEPT ![e] = msgs_written[e] + (IF more THEN 0 ELSE 1)]
      /\ more => ~(Complete(items[x]) < Len(items[x]))
  BY DEF Write, Incomplete
<1>5. Complete(items[x]) \in 0 .. Len(items[x]) /\ Len(items[x]) \in Nat
  BY <1>2, CompleteIs
<1> HIDE DEF i, x
<1>6. more => Complete(items[x]) = Len(items[x])
  BY <1>4, <1>5
<1>7. items'[x] = Append(items[x], i) /\ \A y \in PipeId \ {x} : items'[y] = items[y]
  BY <1>2, <1>4, Zenon
<1>8. msgs_written'[e] = After(i) /\ msgs_written'[Peer(e)] = msgs_written[Peer(e)]
  BY <1>2, <1>3, <1>4
<1> QED BY <1>1, <1>2, <1>3, <1>6, <1>7, <1>8, Zenon DEF i, x

(* The steps that leave the messages and their counters alone. *)
Quiet(e) ==
  \/ ReadEmpty(e) \/ CheckWriteFull(e) \/ Flush(e) \/ Hiccup(e)
  \/ \E delay_ \in BOOLEAN : Terminate(e, delay_)
  \/ ProcessActivateRead(e) \/ ProcessActivateWrite(e) \/ ProcessPipeTerm(e)

(* A quiet step leaves messages and counters alone. *)
LEMMA QuietKeeps ==
  ASSUME IInv, NEW e \in End, Quiet(e)
  PROVE  /\ items' = items /\ msgs_read' = msgs_read /\ msgs_written' = msgs_written
         /\ \A d \in End : outpipe'[d] \in {outpipe[d], NoPipe}
<1>1. outpipe \in [End -> PipeId \cup {NoPipe}] /\ items \in [PipeId -> Seq(Item)]
  BY DEF IInv, TypeOK
<1>2. CASE Flush(e)
  <2>1. /\ items' = [items EXCEPT ![outpipe[e]] = items[outpipe[e]]]
        /\ msgs_read' = msgs_read /\ msgs_written' = msgs_written /\ outpipe' = outpipe
    BY <1>2 DEF Flush, FlushPipe, endvars
  <2>2. items' = items
    BY <1>1, <2>1
  <2> QED BY <2>1, <2>2
<1>3. CASE ReadEmpty(e) \/ CheckWriteFull(e) \/ Hiccup(e)
           \/ ProcessActivateRead(e) \/ ProcessActivateWrite(e)
  BY <1>3 DEF ReadEmpty, CheckWriteFull, Hiccup, ProcessActivateRead,
       ProcessActivateWrite, pipevars
<1>4. CASE \E delay_ \in BOOLEAN : Terminate(e, delay_)
  BY <1>1, <1>4 DEF Terminate, AckAndTerminate, pipevars
<1>5. CASE ProcessPipeTerm(e)
  BY <1>1, <1>5 DEF ProcessPipeTerm, AckAndTerminate, pipevars
<1> QED BY <1>2, <1>3, <1>4, <1>5 DEF Quiet

(* The steps that are not quiet. *)
LEMMA StepCases ==
  ASSUME NEW e \in End, StepOf(e)
  PROVE  \/ Quiet(e) \/ ReadDelimiter(e) \/ Read(e)
         \/ \E more \in BOOLEAN : Write(e, more)
         \/ Rollback(e) \/ TerminateDelimiter(e)
         \/ ProcessHiccup(e) \/ ProcessPipeTermAck(e)
BY DEF StepOf, Quiet, ReadAny, Process

(* The messages stay between the counters. *)
LEMMA NumberingStep ==
  ASSUME IInv, IInv', Numbering, NewPipesEmpty, NEW e \in End, StepOf(e)
  PROVE  Numbering'
<1> SUFFICES ASSUME NEW d \in End
             PROVE  /\ msgs_read'[Peer(d)] <= msgs_written'[d]
                    /\ outpipe'[d] # NoPipe =>
                         Numbered(items'[outpipe'[d]], msgs_read'[Peer(d)], msgs_written'[d])
  BY DEF Numbering
<1> DEFINE p == Peer(e)
<1>1. /\ p \in End /\ p # e /\ Peer(p) = e /\ (d = e \/ d = p)
      /\ Peer(d) \in End /\ Peer(d) # d /\ Peer(Peer(d)) = d
  BY Peers, Zenon DEF End, Peer
<1>2. /\ msgs_read[Peer(d)] \in Nat /\ msgs_written[d] \in Nat
      /\ outpipe[d] # NoPipe => outpipe[d] \in PipeId
      /\ items \in [PipeId -> Seq(Item)] /\ msgs_written[e] \in Nat /\ msgs_read[e] \in Nat
      /\ outpipe[p] # NoPipe => outpipe[p] \in PipeId
      /\ outpipe \in [End -> PipeId \cup {NoPipe}]
  BY <1>1, Zenon DEF IInv, TypeOK
<1>3. /\ msgs_read[Peer(d)] <= msgs_written[d]
      /\ outpipe[d] # NoPipe =>
           Numbered(items[outpipe[d]], msgs_read[Peer(d)], msgs_written[d])
  BY DEF Numbering
<1>4. outpipe[e] # NoPipe => outpipe[e] # outpipe[p]
  BY OwnPipe
<1>5. CASE Quiet(e)
  BY <1>3, <1>5, QuietKeeps
<1>6. CASE ReadDelimiter(e) \/ Read(e)
  <2>1. Readable(e) /\ HasItem(e) /\ Pop(inpipe[e]) /\ msgs_written' = msgs_written
        /\ state[e] # "gone" /\ outpipe'[d] \in {outpipe[d], NoPipe}
    BY <1>2, <1>6 DEF ReadDelimiter, Read, AckAndTerminate, Readable, Idle
  <2>2. outpipe[p] = inpipe[e] /\ outpipe[p] # NoPipe
    BY <2>1, ReadsFromWriter
  <2> DEFINE s == items[inpipe[e]]
  <2>3. /\ s \in Seq(Item) /\ s # << >> /\ Head(s) = s[1] /\ items'[inpipe[e]] = Tail(s)
        /\ \A y \in PipeId \ {inpipe[e]} : items'[y] = items[y]
    BY <2>1, PopIs
  <2>4. CASE d = e
    <3>1. outpipe[e] # NoPipe => items'[outpipe[e]] = items[outpipe[e]]
      BY <1>2, <1>4, <2>2, <2>3, <2>4, ZenonT(40)
    <3>2. msgs_read'[p] = msgs_read[p]
      BY <1>1, <1>6, ReadIs DEF ReadDelimiter
    <3> QED BY <1>3, <2>1, <2>4, <3>1, <3>2
  <2>5. CASE d = p
    <3>1. Numbered(s, msgs_read[e], msgs_written[p])
      BY <1>1, <1>3, <2>2, <2>5
    <3>2. Numbered(Tail(s), msgs_read'[e], msgs_written[p])
      <4> HIDE DEF s
      <4>1. CASE ReadDelimiter(e)
        BY <1>1, <1>2, <2>3, <2>5, <3>1, <4>1, NumberedTail, ZenonT(40) DEF ReadDelimiter
      <4>2. CASE Read(e)
        <5>1. s[1] # Delimiter /\ msgs_read'[e] = msgs_read[e] + (IF s[1].more THEN 0 ELSE 1)
          BY <2>3, <4>2, ReadIs, ZenonT(40) DEF Read, s
        <5> QED BY <1>1, <1>2, <2>3, <2>5, <3>1, <5>1, NumberedTail
      <4> QED BY <1>6, <4>1, <4>2, Zenon
    <3>3. msgs_read'[e] <= msgs_written[p]
      BY <3>2 DEF Numbered
    <3> QED BY <1>1, <2>1, <2>2, <2>3, <2>5, <3>2, <3>3
  <2> QED BY <1>1, <2>4, <2>5
<1>7. ASSUME NEW more \in BOOLEAN, Write(e, more)
      PROVE  /\ msgs_read'[Peer(d)] <= msgs_written'[d]
             /\ outpipe'[d] # NoPipe =>
                  Numbered(items'[outpipe'[d]], msgs_read'[Peer(d)], msgs_written'[d])
  <2> DEFINE x == outpipe[e]
             i == [n |-> msgs_written[e], more |-> more]
  <2>1. /\ x \in PipeId /\ x # NoPipe /\ items[x] \in Seq(Item)
        /\ i \in Item /\ i # Delimiter /\ i.n = msgs_written[e]
        /\ items'[x] = Append(items[x], i)
        /\ \A y \in PipeId \ {x} : items'[y] = items[y]
        /\ msgs_written'[e] = After(i) /\ msgs_written'[p] = msgs_written[p]
    BY <1>7, WriteIs, Zenon
  <2> HIDE DEF i
  <2>2. outpipe' = outpipe /\ msgs_read' = msgs_read
    BY <1>7, Zenon DEF Write
  <2>3. CASE d = e
    <3>1. Numbered(Append(items[x], i), msgs_read[p], After(i))
      BY <1>2, <1>3, <2>1, <2>3, NumberedAppend
    <3>2. msgs_read[p] <= After(i)
      BY <3>1, Zenon DEF Numbered
    <3> QED BY <2>1, <2>2, <2>3, <3>1, <3>2, ZenonT(40)
  <2>4. CASE d = p
    BY <1>2, <1>3, <1>4, <2>1, <2>2, <2>4, Zenon
  <2> QED BY <1>1, <2>3, <2>4, Zenon
<1>8. CASE Rollback(e) \/ TerminateDelimiter(e)
  <2> DEFINE x == outpipe[e]
             c == Complete(items[x])
  <2>1. /\ x \in PipeId /\ x # NoPipe /\ items[x] \in Seq(Item) /\ items'[x] \in Seq(Item)
        /\ c \in 0 .. Len(items[x])
        /\ \A i \in 1 .. c : items'[x][i] = items[x][i]
        /\ Len(items'[x]) = c \/ (Len(items'[x]) = c + 1 /\ items'[x][c + 1] = Delimiter)
        /\ \A y \in PipeId \ {x} : items'[y] = items[y]
        /\ msgs_read' = msgs_read /\ msgs_written' = msgs_written /\ outpipe' = outpipe
    BY <1>8, CutIs, Zenon
  <2> HIDE DEF c
  <2>2. CASE d = e
    <3>1. \A i \in 1 .. Len(items'[x]) :
            items'[x][i] = Delimiter \/ (i <= Len(items[x]) /\ items'[x][i] = items[x][i])
      BY <2>1
    <3>2. Numbered(items[x], msgs_read[p], msgs_written[e])
      BY <1>3, <2>1, <2>2, Zenon
    <3>3. Numbered(items'[x], msgs_read[p], msgs_written[e])
      <4>1. Len(items'[x]) \in Nat /\ Len(items[x]) \in Nat
        BY <2>1
      <4> QED BY ONLY <3>1, <3>2, <4>1, NumberedPrefix, Zenon
    <3> QED BY <1>3, <2>1, <2>2, <3>3, Zenon
  <2>3. CASE d = p
    BY <1>2, <1>3, <1>4, <2>1, <2>3, Zenon
  <2> QED BY <1>1, <2>2, <2>3, Zenon
<1>9. CASE ProcessHiccup(e)
  <2> DEFINE x == outpipe[e]
             y == Head(cmds[e]).pipe
  <2>1. /\ x # NoPipe /\ x \in PipeId /\ cmds[e] # << >> /\ Head(cmds[e]).type = "hiccup"
        /\ cmds[e] \in Seq(Command)
    BY <1>2, <1>9, Zenon DEF ProcessHiccup, Next_is, IInv, TypeOK
  <2>2. y \in PipeId /\ Carries(cmds[e], y)
    <3>1. cmds[e][1] \in Command /\ 1 \in DOMAIN cmds[e] /\ Head(cmds[e]) = cmds[e][1]
      BY <2>1
    <3> QED BY <2>1, <3>1, CommandFields DEF Carries
  <2>3. items[y] = << >> /\ y # x
    BY <2>1, <2>2, OwnPipe, Zenon DEF NewPipesEmpty, End
  <2>4. /\ \A z \in PipeId \ {x} : items'[z] = items[z]
        /\ msgs_read' = msgs_read /\ msgs_written' = msgs_written
        /\ outpipe'[e] = y /\ outpipe'[p] = outpipe[p]
    BY <1>1, <1>2, <1>9, <2>1, Zenon DEF ProcessHiccup, DrainAndDelete
  <2>5. CASE d = e
    <3>1. items'[y] = << >>
      BY <2>2, <2>3, <2>4, ZenonT(40)
    <3>2. msgs_read[p] <= msgs_written[e]
      BY <1>3, <2>5, Zenon DEF Numbered
    <3>3. Numbered(<< >>, msgs_read[p], msgs_written[e])
      BY ONLY <3>2 DEF Numbered
    <3> QED BY <1>3, <2>4, <2>5, <3>1, <3>3, Zenon
  <2>6. CASE d = p
    BY <1>2, <1>3, <1>4, <2>1, <2>4, <2>6, Zenon
  <2> QED BY <1>1, <2>5, <2>6, Zenon
<1>10. CASE ProcessPipeTermAck(e)
  <2>1. state'[e] = "gone" /\ msgs_read' = msgs_read /\ msgs_written' = msgs_written
    BY <1>10, Zenon DEF ProcessPipeTermAck, IInv, TypeOK
  <2>2. state'[d] \in {"terminating", "double_terminated", "gone"}
    BY <1>1, <2>1, Zenon DEF IInv, Handshake, Joint, PeerStates
  <2>3. outpipe'[d] = NoPipe
    BY <2>2, Zenon DEF IInv, Ends
  <2> QED BY <1>3, <2>1, <2>3, Zenon
<1> QED BY <1>5, <1>6, <1>7, <1>8, <1>9, <1>10, StepCases

(* A ypipe stays empty until process_hiccup gives it to its writer. *)
LEMMA NewPipesStep ==
  ASSUME IInv, NewPipesEmpty, NEW e \in End, StepOf(e)
  PROVE  NewPipesEmpty'
<1> SUFFICES ASSUME NEW x \in PipeId,
                    x >= allocated' \/ Carries(cmds'[0], x) \/ Carries(cmds'[1], x)
             PROVE  items'[x] = << >> /\ published'[x] = 0
  BY DEF NewPipesEmpty
<1>1. /\ 0 \in End /\ 1 \in End /\ allocated \in Nat /\ x \in Nat
      /\ cmds \in [End -> Seq(Command)] /\ inpipe[e] \in PipeId
      /\ items \in [PipeId -> Seq(Item)] /\ published \in [PipeId -> Nat]
      /\ outpipe[e] # NoPipe => outpipe[e] \in PipeId
  <2>1. TypeOK
    BY DEF IInv
  <2>2. 0 \in End /\ 1 \in End
    BY DEF End
  <2>3. x \in Nat
    BY PipeAssumption DEF PipeId
  <2> QED BY <2>1, <2>2, <2>3, Zenon DEF TypeOK
<1>2. ASSUME NEW d \in End, Carries(cmds'[d], x)
      PROVE  Carries(cmds[d], x) \/ x = allocated
  <2>1. cmds[d] \in Seq(Command)
    BY <1>1
  <2>2. \/ cmds'[d] = cmds[d]
        \/ cmds[d] # << >> /\ cmds'[d] = Tail(cmds[d])
        \/ \E c \in Command : /\ cmds'[d] = Append(cmds[d], c)
                              /\ c.type = "hiccup" => c.pipe = allocated
    BY QueueStep DEF QueueMove
  <2>3. CASE cmds[d] # << >> /\ cmds'[d] = Tail(cmds[d])
    BY <1>2, <2>1, <2>3, CarriesTail
  <2>4. ASSUME NEW c \in Command, cmds'[d] = Append(cmds[d], c),
               c.type = "hiccup" => c.pipe = allocated
        PROVE  Carries(cmds[d], x) \/ x = allocated
    BY <1>2, <2>1, <2>4, CarriesAppend
  <2> QED BY <1>2, <2>2, <2>3, <2>4, Zenon
<1>3. x >= allocated' => x >= allocated
  <2>1. allocated' = allocated \/ allocated' = allocated + 1
    BY StepKeeps
  <2> QED BY <1>1, <2>1
<1>4. x >= allocated \/ Carries(cmds[0], x) \/ Carries(cmds[1], x)
  BY <1>1, <1>2, <1>3
<1>5. items[x] = << >> /\ published[x] = 0
  BY <1>4 DEF NewPipesEmpty
<1>6. x # outpipe[e]
  <2>1. CASE outpipe[e] = NoPipe
    BY <1>1, <2>1 DEF NoPipe
  <2>2. CASE outpipe[e] # NoPipe
    BY <1>1, <1>4, <2>2, OwnPipe
  <2> QED BY <2>1, <2>2
<1>7. CASE Quiet(e)
  <2>1. items' = items
    BY <1>7, QuietKeeps, Zenon
  <2>2. published'[x] = published[x]
    <3>1. CASE Flush(e)
      BY <1>1, <1>6, <3>1, Zenon DEF Flush, FlushPipe
    <3>2. CASE \E delay_ \in BOOLEAN : Terminate(e, delay_)
      BY <3>2, Zenon DEF Terminate, pipevars
    <3>3. CASE ReadEmpty(e) \/ CheckWriteFull(e) \/ Hiccup(e)
               \/ ProcessActivateRead(e) \/ ProcessActivateWrite(e) \/ ProcessPipeTerm(e)
      BY <3>3, Zenon DEF ReadEmpty, CheckWriteFull, Hiccup, ProcessActivateRead,
           ProcessActivateWrite, ProcessPipeTerm, pipevars
    <3> QED BY <1>7, <3>1, <3>2, <3>3, Zenon DEF Quiet
  <2> QED BY <1>5, <2>1, <2>2
<1>8. CASE ReadDelimiter(e) \/ Read(e)
  <2>1. HasItem(e) /\ Pop(inpipe[e])
    BY <1>8, Zenon DEF ReadDelimiter, Read
  <2>2. x # inpipe[e]
    BY <1>5, <2>1 DEF HasItem
  <2> QED BY <1>5, <2>1, <2>2, PopIs, Zenon
<1>9. CASE \E more \in BOOLEAN : Write(e, more)
  BY <1>1, <1>5, <1>6, <1>9, Zenon DEF Write
<1>10. CASE Rollback(e)
  BY <1>1, <1>5, <1>6, <1>10, Zenon DEF Rollback
<1>11. CASE TerminateDelimiter(e)
  BY <1>1, <1>5, <1>6, <1>11, Zenon DEF TerminateDelimiter, FlushPipe
<1>12. CASE ProcessHiccup(e)
  BY <1>1, <1>5, <1>6, <1>12, Zenon DEF ProcessHiccup, DrainAndDelete
<1>13. CASE ProcessPipeTermAck(e)
  <2>1. CASE x # inpipe[e]
    BY <1>1, <1>5, <1>13, <2>1, Zenon DEF ProcessPipeTermAck, DrainAndDelete
  <2>2. CASE x = inpipe[e]
    <3>1. items'[x] = SubSeq(<< >>, 0 + 1, Len(<< >>)) /\ published'[x] = 0
      BY <1>1, <1>5, <1>13, <2>2 DEF ProcessPipeTermAck, DrainAndDelete
    <3>2. SubSeq(<< >>, 0 + 1, Len(<< >>)) = << >>
      OBVIOUS
    <3> QED BY <3>1, <3>2, Zenon
  <2> QED BY <2>1, <2>2, Zenon
<1> QED BY <1>7, <1>8, <1>9, <1>10, <1>11, <1>12, <1>13, StepCases, Zenon
-----------------------------------------------------------------------------
(* The writer and the reader *)

(* check_write is told of a full pipe, and of nothing else; what the peer  *)
(* reports only makes room.                                                *)
LEMMA HighWaterStep ==
  ASSUME IInv, Reports, HighWater, NEW e \in End, StepOf(e)
  PROVE  HighWater'
<1>1. setting' = setting /\ setting \in SettingType
  BY StepKeeps, PipeAssumption, Zenon DEF IInv, TypeOK
<1> SUFFICES ASSUME NEW d \in End
             PROVE  /\ Hwm[d] > 0 => msgs_written'[d] - peers_msgs_read'[d] <= Hwm[d]
                    /\ state'[d] = "active" /\ ~out_active'[d] =>
                         Hwm[d] > 0 /\ msgs_written'[d] - peers_msgs_read'[d] = Hwm[d]
  BY <1>1, Zenon DEF HighWater, Hwm, Full
<1>2. /\ msgs_written[d] \in Nat /\ peers_msgs_read[d] \in Nat /\ Hwm[d] \in Nat
      /\ cmds[d] \in Seq(Command) /\ msgs_read[Peer(d)] \in Nat
      /\ state \in [End -> State] /\ out_active \in [End -> BOOLEAN]
      /\ msgs_written \in [End -> Nat] /\ peers_msgs_read \in [End -> Nat]
  BY <1>1, Peers, Zenon DEF IInv, TypeOK, SettingType, Hwm
<1>3. /\ Hwm[d] > 0 => msgs_written[d] - peers_msgs_read[d] <= Hwm[d]
      /\ state[d] = "active" /\ ~out_active[d] =>
           Hwm[d] > 0 /\ msgs_written[d] - peers_msgs_read[d] = Hwm[d]
  BY DEF HighWater, Full
<1>4. CASE CheckWriteFull(e)
  BY <1>2, <1>3, <1>4 DEF CheckWriteFull, Full
<1>5. ASSUME NEW more \in BOOLEAN, Write(e, more)
      PROVE  /\ Hwm[d] > 0 => msgs_written'[d] - peers_msgs_read'[d] <= Hwm[d]
             /\ state'[d] = "active" /\ ~out_active'[d] =>
                  Hwm[d] > 0 /\ msgs_written'[d] - peers_msgs_read'[d] = Hwm[d]
  <2>1. /\ state' = state /\ out_active' = out_active /\ peers_msgs_read' = peers_msgs_read
        /\ msgs_written' = [msgs_written EXCEPT ![e] = @ + (IF more THEN 0 ELSE 1)]
        /\ out_active[e]
        /\ ~(Hwm[e] > 0 /\ msgs_written[e] - peers_msgs_read[e] = Hwm[e])
    BY <1>5, Zenon DEF Write, Writable, Full
  <2>2. CASE d # e
    BY <1>2, <1>3, <2>1, <2>2, Zenon
  <2>3. CASE d = e
    <3>1. msgs_written'[e] = msgs_written[e] \/ msgs_written'[e] = msgs_written[e] + 1
      BY <1>2, <2>1, <2>3
    <3> QED BY <1>2, <1>3, <2>1, <2>3, <3>1
  <2> QED BY <2>2, <2>3, Zenon
<1>6. CASE ProcessActivateWrite(e)
  <2>1. /\ state' = state /\ msgs_written' = msgs_written
        /\ out_active' = [out_active EXCEPT ![e] = @ \/ state[e] = "active"]
    BY <1>6 DEF ProcessActivateWrite
  <2>2. CASE d # e
    <3>1. peers_msgs_read'[d] = peers_msgs_read[d]
      BY <1>2, <1>6, <2>2, Zenon DEF ProcessActivateWrite
    <3> QED BY <1>2, <1>3, <2>1, <2>2, <3>1
  <2>3. CASE d = e
    <3>1. /\ peers_msgs_read[d] <= peers_msgs_read'[d] /\ peers_msgs_read'[d] \in Nat
      <4>1. Reported(cmds[d], peers_msgs_read[d], msgs_read[Peer(d)])
        BY DEF Reports
      <4> QED BY <1>2, <1>6, <2>3, <4>1, LearnIs, ReportedTail, Zenon
    <3>2. state'[d] = "active" => out_active'[d]
      BY <1>2, <2>1, <2>3, Zenon
    <3> QED BY <1>2, <1>3, <2>1, <3>1, <3>2
  <2> QED BY <2>2, <2>3
<1>7. ASSUME state'[d] = "active" => state[d] = "active",
             out_active'[d] = out_active[d] \/ out_active'[d] \/ state'[d] # "active",
             msgs_written' = msgs_written, peers_msgs_read' = peers_msgs_read
      PROVE  /\ Hwm[d] > 0 => msgs_written'[d] - peers_msgs_read'[d] <= Hwm[d]
             /\ state'[d] = "active" /\ ~out_active'[d] =>
                  Hwm[d] > 0 /\ msgs_written'[d] - peers_msgs_read'[d] = Hwm[d]
  BY <1>3, <1>7
<1>8. CASE ReadAny(e) \/ Rollback(e) \/ Flush(e) \/ TerminateDelimiter(e) \/ Hiccup(e)
           \/ ProcessActivateRead(e)
  <2>1. CASE ReadAny(e)
    BY <1>2, <1>7, <2>1, Zenon DEF ReadAny, ReadEmpty, ReadDelimiter, Read, AckAndTerminate
  <2>2. CASE Rollback(e) \/ Flush(e) \/ TerminateDelimiter(e) \/ Hiccup(e)
             \/ ProcessActivateRead(e)
    BY <1>7, <2>2, Zenon DEF Rollback, Flush, TerminateDelimiter, Hiccup, ProcessActivateRead,
         endvars
  <2> QED BY <1>8, <2>1, <2>2
<1>9. CASE \E delay_ \in BOOLEAN : Terminate(e, delay_)
  BY <1>2, <1>7, <1>9, Zenon DEF Terminate, AckAndTerminate, AsksPeer
<1>10. CASE ProcessHiccup(e)
  BY <1>2, <1>7, <1>10, Zenon DEF ProcessHiccup
<1>11. CASE ProcessPipeTerm(e)
  BY <1>2, <1>7, <1>11, Zenon DEF ProcessPipeTerm, AckAndTerminate
<1>12. CASE ProcessPipeTermAck(e)
  BY <1>2, <1>7, <1>12, Zenon DEF ProcessPipeTermAck
<1> QED BY <1>4, <1>5, <1>6, <1>8, <1>9, <1>10, <1>11, <1>12, Zenon DEF StepOf, Process

(* flush keeps the reader asleep only if there is nothing new to read, and *)
(* otherwise sends it activate_read.                                       *)
LEMMA FlushIs ==
  ASSUME IInv, NEW e \in End, Flush(e) \/ TerminateDelimiter(e)
  PROVE  LET x == outpipe[e]
         IN  /\ x \in PipeId
             /\ \A y \in PipeId \ {x} : /\ sleeping'[y] = sleeping[y]
                                        /\ published'[y] = published[y]
             /\ sleeping'[x] => sleeping[x] /\ published'[x] = published[x]
             /\ sleeping[x] /\ ~sleeping'[x] => cmds' = Sent(cmds, e, ActivateRead)
             /\ inpipe' = inpipe /\ in_active' = in_active /\ state' = state
<1> DEFINE x == outpipe[e]
<1>1. x # NoPipe
  BY DEF Flush, TerminateDelimiter, IInv, Ends
<1>2. /\ x \in PipeId /\ sleeping \in [PipeId -> BOOLEAN] /\ published \in [PipeId -> Nat]
  BY <1>1, Zenon DEF IInv, TypeOK
<1>3. inpipe' = inpipe /\ in_active' = in_active /\ state' = state
  BY Zenon DEF Flush, TerminateDelimiter, endvars
<1>4. PICK s : /\ FlushPipe(x, s)
               /\ cmds' = IF FlushFails(x, s) THEN Sent(cmds, e, ActivateRead) ELSE cmds
  <2>1. CASE Flush(e)
    BY <2>1, Zenon DEF Flush
  <2>2. CASE TerminateDelimiter(e)
    BY <2>2, Zenon DEF TerminateDelimiter
  <2> QED BY <2>1, <2>2, Zenon
<1>5. /\ published' = [published EXCEPT ![x] = Complete(s)]
      /\ sleeping' = [sleeping EXCEPT ![x] = @ /\ Complete(s) = published[x]]
      /\ sleeping[x] /\ Complete(s) # published[x] => cmds' = Sent(cmds, e, ActivateRead)
  BY <1>4 DEF FlushPipe, FlushFails
<1> HIDE DEF x
<1>6. published'[x] = Complete(s) /\ sleeping'[x] = (sleeping[x] /\ Complete(s) = published[x])
  BY <1>2, <1>5
<1>7. \A y \in PipeId \ {x} : sleeping'[y] = sleeping[y] /\ published'[y] = published[y]
  BY <1>2, <1>5, Zenon
<1> QED BY <1>2, <1>3, <1>5, <1>6, <1>7, Zenon DEF x

(* A promised activate_read stays on its way until it is processed. *)
LEMMA PromiseKept ==
  ASSUME IInv, NEW e \in End, StepOf(e), NEW d \in End, InTransit(d, "activate_read"),
         ~(d = e /\ ProcessActivateRead(e))
  PROVE  Holds(cmds'[d], "activate_read")
<1>1. cmds[d] \in Seq(Command) /\ Holds(cmds[d], "activate_read")
  BY DEF IInv, TypeOK, InTransit, Holds
<1>2. \/ cmds'[d] = cmds[d]
      \/ /\ cmds[d] # << >> /\ cmds'[d] = Tail(cmds[d])
         /\ Head(cmds[d]).type # "activate_read"
      \/ \E c \in Command : cmds'[d] = Append(cmds[d], c)
  BY QueueStep DEF QueueMove
<1>3. \A c \in Command : Holds(Append(cmds[d], c), "activate_read")
  BY <1>1, HoldsAppend
<1>4. CASE cmds[d] # << >> /\ cmds'[d] = Tail(cmds[d]) /\ Head(cmds[d]).type # "activate_read"
  BY <1>1, <1>4, HoldsTail
<1> QED BY <1>1, <1>2, <1>3, <1>4, Zenon

(* A reader falls asleep over an empty ypipe, and flush wakes it. *)
LEMMA WakeupsStep ==
  ASSUME IInv, Wakeups, NEW e \in End, StepOf(e)
  PROVE  Wakeups'
<1>1. /\ sleeping \in [PipeId -> BOOLEAN] /\ published \in [PipeId -> Nat]
      /\ inpipe \in [End -> PipeId] /\ state \in [End -> State]
      /\ in_active \in [End -> BOOLEAN] /\ cmds \in [End -> Seq(Command)]
  BY Zenon DEF IInv, TypeOK
<1>2. \A x \in PipeId : sleeping[x] => published[x] = 0
  BY DEF Wakeups
<1>3. ASSUME NEW d \in End, state'[d] \in {"active", "pending"}, ~in_active'[d],
             InTransit(d, "activate_read")
      PROVE  Holds(cmds'[d], "activate_read")
  <2>1. ~(d = e /\ ProcessActivateRead(e))
    BY <1>1, <1>3, Zenon DEF ProcessActivateRead
  <2> QED BY <1>3, <2>1, PromiseKept
<1>4. CASE Flush(e) \/ TerminateDelimiter(e)
  <2> DEFINE x == outpipe[e]
  <2>1. /\ x \in PipeId
        /\ \A y \in PipeId \ {x} : /\ sleeping'[y] = sleeping[y]
                                   /\ published'[y] = published[y]
        /\ sleeping'[x] => sleeping[x] /\ published'[x] = published[x]
        /\ sleeping[x] /\ ~sleeping'[x] => cmds' = Sent(cmds, e, ActivateRead)
        /\ inpipe' = inpipe /\ in_active' = in_active /\ state' = state
    BY <1>4, FlushIs
  <2>2. \A y \in PipeId : sleeping'[y] => published'[y] = 0
    BY <1>2, <2>1
  <2>3. ASSUME NEW d \in End, state'[d] \in {"active", "pending"}, ~in_active'[d]
        PROVE  sleeping'[inpipe'[d]] \/ Holds(cmds'[d], "activate_read")
    <3>1. sleeping[inpipe[d]] \/ InTransit(d, "activate_read")
      BY <2>1, <2>3, Zenon DEF Wakeups
    <3>2. CASE InTransit(d, "activate_read")
      BY <1>3, <2>3, <3>2, Zenon
    <3>3. CASE sleeping[inpipe[d]] /\ ~sleeping'[inpipe[d]]
      <4>1. inpipe[d] \in PipeId
        BY <1>1, Zenon
      <4>2. inpipe[d] = x /\ cmds' = Sent(cmds, e, ActivateRead)
        BY <2>1, <3>3, <4>1, Zenon
      <4>3. d # e
        <5>1. state[d] # "gone"
          BY <2>1, <2>3
        <5> QED BY <4>2, <5>1, OwnPipe
      <4>4. d = Peer(e)
        BY <4>3 DEF End, Peer
      <4>5. cmds'[d] = Append(cmds[d], ActivateRead)
        BY <1>1, <4>2, <4>4, SendIs, Zenon
      <4> QED BY <1>1, <4>5, HoldsAppend, Commands
    <3> QED BY <2>1, <3>1, <3>2, <3>3, Zenon
  <2> QED BY <2>2, <2>3 DEF Wakeups, InTransit, Holds
<1>5. CASE ~(Flush(e) \/ TerminateDelimiter(e))
  <2>1. ASSUME NEW y \in PipeId, sleeping'[y]
        PROVE  published'[y] = 0
    <3>1. CASE ReadEmpty(e)
      <4>1. sleeping' = [sleeping EXCEPT ![inpipe[e]] = TRUE] /\ published' = published
            /\ published[inpipe[e]] = 0
        BY <1>1, <3>1 DEF ReadEmpty, HasItem
      <4> QED BY <1>1, <1>2, <2>1, <4>1
    <3>2. CASE ReadDelimiter(e) \/ Read(e)
      <4>1. sleeping' = sleeping /\ HasItem(e) /\ Pop(inpipe[e])
        BY <3>2 DEF ReadDelimiter, Read
      <4>2. y # inpipe[e] /\ published[y] = 0
        BY <1>1, <1>2, <2>1, <4>1 DEF HasItem
      <4> QED BY <4>1, <4>2, PopIs
    <3>3. CASE ProcessHiccup(e) \/ ProcessPipeTermAck(e)
      BY <1>1, <1>2, <2>1, <3>3 DEF ProcessHiccup, ProcessPipeTermAck, DrainAndDelete
    <3>4. CASE sleeping' = sleeping /\ published' = published
      BY <1>2, <2>1, <3>4, ZenonT(40)
    <3>5. CASE CheckWriteFull(e) \/ Rollback(e) \/ Hiccup(e) \/ ProcessActivateRead(e)
               \/ ProcessActivateWrite(e) \/ ProcessPipeTerm(e)
      BY <3>4, <3>5, Zenon DEF CheckWriteFull, Rollback, Hiccup, ProcessActivateRead,
           ProcessActivateWrite, ProcessPipeTerm, pipevars
    <3>6. CASE (\E more \in BOOLEAN : Write(e, more))
               \/ \E delay_ \in BOOLEAN : Terminate(e, delay_)
      BY <3>4, <3>6, Zenon DEF Write, Terminate, pipevars
    <3> QED BY <1>5, <3>1, <3>2, <3>3, <3>5, <3>6 DEF StepOf, ReadAny, Process
  <2>2. \A y \in PipeId : sleeping[y] => sleeping'[y]
    <3>1. CASE ReadEmpty(e)
      BY <1>1, <3>1 DEF ReadEmpty
    <3>2. CASE ReadDelimiter(e) \/ Read(e) \/ CheckWriteFull(e) \/ Rollback(e) \/ Hiccup(e)
               \/ Process(e)
      BY <3>2, Zenon DEF ReadDelimiter, Read, CheckWriteFull, Rollback, Hiccup, Process,
           ProcessActivateRead, ProcessActivateWrite, ProcessHiccup, ProcessPipeTerm,
           ProcessPipeTermAck, pipevars
    <3>3. CASE (\E more \in BOOLEAN : Write(e, more))
               \/ \E delay_ \in BOOLEAN : Terminate(e, delay_)
      BY <3>3, ZenonT(40) DEF Write, Terminate, pipevars
    <3> QED BY <1>5, <3>1, <3>2, <3>3, Zenon DEF StepOf, ReadAny
  <2>3. ASSUME NEW d \in End, state'[d] \in {"active", "pending"}, ~in_active'[d]
        PROVE  \/ /\ state[d] \in {"active", "pending"} /\ ~in_active[d]
                  /\ inpipe'[d] = inpipe[d]
               \/ sleeping'[inpipe'[d]]
    <3>1. CASE ReadEmpty(e)
      <4>1. /\ in_active' = [in_active EXCEPT ![e] = FALSE] /\ inpipe' = inpipe
            /\ sleeping' = [sleeping EXCEPT ![inpipe[e]] = TRUE] /\ state' = state
        BY <3>1 DEF ReadEmpty
      <4>2. CASE d = e
        BY <1>1, <4>1, <4>2, Zenon
      <4>3. CASE d # e
        BY <1>1, <2>3, <4>1, <4>3, Zenon
      <4> QED BY <4>2, <4>3, Zenon
    <3>2. CASE ReadDelimiter(e) \/ Read(e)
      BY <1>1, <2>3, <3>2, Zenon DEF ReadDelimiter, Read, AckAndTerminate
    <3>3. CASE CheckWriteFull(e) \/ Rollback(e) \/ ProcessActivateWrite(e)
               \/ \E more \in BOOLEAN : Write(e, more)
      BY <2>3, <3>3, Zenon DEF CheckWriteFull, Rollback, ProcessActivateWrite, Write, endvars
    <3>4. CASE Hiccup(e)
      BY <1>1, <2>3, <3>4, Zenon DEF Hiccup
    <3>5. CASE \E delay_ \in BOOLEAN : Terminate(e, delay_)
      BY <1>1, <2>3, <3>5 DEF Terminate, AckAndTerminate
    <3>6. CASE ProcessActivateRead(e)
      BY <1>1, <2>3, <3>6, Zenon DEF ProcessActivateRead
    <3>7. CASE ProcessHiccup(e) \/ ProcessPipeTerm(e) \/ ProcessPipeTermAck(e)
      BY <1>1, <2>3, <3>7, Zenon DEF ProcessHiccup, ProcessPipeTerm, ProcessPipeTermAck,
           AckAndTerminate
    <3> QED BY <1>5, <3>1, <3>2, <3>3, <3>4, <3>5, <3>6, <3>7, ZenonT(40)
        DEF StepOf, ReadAny, Process
  <2>4. ASSUME NEW d \in End, state'[d] \in {"active", "pending"}, ~in_active'[d]
        PROVE  sleeping'[inpipe'[d]] \/ Holds(cmds'[d], "activate_read")
    <3>1. CASE sleeping'[inpipe'[d]]
      BY <3>1, Zenon
    <3>2. CASE ~sleeping'[inpipe'[d]]
      <4>1. state[d] \in {"active", "pending"} /\ ~in_active[d] /\ inpipe'[d] = inpipe[d]
        BY <2>3, <2>4, <3>2, Zenon
      <4>2. sleeping[inpipe[d]] \/ InTransit(d, "activate_read")
        BY <4>1 DEF Wakeups
      <4>3. inpipe[d] \in PipeId
        BY <1>1
      <4> QED BY <1>3, <2>2, <2>4, <4>1, <4>2, <4>3, ZenonT(40)
    <3> QED BY <3>1, <3>2, Zenon
  <2> QED BY <2>1, <2>4 DEF Wakeups, InTransit, Holds
<1> QED BY <1>4, <1>5, Zenon
-----------------------------------------------------------------------------
(* Nothing is lost before the first hiccup *)

(* The moves of the termination automaton. *)
LEMMA StateMoves ==
  ASSUME IInv, NEW e \in End, StepOf(e)
  PROVE  /\ state'[Peer(e)] = state[Peer(e)] /\ pc'[Peer(e)] = pc[Peer(e)]
         /\ \/ state'[e] = state[e]
            \/ ReadDelimiter(e) /\ state[e] = "active" /\ state'[e] = "delimited"
            \/ state[e] \in {"active", "delimited"} /\ state'[e] = "terminated"
            \/ state[e] = "active" /\ state'[e] = "pending"
            \/ /\ state'[e] \in {"terminating", "double_terminated", "gone"}
               /\ outpipe'[e] = NoPipe
<1>1. /\ Peer(e) \in End /\ Peer(e) # e /\ state \in [End -> State]
      /\ outpipe \in [End -> PipeId \cup {NoPipe}] /\ pc \in [End -> {"idle", "delimiter"}]
  BY Peers, Zenon DEF IInv, TypeOK
<1>2. CASE ReadDelimiter(e)
  BY <1>1, <1>2 DEF ReadDelimiter, AckAndTerminate, Readable
<1>3. CASE ReadEmpty(e) \/ Read(e) \/ CheckWriteFull(e) \/ Rollback(e) \/ Flush(e)
           \/ Hiccup(e) \/ \E more \in BOOLEAN : Write(e, more)
  BY <1>3, Zenon DEF ReadEmpty, Read, CheckWriteFull, Rollback, Flush, Hiccup, Write, endvars
<1>4. CASE \E delay_ \in BOOLEAN : Terminate(e, delay_)
  BY <1>1, <1>4, Zenon DEF Terminate, AckAndTerminate, AsksPeer
<1>5. CASE TerminateDelimiter(e)
  BY <1>1, <1>5, Zenon DEF TerminateDelimiter
<1>6. CASE ProcessActivateRead(e) \/ ProcessActivateWrite(e) \/ ProcessHiccup(e)
  BY <1>6, Zenon DEF ProcessActivateRead, ProcessActivateWrite, ProcessHiccup
<1>7. CASE ProcessPipeTerm(e)
  BY <1>1, <1>7, Zenon DEF ProcessPipeTerm, AckAndTerminate
<1>8. CASE ProcessPipeTermAck(e)
  BY <1>1, <1>8, Zenon DEF ProcessPipeTermAck
<1> QED BY <1>2, <1>3, <1>4, <1>5, <1>6, <1>7, <1>8, ZenonT(40) DEF StepOf, ReadAny, Process

(* Reading, before the first hiccup: what the end reads next is the next   *)
(* message its peer wrote; the delimiter comes when all were read.         *)
LEMMA ReadsNext ==
  ASSUME IInv, allocated = 2, BeforeHiccup, NEW e \in End, Readable(e), HasItem(e)
  PROVE  LET s == items[e] IN
         /\ inpipe[e] = e /\ e \in PipeId /\ outpipe[Peer(e)] # NoPipe
         /\ s \in Seq(Item) /\ s # << >> /\ Head(s) = s[1]
         /\ s[1] = Delimiter => /\ msgs_read[e] = msgs_written[Peer(e)]
                                /\ Tail(s) = << >>
                                /\ HasDelimiter(s)
                                /\ Consecutive(Tail(s), msgs_read[e], msgs_written[Peer(e)])
         /\ s[1] # Delimiter =>
              /\ s[1].n = msgs_read[e]
              /\ Consecutive(Tail(s), msgs_read[e] + (IF s[1].more THEN 0 ELSE 1),
                             msgs_written[Peer(e)])
         /\ HasDelimiter(Tail(s)) => HasDelimiter(s)
<1> DEFINE p == Peer(e)
           s == items[e]
<1>1. /\ p \in End /\ Peer(p) = e /\ inpipe[e] = e /\ inpipe[e] \in PipeId
      /\ state[e] \in {"active", "pending"}
      /\ published[e] \in Nat /\ published[e] > 0 /\ published[e] <= Len(s)
      /\ s \in Seq(Item) /\ msgs_read[e] \in Nat /\ msgs_written[p] \in Nat
  <2>1. TypeOK /\ Published
    BY DEF IInv
  <2>2. inpipe[e] = e
    BY Zenon DEF BeforeHiccup
  <2>3. state[e] \in {"active", "pending"} /\ published[inpipe[e]] > 0
    BY Zenon DEF Readable, HasItem
  <2>4. p \in End /\ Peer(p) = e
    BY Peers, Zenon
  <2> HIDE DEF p
  <2>5. /\ inpipe[e] \in PipeId /\ items \in [PipeId -> Seq(Item)]
        /\ published \in [PipeId -> Nat] /\ msgs_read[e] \in Nat /\ msgs_written[p] \in Nat
    BY <2>1, <2>4, Zenon DEF TypeOK
  <2>6. published[e] <= Len(s)
    BY <2>1, <2>2, <2>5 DEF Published
  <2> QED BY <2>2, <2>3, <2>4, <2>5, <2>6
<1>2. state[p] \notin {"terminating", "double_terminated", "gone"}
  BY <1>1 DEF IInv, Handshake, Joint, PeerStates
<1>3. outpipe[p] # NoPipe
  BY <1>1, <1>2, Zenon DEF IInv, Ends
<1>4. Consecutive(s, msgs_read[e], msgs_written[p])
  BY <1>1, <1>3, ZenonT(40) DEF BeforeHiccup
<1> HIDE DEF s, p
<1>5. s # << >> /\ Len(s) \in Nat /\ 1 \in 1 .. Len(s) /\ Head(s) = s[1]
  BY ONLY <1>1
<1>6. s[1] = Delimiter => HasDelimiter(s)
  BY <1>5, Zenon DEF HasDelimiter
<1>7. HasDelimiter(Tail(s)) => HasDelimiter(s)
  <2>1. \A i \in 1 .. Len(Tail(s)) : i + 1 \in 1 .. Len(s) /\ Tail(s)[i] = s[i + 1]
    BY <1>1, <1>5
  <2> QED BY <2>1, Zenon DEF HasDelimiter
<1>8. /\ s[1] = Delimiter => /\ msgs_read[e] = msgs_written[p] /\ Tail(s) = << >>
                             /\ Consecutive(Tail(s), msgs_read[e], msgs_written[p])
      /\ s[1] # Delimiter =>
           /\ s[1].n = msgs_read[e]
           /\ Consecutive(Tail(s), msgs_read[e] + (IF s[1].more THEN 0 ELSE 1), msgs_written[p])
  BY ONLY <1>1, <1>4, <1>5, ConsecutiveTail
<1> QED BY <1>1, <1>3, <1>5, <1>6, <1>7, <1>8, ZenonT(40) DEF s, p

(* An end that reads the delimiter has read everything. *)
LEMMA DelimitedStep ==
  ASSUME IInv, IInv', allocated = 2, BeforeHiccup, NEW e \in End, StepOf(e), NEW d \in End,
         state'[d] = "delimited"
  PROVE  msgs_read'[d] = msgs_written'[Peer(d)] /\ state'[Peer(d)] = "terminated"
<1>1. /\ Peer(d) \in End /\ Peer(d) # d /\ Peer(Peer(d)) = d
      /\ d = e \/ d = Peer(e)
      /\ state \in [End -> State] /\ msgs_read \in [End -> Nat] /\ msgs_written \in [End -> Nat]
  BY Peers, Zenon DEF IInv, TypeOK, End, Peer
<1>2. state'[Peer(d)] \in {"active", "delimited", "terminated"}
  BY Zenon DEF IInv, Handshake, Joint, PeerStates
<1>3. CASE state[d] = "delimited"
  <2>1. msgs_read[d] = msgs_written[Peer(d)] /\ state[Peer(d)] = "terminated"
    BY <1>3 DEF BeforeHiccup
  <2>2. state'[Peer(d)] = "terminated"
    <3>1. CASE d = e
      BY <2>1, <3>1, StateMoves
    <3>2. CASE Peer(d) = e
      BY <1>2, <2>1, <3>2, StateMoves
    <3> QED BY <1>1, <3>1, <3>2, Peers
  <2>3. msgs_read'[d] = msgs_read[d]
    <3>1. CASE Read(e)
      <4>1. d # e
        BY <1>3, <3>1 DEF Read, Readable
      <4> QED BY <1>1, <3>1, <4>1 DEF Read
    <3>2. CASE ~Read(e)
      BY <3>2, StepKeeps
    <3> QED BY <3>1, <3>2, Zenon
  <2>4. msgs_written'[Peer(d)] = msgs_written[Peer(d)]
    <3>1. ASSUME NEW more \in BOOLEAN, Write(e, more)
          PROVE  msgs_written'[Peer(d)] = msgs_written[Peer(d)]
      <4>1. Peer(d) # e
        BY <2>1, <3>1, Zenon DEF Write, Writable
      <4> QED BY <1>1, <3>1, <4>1, Zenon DEF Write
    <3> QED BY <3>1, StepKeeps, Zenon
  <2> QED BY <2>1, <2>2, <2>3, <2>4
<1>4. CASE state[d] # "delimited"
  <2>1. d = e /\ ReadDelimiter(e) /\ state[e] = "active"
    <3>1. d = e
      BY <1>1, <1>4, StateMoves
    <3> QED BY <1>4, <3>1, StateMoves
  <2>2. /\ Readable(e) /\ HasItem(e) /\ Head(items[inpipe[e]]) = Delimiter
        /\ msgs_read' = msgs_read /\ msgs_written' = msgs_written
    BY <2>1, Zenon DEF ReadDelimiter
  <2>3. /\ msgs_read[e] = msgs_written[Peer(e)] /\ HasDelimiter(items[e])
        /\ outpipe[Peer(e)] # NoPipe
    BY <2>2, ReadsNext, Zenon
  <2>4. state[Peer(e)] \in {"terminated", "pending"}
    BY <1>1, <2>1, <2>3 DEF BeforeHiccup
  <2>5. state'[Peer(e)] = "terminated"
    BY <1>2, <2>1, <2>4, StateMoves, Zenon
  <2> QED BY <2>1, <2>2, <2>3, <2>5, Zenon
<1> QED BY <1>3, <1>4, Zenon

(* No message is lost or doubled before the first hiccup. *)
LEMMA ConsecutiveStep ==
  ASSUME IInv, IInv', allocated = 2, BeforeHiccup, NEW e \in End, StepOf(e),
         ~ProcessHiccup(e), NEW d \in End, outpipe'[d] # NoPipe
  PROVE  /\ Consecutive(items'[Peer(d)], msgs_read'[Peer(d)], msgs_written'[d])
         /\ HasDelimiter(items'[Peer(d)]) =>
              state'[d] \in {"terminated", "pending"} /\ pc'[d] = "idle"
<1> DEFINE p == Peer(e)
           x == Peer(d)
<1>1. /\ p \in End /\ p # e /\ Peer(p) = e /\ x \in End /\ x # d /\ Peer(x) = d
      /\ (d = e /\ x = p) \/ (d = p /\ x = e)
      /\ state \in [End -> State] /\ items \in [PipeId -> Seq(Item)]
      /\ outpipe \in [End -> PipeId \cup {NoPipe}]
      /\ msgs_read[x] \in Nat /\ msgs_written[d] \in Nat
      /\ pc \in [End -> {"idle", "delimiter"}]
      /\ e \in PipeId /\ p \in PipeId /\ x \in PipeId
  <2>1. TypeOK
    BY DEF IInv
  <2>2. \A y \in End : y \in PipeId
    BY PipeAssumption DEF End, PipeId
  <2>3. d = e \/ d = p
    BY DEF End, Peer
  <2>4. p \in End /\ p # e /\ Peer(p) = e /\ x \in End /\ x # d /\ Peer(x) = d
    BY Peers
  <2> HIDE DEF p, x
  <2>5. (d = e /\ x = p) \/ (d = p /\ x = e)
    BY <2>3, <2>4 DEF p, x
  <2> QED BY <2>1, <2>2, <2>4, <2>5, Zenon DEF TypeOK
<1>2. outpipe[d] # NoPipe
  <2>1. CASE Quiet(e)
    BY <2>1, QuietKeeps, Zenon
  <2>2. CASE ReadDelimiter(e) \/ Read(e)
    BY <1>1, <2>2, Zenon DEF ReadDelimiter, Read, AckAndTerminate
  <2>3. CASE \E more \in BOOLEAN : Write(e, more)
    BY <2>3, Zenon DEF Write
  <2>4. CASE Rollback(e) \/ TerminateDelimiter(e)
    BY <2>4, CutIs, Zenon
  <2>5. CASE ProcessPipeTermAck(e)
    BY <1>1, <2>5, Zenon DEF ProcessPipeTermAck
  <2> QED BY <2>1, <2>2, <2>3, <2>4, <2>5, StepCases
<1>3. /\ outpipe[d] = x /\ inpipe[d] = d
      /\ Consecutive(items[x], msgs_read[x], msgs_written[d])
      /\ HasDelimiter(items[x]) => state[d] \in {"terminated", "pending"} /\ pc[d] = "idle"
  BY <1>2, Zenon DEF BeforeHiccup
<1>4. state[d] \in {"terminated", "pending"} => state'[d] \in {"terminated", "pending"}
  <2>1. state'[d] \notin {"terminating", "double_terminated", "gone"}
    BY Zenon DEF IInv, Ends
  <2>2. CASE d = e
    BY <2>1, <2>2, StateMoves, Zenon
  <2>3. CASE d = p
    BY <2>3, StateMoves, Zenon
  <2> QED BY <1>1, <2>2, <2>3, Zenon
<1>5. CASE Quiet(e)
  <2>1. items' = items /\ msgs_read' = msgs_read /\ msgs_written' = msgs_written
    BY <1>5, QuietKeeps, Zenon
  <2>2. HasDelimiter(items[x]) => pc'[d] = "idle"
    <3> SUFFICES ASSUME HasDelimiter(items[x]) PROVE pc'[d] = "idle"
      BY Zenon
    <3>1. state[d] \in {"terminated", "pending"} /\ pc[d] = "idle"
      BY <1>3, Zenon
    <3>2. CASE d = p
      BY <3>1, <3>2, StateMoves, Zenon
    <3>3. ASSUME d = e, NEW delay_ \in BOOLEAN, Terminate(e, delay_)
          PROVE  pc'[d] = "idle"
      <4>1. PICK i \in 1 .. Len(items[x]) : items[x][i] = Delimiter
        BY Zenon DEF HasDelimiter
      <4>2. items[x] \in Seq(Item) /\ i \in DOMAIN items[outpipe[e]]
        <5>1. items[x] \in Seq(Item) /\ outpipe[e] = x
          BY <1>1, <1>3, <3>3, Zenon
        <5>2. i \in DOMAIN items[x]
          BY ONLY <4>1, <5>1
        <5> QED BY <5>1, <5>2, Zenon
      <4>3. items[outpipe[e]][i] = Delimiter
        BY <1>3, <3>3, <4>1, Zenon
      <4> QED BY <1>1, <3>1, <3>3, <4>2, <4>3, Zenon DEF Terminate, AsksPeer
    <3>4. CASE ~\E delay_ \in BOOLEAN : Terminate(e, delay_)
      BY <1>5, <3>1, <3>4, Zenon DEF Quiet, ReadEmpty, CheckWriteFull, Flush, Hiccup, endvars,
           ProcessActivateRead, ProcessActivateWrite, ProcessPipeTerm
    <3> QED BY <1>1, <3>2, <3>3, <3>4, Zenon
  <2> QED BY <1>3, <1>4, <2>1, <2>2
<1>6. CASE ReadDelimiter(e) \/ Read(e)
  <2>1. /\ Readable(e) /\ HasItem(e) /\ Pop(inpipe[e]) /\ msgs_written' = msgs_written
        /\ pc' = pc
    BY <1>6, Zenon DEF ReadDelimiter, Read
  <2>2. /\ inpipe[e] = e /\ items'[e] = Tail(items[e])
        /\ \A y \in PipeId \ {e} : items'[y] = items[y]
    <3>1. inpipe[e] = e
      BY <2>1, ReadsNext, Zenon
    <3>2. /\ items'[inpipe[e]] = Tail(items[inpipe[e]])
          /\ \A y \in PipeId \ {inpipe[e]} : items'[y] = items[y]
      BY <2>1, PopIs, Zenon
    <3> QED BY <3>1, <3>2, Zenon
  <2>3. CASE d = e
    <3>1. items'[p] = items[p]
      BY <1>1, <2>2, Zenon
    <3>2. msgs_read'[p] = msgs_read[p]
      BY <1>6, ReadIs, Zenon DEF ReadDelimiter
    <3> QED BY <1>1, <1>3, <1>4, <2>1, <2>3, <3>1, <3>2, Zenon
  <2>4. CASE d = p
    <3> DEFINE s == items[e]
    <3>1. Head(s) = s[1] /\ (HasDelimiter(Tail(s)) => HasDelimiter(s))
      BY <2>1, ReadsNext
    <3>2. Consecutive(Tail(s), msgs_read'[e], msgs_written[p])
      <4>1. CASE ReadDelimiter(e)
        <5>1. s[1] = Delimiter /\ msgs_read' = msgs_read
          BY <2>2, <3>1, <4>1, Zenon DEF ReadDelimiter
        <5> QED BY <2>1, <5>1, ReadsNext, Zenon
      <4>2. CASE Read(e)
        <5>1. s[1] # Delimiter
          BY <2>2, <3>1, <4>2, Zenon DEF Read
        <5>2. msgs_read'[e] = msgs_read[e] + (IF Head(items[inpipe[e]]).more THEN 0 ELSE 1)
          BY <4>2, ReadIs, Zenon
        <5>3. msgs_read'[e] = msgs_read[e] + (IF s[1].more THEN 0 ELSE 1)
          BY <2>2, <3>1, <5>2, Zenon
        <5> QED BY <2>1, <5>1, <5>3, ReadsNext, ZenonT(40)
      <4> QED BY <1>6, <4>1, <4>2, Zenon
    <3> HIDE DEF s
    <3>3. HasDelimiter(Tail(s)) => state'[d] \in {"terminated", "pending"} /\ pc'[d] = "idle"
      BY <1>1, <1>3, <1>4, <2>1, <2>4, <3>1, Zenon DEF s
    <3> QED BY <1>1, <2>1, <2>2, <2>4, <3>2, <3>3, Zenon DEF s
  <2> QED BY <1>1, <2>3, <2>4, Zenon
<1>7. ASSUME NEW more \in BOOLEAN, Write(e, more)
      PROVE  /\ Consecutive(items'[x], msgs_read'[x], msgs_written'[d])
             /\ HasDelimiter(items'[x]) =>
                  state'[d] \in {"terminated", "pending"} /\ pc'[d] = "idle"
  <2> DEFINE i == [n |-> msgs_written[e], more |-> more]
             y == outpipe[e]
  <2>1. /\ y \in PipeId /\ y # NoPipe /\ items[y] \in Seq(Item)
        /\ i \in Item /\ i # Delimiter /\ i.n = msgs_written[e] /\ i.more = more
        /\ items'[y] = Append(items[y], i)
        /\ \A z \in PipeId \ {y} : items'[z] = items[z]
        /\ msgs_written'[e] = After(i) /\ msgs_written'[p] = msgs_written[p]
        /\ more => Complete(items[y]) = Len(items[y])
    BY <1>7, WriteIs, Zenon
  <2> HIDE DEF i
  <2>2. msgs_read' = msgs_read /\ state' = state /\ pc' = pc /\ state[e] = "active"
    BY <1>7, Zenon DEF Write, Writable
  <2>3. y = p
    BY <2>1, Zenon DEF BeforeHiccup
  <2>4. CASE d = e
    <3>1. ~HasDelimiter(items[y])
      <4>1. HasDelimiter(items[y]) => state[e] \in {"terminated", "pending"}
        BY <1>1, <1>3, <2>3, <2>4, Zenon
      <4> QED BY ONLY <2>2, <4>1
    <3>2. more => items[y] = << >> \/ ~items[y][Len(items[y])].more
      <4>1. items[y] \in Seq(Item) /\ (items[y] # << >> => Len(items[y]) \in Nat \ {0})
        BY <2>1, EmptyIs, Zenon
      <4>2. Complete(items[y]) > 0 => ~items[y][Complete(items[y])].more
        BY <4>1, CompleteIs, Zenon
      <4>3. more => Complete(items[y]) = Len(items[y])
        BY <2>1, Zenon
      <4> QED BY ONLY <4>1, <4>2, <4>3
    <3>3. Consecutive(Append(items[y], i), msgs_read[p], After(i))
          /\ ~HasDelimiter(Append(items[y], i))
      <4>1. /\ msgs_read[p] \in Nat /\ msgs_written[e] \in Nat
            /\ Consecutive(items[y], msgs_read[p], msgs_written[e])
        BY <1>1, <1>3, <2>3, <2>4, Zenon
      <4>2. items[y] \in Seq(Item) /\ i \in Item /\ i # Delimiter /\ i.n = msgs_written[e]
            /\ (i.more => items[y] = << >> \/ ~items[y][Len(items[y])].more)
        BY <2>1, <3>2, Zenon
      <4> QED BY ONLY <3>1, <4>1, <4>2, ConsecutiveAppend, ZenonT(40)
    <3> QED BY <1>1, <2>1, <2>2, <2>3, <2>4, <3>3, ZenonT(40)
  <2>5. CASE d = p
    BY <1>1, <1>3, <2>1, <2>2, <2>3, <2>5, Zenon
  <2> QED BY <1>1, <2>4, <2>5, Zenon
<1>8. CASE Rollback(e) \/ TerminateDelimiter(e)
  <2> DEFINE y == outpipe[e]
             c == Complete(items[y])
  <2>1. /\ y \in PipeId /\ y # NoPipe /\ items[y] \in Seq(Item) /\ items'[y] \in Seq(Item)
        /\ c \in 0 .. Len(items[y])
        /\ \A i \in 1 .. c : items'[y][i] = items[y][i]
        /\ Rollback(e) => Len(items'[y]) = c
        /\ TerminateDelimiter(e) => Len(items'[y]) = c + 1 /\ items'[y][c + 1] = Delimiter
        /\ \A z \in PipeId \ {y} : items'[z] = items[z]
        /\ msgs_read' = msgs_read /\ msgs_written' = msgs_written /\ state' = state
    BY <1>8, CutIs, Zenon
  <2>2. y = p
    BY <2>1, Zenon DEF BeforeHiccup
  <2>3. /\ c > 0 => ~items[y][c].more
        /\ \A i \in 1 .. Len(items[y]) : ~items[y][i].more => i <= c
    BY <2>1, CompleteIs, Zenon
  <2> HIDE DEF c
  <2>4. CASE d = p
    <3>1. pc'[d] = pc[d]
      BY <2>4, StateMoves, Zenon
    <3> QED BY <1>1, <1>3, <2>1, <2>2, <2>4, <3>1, ZenonT(40)
  <2>5. CASE d = e
    <3>1. Consecutive(items[y], msgs_read[p], msgs_written[e])
      BY <1>1, <1>3, <2>2, <2>5, Zenon
    <3>2. msgs_read[p] \in Nat /\ msgs_written[e] \in Nat
      BY <1>1, <2>5, Zenon
    <3>3. ASSUME NEW t \in Seq(Item), Len(t) = c, \A i \in 1 .. c : t[i] = items[y][i]
          PROVE  /\ Consecutive(t, msgs_read[p], msgs_written[e])
                 /\ HasDelimiter(t) => HasDelimiter(items[y])
      <4>1. items[y] \in Seq(Item) /\ c \in 0 .. Len(items[y])
        BY <2>1
      <4> QED BY ONLY <2>3, <3>1, <3>2, <3>3, <4>1, ConsecutiveRollback, ZenonT(40)
    <3>4. CASE Rollback(e)
      <4>1. /\ Consecutive(items'[y], msgs_read[p], msgs_written[e])
            /\ HasDelimiter(items'[y]) => HasDelimiter(items[y])
        BY <2>1, <3>3, <3>4, Zenon
      <4>2. pc' = pc
        BY <3>4, Zenon DEF Rollback, endvars
      <4> QED BY <1>1, <1>3, <2>1, <2>2, <2>5, <4>1, <4>2, Zenon
    <3>5. CASE TerminateDelimiter(e)
      <4> DEFINE t == SubSeq(items[y], 1, c)
      <4>1. pc[e] = "delimiter" /\ pc'[e] = "idle"
        BY <1>1, <3>5, Zenon DEF TerminateDelimiter
      <4>2. state[e] \in {"terminated", "pending"}
        BY <4>1, Zenon DEF IInv, Ends
      <4>3. ~HasDelimiter(items[y])
        BY <1>1, <1>3, <2>2, <2>5, <4>1, Zenon
      <4>4. t \in Seq(Item) /\ Len(t) = c /\ \A i \in 1 .. c : t[i] = items[y][i]
        BY <2>1, DelimitedIs, Zenon DEF c
      <4> HIDE DEF t
      <4>5. Consecutive(t, msgs_read[p], msgs_written[e]) /\ ~HasDelimiter(t)
        BY <3>3, <4>3, <4>4, Zenon
      <4>6. Consecutive(items'[y], msgs_read[p], msgs_written[e])
        <5>1. /\ items'[y] \in Seq(Item) /\ Len(items'[y]) = Len(t) + 1
              /\ items'[y][Len(t) + 1] = Delimiter /\ \A i \in 1 .. Len(t) : items'[y][i] = t[i]
          BY <2>1, <3>5, <4>4, Zenon
        <5> QED BY ONLY <3>2, <4>4, <4>5, <5>1, ConsecutiveDelimiter, Zenon
      <4>7. x = p /\ y = p /\ msgs_read' = msgs_read /\ msgs_written' = msgs_written
            /\ state' = state
        BY <1>1, <2>1, <2>2, <2>5, Zenon
      <4> QED BY ONLY <2>5, <4>1, <4>2, <4>6, <4>7, Zenon
    <3> QED BY <1>8, <3>4, <3>5, Zenon
  <2> QED BY <1>1, <2>4, <2>5, Zenon
<1>9. ~ProcessPipeTermAck(e)
  <2> SUFFICES ASSUME ProcessPipeTermAck(e) PROVE FALSE
    BY Zenon
  <2>1. state'[e] = "gone"
    BY <1>1, Zenon DEF ProcessPipeTermAck
  <2>2. state'[d] \in {"terminating", "double_terminated", "gone"}
    BY <1>1, <2>1, Zenon DEF IInv, Handshake, Joint, PeerStates
  <2> QED BY <2>2, Zenon DEF IInv, Ends
<1> QED BY <1>5, <1>6, <1>7, <1>8, <1>9, StepCases, Zenon

(* Together, and the ypipes are the first two. *)
LEMMA BeforeHiccupStep ==
  ASSUME IInv, IInv', BeforeHiccup, NEW e \in End, StepOf(e)
  PROVE  BeforeHiccup'
<1> SUFFICES ASSUME allocated' = 2, NEW d \in End
             PROVE  /\ inpipe'[d] = d /\ outpipe'[d] \in {Peer(d), NoPipe}
                    /\ outpipe'[d] # NoPipe =>
                         /\ Consecutive(items'[Peer(d)], msgs_read'[Peer(d)], msgs_written'[d])
                         /\ HasDelimiter(items'[Peer(d)]) =>
                              state'[d] \in {"terminated", "pending"} /\ pc'[d] = "idle"
                    /\ state'[d] = "delimited" => /\ msgs_read'[d] = msgs_written'[Peer(d)]
                                                  /\ state'[Peer(d)] = "terminated"
  BY Zenon DEF BeforeHiccup
<1>1. allocated \in Nat /\ allocated >= 2
  BY DEF IInv, TypeOK, Ownership
<1>2. allocated = 2
  <2>1. allocated' = allocated \/ allocated' = allocated + 1
    BY StepKeeps, Zenon
  <2> QED BY <1>1, <2>1
<1>3. ~Hiccup(e)
  BY <1>2 DEF Hiccup
<1>4. ~ProcessHiccup(e)
  <2> SUFFICES ASSUME ProcessHiccup(e) PROVE FALSE
    BY Zenon
  <2>1. /\ outpipe[e] # NoPipe /\ cmds[e] # << >> /\ Head(cmds[e]).type = "hiccup"
        /\ cmds[e] \in Seq(Command) /\ Peer(e) \in End
    BY Peers, Zenon DEF ProcessHiccup, Next_is, IInv, TypeOK
  <2>2. cmds[e][1] \in Command /\ 1 \in DOMAIN cmds[e] /\ Head(cmds[e]) = cmds[e][1]
    BY <2>1
  <2>3. Head(cmds[e]).pipe \in PipeId /\ Carries(cmds[e], Head(cmds[e]).pipe)
    BY <2>1, <2>2, CommandFields, Zenon DEF Carries
  <2>4. outpipe[e] < Head(cmds[e]).pipe /\ Head(cmds[e]).pipe <= inpipe[Peer(e)]
    BY <2>1, <2>3, Zenon DEF IInv, Ownership, Chain
  <2>5. outpipe[e] = Peer(e) /\ inpipe[Peer(e)] = Peer(e)
    BY <1>2, <2>1, Zenon DEF BeforeHiccup
  <2> QED BY <2>3, <2>4, <2>5 DEF PipeId, Peer, End
<1>5. /\ inpipe[d] = d /\ outpipe[d] \in {Peer(d), NoPipe}
  BY <1>2, Zenon DEF BeforeHiccup
<1>6. inpipe' = inpipe
  <2>1. CASE ReadAny(e)
    BY <2>1, Zenon DEF ReadAny, ReadEmpty, ReadDelimiter, Read
  <2>2. CASE CheckWriteFull(e) \/ Rollback(e) \/ Flush(e) \/ \E more \in BOOLEAN : Write(e, more)
    BY <2>2, Zenon DEF CheckWriteFull, Rollback, Flush, Write, endvars
  <2>3. CASE (\E delay_ \in BOOLEAN : Terminate(e, delay_)) \/ TerminateDelimiter(e)
    BY <2>3 DEF Terminate, TerminateDelimiter
  <2>4. CASE Process(e)
    BY <2>4, Zenon DEF Process, ProcessActivateRead, ProcessActivateWrite, ProcessHiccup,
         ProcessPipeTerm, ProcessPipeTermAck
  <2> QED BY <1>3, <2>1, <2>2, <2>3, <2>4, Zenon DEF StepOf
<1>7. outpipe'[d] \in {outpipe[d], NoPipe}
  <2>1. outpipe \in [End -> PipeId \cup {NoPipe}]
    BY Zenon DEF IInv, TypeOK
  <2>2. CASE Quiet(e)
    BY <2>2, QuietKeeps, Zenon
  <2>3. CASE ReadDelimiter(e) \/ Read(e)
    BY <2>1, <2>3, Zenon DEF ReadDelimiter, Read, AckAndTerminate
  <2>4. CASE \E more \in BOOLEAN : Write(e, more)
    BY <2>4, Zenon DEF Write
  <2>5. CASE Rollback(e) \/ TerminateDelimiter(e)
    BY <2>5, CutIs, Zenon
  <2>6. CASE ProcessPipeTermAck(e)
    BY <2>1, <2>6, Zenon DEF ProcessPipeTermAck
  <2> QED BY <1>4, <2>2, <2>3, <2>4, <2>5, <2>6, StepCases, ZenonT(40)
<1>8. outpipe'[d] # NoPipe =>
        /\ Consecutive(items'[Peer(d)], msgs_read'[Peer(d)], msgs_written'[d])
        /\ HasDelimiter(items'[Peer(d)]) =>
             state'[d] \in {"terminated", "pending"} /\ pc'[d] = "idle"
  BY <1>2, <1>4, ConsecutiveStep, Zenon
<1>9. state'[d] = "delimited" => /\ msgs_read'[d] = msgs_written'[Peer(d)]
                                 /\ state'[Peer(d)] = "terminated"
  BY <1>2, DelimitedStep
<1> QED BY <1>5, <1>6, <1>7, <1>8, <1>9, ZenonT(40)
-----------------------------------------------------------------------------
(* The invariant *)

LEMMA FInvInit == IInv /\ Init => FInv
<1> SUFFICES ASSUME IInv, Init PROVE FInv
  BY Zenon
<1>1. IInv
  OBVIOUS
<1>2. /\ \A e \in End : /\ Peer(e) \in End /\ Peer(e) # e /\ Peer(Peer(e)) = e
                        /\ msgs_read[e] = 0 /\ msgs_written[e] = 0 /\ peers_msgs_read[e] = 0
                        /\ cmds[e] = << >> /\ inpipe[e] = e /\ outpipe[e] = Peer(e)
                        /\ state[e] = "active" /\ in_active[e] /\ out_active[e]
      /\ \A x \in PipeId : items[x] = << >> /\ published[x] = 0 /\ ~sleeping[x]
      /\ \A e \in End : e \in PipeId
      /\ allocated = 2
  BY Peers, PipeAssumption DEF Init, End, PipeId
<1>3. Numbering
  BY <1>2 DEF Numbering, Numbered
<1>4. NewPipesEmpty
  BY <1>2, Zenon DEF NewPipesEmpty
<1>5. Reports
  BY <1>2 DEF Reports, Reported
<1>6. LowWater
  <2> SUFFICES ASSUME NEW e \in End, Hwm[e] > 0
               PROVE  LastReport(<< >>, 0, 0, lwm(Peer(e)))
    BY <1>2 DEF LowWater
  <2>1. lwm(Peer(e)) \in Nat \ {0}
    BY <1>1, LwmIs, Zenon
  <2>2. 0 % lwm(Peer(e)) = 0 /\ 0 < 0 + lwm(Peer(e)) /\ 0 \in 0 .. 0
    BY <2>1
  <2> QED BY <2>2 DEF LastReport
<1>7. HighWater
  <2>1. \A e \in End : Hwm[e] \in Nat
    BY PipeAssumption, Zenon DEF Init, SettingType, Hwm
  <2> QED BY <1>2, <2>1 DEF HighWater
<1>8. Wakeups
  BY <1>2, Zenon DEF Wakeups
<1>9. BeforeHiccup
  <2>1. \A a : Consecutive(<< >>, a, a) /\ ~HasDelimiter(<< >>)
    BY DEF Consecutive, HasDelimiter
  <2> QED BY <1>2, <2>1 DEF BeforeHiccup
<1> QED BY <1>1, <1>3, <1>4, <1>5, <1>6, <1>7, <1>8, <1>9 DEF FInv

(* Every step keeps the invariant. *)
LEMMA FInvStep == FInv /\ IInv' /\ [Next]_vars => FInv'
<1>1. ASSUME FInv, IInv', UNCHANGED vars PROVE FInv'
  <2>1. IInv'
    BY <1>1
  <2>2. Numbering' /\ NewPipesEmpty' /\ Reports'
    BY <1>1, Zenon DEF FInv, vars, endvars, pipevars, Numbering, NewPipesEmpty, Reports
  <2>3. LowWater' /\ HighWater'
    BY <1>1, Zenon DEF FInv, vars, endvars, pipevars, LowWater, HighWater, Full, Hwm, lwm
  <2>4. Wakeups' /\ BeforeHiccup'
    BY <1>1 DEF FInv, vars, endvars, pipevars, Wakeups, BeforeHiccup, InTransit
  <2> QED BY <2>1, <2>2, <2>3, <2>4 DEF FInv
<1>2. ASSUME FInv, IInv', Next PROVE FInv'
  <2>1. IInv /\ IInv'
    BY <1>2, Zenon DEF FInv
  <2>2. PICK e \in End : StepOf(e)
    BY <1>2, Zenon DEF Next, StepOf
  <2>3. Numbering' /\ NewPipesEmpty'
    BY <1>2, <2>1, <2>2, NumberingStep, NewPipesStep, Zenon DEF FInv
  <2>4. Reports' /\ LowWater' /\ HighWater'
    BY <1>2, <2>1, <2>2, ReportsStep, LowWaterStep, HighWaterStep, ZenonT(40) DEF FInv
  <2>5. Wakeups' /\ BeforeHiccup'
    BY <1>2, <2>1, <2>2, WakeupsStep, BeforeHiccupStep DEF FInv
  <2> QED BY <2>1, <2>3, <2>4, <2>5 DEF FInv
<1> QED BY <1>1, <1>2, Zenon
=============================================================================
