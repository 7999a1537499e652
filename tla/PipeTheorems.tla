---------------------------- MODULE PipeTheorems ----------------------------
(***************************************************************************)
(* The theorems about a pair of pipe_t objects, for all settings, any      *)
(* number of messages and any number of hiccups.  PipeProofs and           *)
(* PipeFlowProofs show that every step keeps the invariants IInv and FInv. *)
(***************************************************************************)
EXTENDS PipeProofs, PipeFlowProofs, FiniteSetTheorems

(* A set of naturals that has an upper bound has a greatest element. *)
LEMMA Greatest ==
  ASSUME NEW S, S \subseteq Nat, S # {}, NEW n \in Nat, \A x \in S : x <= n
  PROVE  \E x \in S : \A y \in S : y <= x
<1> DEFINE T == {n - x : x \in S}
           R == OpToRel(<, Nat)
<1>1. T \subseteq Nat /\ T # {}
  <2>1. \A x \in S : n - x \in Nat
    OBVIOUS
  <2> QED BY ONLY <2>1, S # {}
<1>2. IsWellFoundedOn(R, Nat)
  BY NatLessThanWellFounded
<1>3. \E t \in T : \A u \in T : ~(<<u, t>> \in R)
  <2> HIDE DEF R, T
  <2> QED BY <1>1, <1>2, WFMin
<1>4. \A u, t \in Nat : <<u, t>> \in R <=> u < t
  BY DEF OpToRel
<1>5. PICK t \in T : \A u \in T : ~(u < t)
  <2> HIDE DEF R
  <2> QED BY <1>1, <1>3, <1>4
<1>6. PICK x \in S : t = n - x
  BY <1>5
<1>7. \A y \in S : n - y \in T
  OBVIOUS
<1>8. \A y \in S : ~(n - y < n - x)
  <2> HIDE DEF T
  <2> QED BY <1>5, <1>6, <1>7
<1> QED BY <1>6, <1>8

(* Complete: the position of the last end of a message. *)
LEMMA CompleteOf ==
  ASSUME NEW s \in Seq(Item)
  PROVE  /\ Complete(s) \in 0 .. Len(s)
         /\ Complete(s) > 0 => ~s[Complete(s)].more
         /\ \A i \in 1 .. Len(s) : ~s[i].more => i <= Complete(s)
<1> DEFINE S == {0} \cup {i \in DOMAIN s : ~s[i].more}
<1>1. S \subseteq Nat /\ S # {} /\ Len(s) \in Nat /\ \A x \in S : x <= Len(s)
  OBVIOUS
<1>2. \E x \in S : \A y \in S : y <= x
  <2> HIDE DEF S
  <2> QED BY <1>1, Greatest
<1>3. \E x \in S : \A y \in S : x >= y
  <2> HIDE DEF S
  <2> QED BY <1>1, <1>2
<1>4. Max(S) \in S /\ \A y \in S : Max(S) >= y
  <2> HIDE DEF S
  <2> QED BY <1>3 DEF Max
<1>5. Complete(s) = Max(S)
  BY DEF Complete
<1> QED BY <1>4, <1>5

(* Complete is defined by a greatest position, which exists. *)
LEMMA CompleteFound == CompleteFinds
BY CompleteOf DEF CompleteFinds

(* The numbers of the messages in a ypipe are different. *)
LEMMA UnreadBound ==
  ASSUME NEW s \in Seq(Item), NEW a \in Nat, NEW b \in Nat, Numbered(s, a, b)
  PROVE  LET U == {i \in DOMAIN s : s[i] # Delimiter /\ ~s[i].more}
         IN  Cardinality(U) \in Nat /\ Cardinality(U) <= b - a
<1> DEFINE U == {i \in DOMAIN s : s[i] # Delimiter /\ ~s[i].more}
           T == a .. b - 1
           f == [i \in U |-> s[i].n]
<1>1. /\ DOMAIN s = 1 .. Len(s) /\ Len(s) \in Nat /\ a <= b
      /\ \A i \in 1 .. Len(s) : s[i] \in Item
  BY DEF Numbered
<1>2. \A i \in U : i \in 1 .. Len(s) /\ s[i].n \in Nat /\ After(s[i]) = s[i].n + 1
  BY <1>1, ItemFacts
<1>3. \A i \in U : s[i].n \in T
  BY <1>2 DEF Numbered
<1>4. \A i, j \in U : i < j => s[i].n < s[j].n
  <2>1. \A i, j \in U : i < j => After(s[i]) <= s[j].n
    BY <1>2 DEF Numbered
  <2> QED BY <1>2, <2>1
<1>5. \A i, j \in U : s[i].n = s[j].n => i = j
  <2>1. \A i, j \in U : i # j => i < j \/ j < i
    BY <1>2
  <2> HIDE DEF U
  <2> QED BY <1>2, <1>4, <2>1
<1>6. f \in Injection(U, T)
  <2> HIDE DEF U, T
  <2>1. f \in [U -> T]
    BY <1>3
  <2> QED BY <1>5, <2>1 DEF Injection, IsInjective
<1>7. IsFiniteSet(T) /\ Cardinality(T) = b - a
  <2>1. PICK d \in Int : d = b - 1
    OBVIOUS
  <2>2. IsFiniteSet(a .. d) /\ Cardinality(a .. d) = IF a > d THEN 0 ELSE d - a + 1
    BY FS_Interval
  <2>3. (IF a > d THEN 0 ELSE d - a + 1) = b - a
    BY <1>1, <2>1
  <2> QED BY <2>1, <2>2, <2>3
<1>8. IsFiniteSet(U) /\ Cardinality(U) <= Cardinality(T)
  <2> HIDE DEF U, T, f
  <2> QED BY <1>6, <1>7, FS_Injection
<1>9. Cardinality(U) \in Nat
  <2> HIDE DEF U
  <2> QED BY <1>8, FS_CardinalityType
<1> HIDE DEF U, T
<1>10. Cardinality(U) \in Nat /\ Cardinality(U) <= b - a
  BY <1>7, <1>8, <1>9
<1> QED BY <1>10 DEF U
-----------------------------------------------------------------------------
(* The handshake keeps its invariant in every behaviour. *)
THEOREM Invariance == Spec => []IInv
BY CompleteFound, IInvInit, IInvStep, PTL DEF Spec

(* The two ends of a pipe part cleanly (pipe.cpp: terminate, delimit,      *)
(* process_pipe_term, process_pipe_term_ack, hiccup, process_hiccup): no   *)
(* command reaches a deallocated pipe_t, the handlers' assertions hold,    *)
(* every ypipe is deleted exactly once.                                    *)
THEOREM EndsPartCleanly == Spec => []CleanEnd
BY Invariance, CleanFromIInv, PTL

(* The messages, reports and wake-ups keep their invariant in every        *)
(* behaviour.                                                              *)
THEOREM FlowInvariance == Spec => []FInv
BY Invariance, FInvInit, FInvStep, PTL DEF Spec
-----------------------------------------------------------------------------
(* What follows from it *)

LEMMA FlowFromFInv == FInv => FlowControl
<1> SUFFICES ASSUME FInv PROVE FlowControl
  OBVIOUS
<1>1. IInv /\ Numbering /\ Reports /\ LowWater /\ HighWater /\ Wakeups /\ BeforeHiccup
  BY DEF FInv
<1>2. ASSUME NEW e \in End
      PROVE  /\ Peer(e) \in End /\ msgs_read[Peer(e)] \in Nat /\ msgs_written[e] \in Nat
             /\ peers_msgs_read[e] \in Nat /\ cmds[e] \in Seq(Command)
             /\ outpipe[e] # NoPipe => items[outpipe[e]] \in Seq(Item)
             /\ peers_msgs_read[e] <= msgs_read[Peer(e)]
             /\ msgs_read[Peer(e)] <= msgs_written[e]
             /\ Hwm[e] \in Nat
             /\ Hwm[e] > 0 => msgs_written[e] - peers_msgs_read[e] <= Hwm[e]
  <2>1. setting \in SettingType
    BY <1>1, PipeAssumption DEF IInv, TypeOK
  <2> QED BY <1>1, <2>1, Peers DEF IInv, TypeOK, Reports, Reported, Numbering, HighWater,
                                SettingType, Hwm
<1>3. HwmIsHardLimit
  <2> SUFFICES ASSUME NEW e \in End
               PROVE  /\ 0 <= msgs_written[e] - peers_msgs_read[e]
                      /\ Hwm[e] > 0 =>
                           /\ msgs_written[e] - peers_msgs_read[e] <= Hwm[e]
                           /\ outpipe[e] # NoPipe => Cardinality(Unread(e)) <= Hwm[e]
    BY DEF HwmIsHardLimit
  <2>1. ASSUME outpipe[e] # NoPipe
        PROVE  /\ Cardinality(Unread(e)) \in Nat
               /\ Cardinality(Unread(e)) <= msgs_written[e] - msgs_read[Peer(e)]
    <3>1. Numbered(items[outpipe[e]], msgs_read[Peer(e)], msgs_written[e])
      BY <1>1, <2>1 DEF Numbering
    <3> QED BY <1>2, <2>1, <3>1, UnreadBound DEF Unread
  <2> QED BY <1>2, <2>1
<1>4. WriterNotStuck
  <2> SUFFICES ASSUME NEW e \in End, ~Hiccuped, state[e] = "active", state[Peer(e)] = "active",
                      Full(e) \/ ~out_active[e]
               PROVE  /\ Full(e)
                      /\ Unread(e) # {} \/ \E i \in DOMAIN cmds[e] :
                                             /\ cmds[e][i].type = "activate_write"
                                             /\ cmds[e][i].msgs_read > peers_msgs_read[e]
    BY DEF WriterNotStuck
  <2>1. Full(e)
    BY <1>1 DEF HighWater
  <2>2. Hwm[e] > 0 /\ msgs_written[e] - peers_msgs_read[e] = Hwm[e]
    BY <2>1 DEF Full
  <2>3. ASSUME Unread(e) = {},
               ~\E i \in DOMAIN cmds[e] : /\ cmds[e][i].type = "activate_write"
                                          /\ cmds[e][i].msgs_read > peers_msgs_read[e]
        PROVE  FALSE
    <3> DEFINE s == items[Peer(e)]
    <3>1. allocated = 2 /\ outpipe[e] # NoPipe
      <4>1. allocated \in Nat /\ allocated \in 2 .. MaxHiccups + 2 /\ ~(allocated > 2)
        BY <1>1 DEF Hiccuped, IInv, TypeOK, Ownership
      <4>2. outpipe[e] # NoPipe
        BY <1>1 DEF IInv, Ends
      <4> QED BY ONLY <4>1, <4>2, PipeAssumption
    <3>2. /\ outpipe[e] = Peer(e) /\ s \in Seq(Item) /\ ~HasDelimiter(s)
          /\ Consecutive(s, msgs_read[Peer(e)], msgs_written[e])
      BY <1>1, <1>2, <3>1 DEF BeforeHiccup
    <3>3. \A i \in 1 .. Len(s) : s[i].more
      <4>1. \A i \in 1 .. Len(s) : i \in DOMAIN items[outpipe[e]] /\ s[i] # Delimiter
        BY <3>2 DEF HasDelimiter
      <4> QED BY <2>3, <3>2, <4>1 DEF Unread
    <3>4. msgs_read[Peer(e)] = msgs_written[e]
      BY <1>2, <3>2, <3>3, NoneUnread
    <3> DEFINE l == lwm(Peer(e))
    <3>5. l \in Nat \ {0} /\ l <= Hwm[e]
      BY <1>1, <2>2, LwmIs
    <3>6. LastReport(cmds[e], peers_msgs_read[e], msgs_read[Peer(e)], l)
      BY <1>1, <2>2 DEF LowWater
    <3> HIDE DEF l
    <3>7. \A i \in 1 .. Len(cmds[e]) :
            IsReport(cmds[e][i]) => ~(cmds[e][i].msgs_read > peers_msgs_read[e])
      <4>1. \A i \in 1 .. Len(cmds[e]) : i \in DOMAIN cmds[e]
        BY <1>2
      <4> QED BY <2>3, <4>1 DEF IsReport
    <3>8. msgs_read[Peer(e)] < peers_msgs_read[e] + l
      BY <1>2, <3>5, <3>6, <3>7, NothingNew
    <3> QED BY <1>2, <2>2, <3>4, <3>5, <3>8
  <2> QED BY <2>1, <2>3
<1>5. ReaderNotStuck
  <2> SUFFICES ASSUME NEW e \in End, state[e] \in {"active", "pending"}, ~in_active[e],
                      published[inpipe[e]] > 0
               PROVE  InTransit(e, "activate_read")
    BY DEF ReaderNotStuck
  <2>1. inpipe[e] \in PipeId
    BY <1>1 DEF IInv, TypeOK
  <2>2. ~sleeping[inpipe[e]]
    BY <1>1, <2>1 DEF Wakeups
  <2> QED BY <1>1, <2>2 DEF Wakeups
<1> QED BY <1>3, <1>4, <1>5 DEF FlowControl

(* Flow control of pipe_t (check_write, write, read, flush,                *)
(* process_activate_write, process_activate_read) for every high-water     *)
(* mark, any number of messages and hiccups: at most Hwm messages are      *)
(* queued, the counters' difference never wraps around, a sleeping reader  *)
(* is woken, and until a hiccup a full writer will be told of a low-water  *)
(* mark.                                                                   *)
THEOREM FlowIsControlled == Spec => []FlowControl
BY FlowInvariance, FlowFromFInv, PTL

(* read returns the messages in the order of write, none skipped, none     *)
(* twice, until the session hiccups.                                       *)
THEOREM MessagesInOrder == Spec => ReadInOrder
<1>1. FInv => \A e \in End : (~Hiccuped /\ Read(e)) => Head(items[inpipe[e]]).n = msgs_read[e]
  <2> SUFFICES ASSUME FInv, NEW e \in End, ~Hiccuped, Read(e)
               PROVE  Head(items[inpipe[e]]).n = msgs_read[e]
    OBVIOUS
  <2>1. IInv /\ BeforeHiccup /\ allocated = 2
    BY DEF FInv, IInv, TypeOK, Ownership, Hiccuped
  <2>2. Readable(e) /\ HasItem(e) /\ Head(items[inpipe[e]]) # Delimiter
    BY DEF Read
  <2>3. /\ inpipe[e] = e /\ Head(items[e]) = items[e][1]
        /\ items[e][1] # Delimiter => items[e][1].n = msgs_read[e]
    BY <2>1, <2>2, ReadsNext
  <2> QED BY <2>2, <2>3
<1> QED BY <1>1, FlowInvariance, PTL DEF ReadInOrder

(* An end that leaves a pipe by delimit () or process_pipe_term after the  *)
(* delimiter has read every message its peer wrote, unless the session     *)
(* hiccuped: what terminate with delay promises.                           *)
THEOREM DelayDelivers == Spec => LingerDelivers
<1>1. FInv /\ [Next]_vars =>
        \A e \in End :
          (/\ state[e] # "terminating" /\ state'[e] = "terminating"
           /\ delay'[e] \/ state[e] = "delimited") =>
             (Hiccuped \/ msgs_read[e] = msgs_written[Peer(e)])
  <2> SUFFICES ASSUME FInv, [Next]_vars, NEW e \in End, ~Hiccuped,
                      state[e] # "terminating", state'[e] = "terminating",
                      delay'[e] \/ state[e] = "delimited"
               PROVE  msgs_read[e] = msgs_written[Peer(e)]
    OBVIOUS
  <2>1. IInv /\ BeforeHiccup /\ allocated = 2
    BY DEF FInv, IInv, TypeOK, Ownership, Hiccuped
  <2>2. CASE state[e] = "delimited"
    BY <2>1, <2>2 DEF BeforeHiccup
  <2>3. CASE state[e] # "delimited"
    <3>1. PICK d \in End : StepOf(d)
      BY DEF Next, StepOf, vars, endvars
    <3>2. d = e
      <4>1. d # e => e = Peer(d)
        BY DEF End, Peer
      <4> QED BY <2>1, <3>1, <4>1, StateMoves
    <3>3. state \in [End -> State] /\ delay \in [End -> BOOLEAN]
      BY <2>1 DEF IInv, TypeOK
    <3>4. CASE ReadDelimiter(e)
      <4>1. Readable(e) /\ HasItem(e) /\ Head(items[inpipe[e]]) = Delimiter
        BY <3>4 DEF ReadDelimiter
      <4> QED BY <2>1, <4>1, ReadsNext
    <3>5. CASE \E delay_ \in BOOLEAN : Terminate(e, delay_)
      BY <2>3, <3>3, <3>5 DEF Terminate, AckAndTerminate
    <3>6. CASE ProcessPipeTerm(e)
      BY <2>3, <3>3, <3>6 DEF ProcessPipeTerm, AckAndTerminate, AcksAtOnce
    <3>7. CASE ProcessPipeTermAck(e)
      BY <3>3, <3>7 DEF ProcessPipeTermAck
    <3>8. CASE state' = state
      BY <3>8
    <3>9. CASE \/ ReadEmpty(e) \/ Read(e) \/ CheckWriteFull(e) \/ Rollback(e) \/ Flush(e)
              \/ TerminateDelimiter(e) \/ Hiccup(e) \/ ProcessActivateRead(e)
              \/ ProcessActivateWrite(e) \/ ProcessHiccup(e)
              \/ \E more \in BOOLEAN : Write(e, more)
      BY <3>8, <3>9 DEF ReadEmpty, Read, CheckWriteFull, Rollback, Flush, TerminateDelimiter,
           Hiccup, ProcessActivateRead, ProcessActivateWrite, ProcessHiccup, Write, endvars
    <3> QED BY <3>1, <3>2, <3>4, <3>5, <3>6, <3>7, <3>9 DEF StepOf, ReadAny, Process
  <2> QED BY <2>2, <2>3
<1> QED BY <1>1, FlowInvariance, PTL DEF Spec, LingerDelivers
=============================================================================
