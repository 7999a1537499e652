---------------------------- MODULE QueueProofs -----------------------------
(***************************************************************************)
(* Proofs about ypipe_t, for any set of payloads and any number of items,  *)
(* and about mailbox_t, for any number of sending threads and commands.    *)
(* The second argument counts wake-up tokens: a flush that returns false   *)
(* makes one, which is first its sender's obligation to call               *)
(* signaler_send, then a unit of the eventfd's counter, and is destroyed   *)
(* by signaler_recv.                                                       *)
(***************************************************************************)
EXTENDS Mailbox, SequenceTheorems, TLAPS
-----------------------------------------------------------------------------
(* ypipe_t *)

(* Where the pointers stand with respect to each other. *)
PointerOrder ==
  /\ front <= w /\ w <= f /\ f <= Len(buf) /\ Len(buf) <= MaxItems
  /\ r # Null => front <= r /\ r <= w
  /\ r = Null => closed

(* c is Null only when the reader consumed all that was published. *)
SharedPointer ==
  /\ c # Null => c = w
  /\ c = Null => front = w

(* Who sleeps and who is owed a wake-up, while the writer is there. *)
SleepProtocol ==
  /\ ~closed => (asleep <=> (c = Null \/ owed))
  /\ ~closed => (owed => c # Null /\ front < w)
  /\ wpc = "set" => c = Null /\ w # f /\ ~closed

(* f and w stand at the end of a message. *)
MessageEnds ==
  /\ f > 0 => ~buf[f].more
  /\ w > 0 => ~buf[w].more

IInv == TypeOK /\ PointerOrder /\ SharedPointer /\ SleepProtocol /\ MessageEnds
-----------------------------------------------------------------------------
(* The prefix of a sequence. *)
LEMMA PrefixOfSeq ==
  ASSUME NEW S, NEW s \in Seq(S), NEW n \in 0 .. Len(s)
  PROVE  /\ SubSeq(s, 1, n) \in Seq(S)
         /\ Len(SubSeq(s, 1, n)) = n
         /\ \A i \in 1 .. n : SubSeq(s, 1, n)[i] = s[i]
<1>1. n \in Int /\ \A i \in 1 .. n : s[i] \in S
  OBVIOUS
<1> QED
  BY <1>1, SubSeqProperties

(* The constructor establishes the invariant. *)
LEMMA InitIInv == Init => IInv
<1> SUFFICES ASSUME Init PROVE IInv
  OBVIOUS
<1> USE MaxItemsAssumption DEF Init, Null
<1>1. TypeOK
  <2>1. buf \in Seq(Item)
    BY EmptySeq
  <2>2. 0 \in 0 .. MaxItems
    OBVIOUS
  <2> QED
    BY <2>1, <2>2 DEF TypeOK
<1>2. PointerOrder /\ SharedPointer /\ MessageEnds
  BY DEF PointerOrder, SharedPointer, MessageEnds
<1>3. SleepProtocol
  BY DEF SleepProtocol
<1> QED
  BY <1>1, <1>2, <1>3 DEF IInv

(* Every access of either thread preserves the invariant. *)
LEMMA NextIInv == IInv /\ [Next]_vars => IInv'
<1> SUFFICES ASSUME IInv, [Next]_vars PROVE IInv'
  OBVIOUS
<1> USE MaxItemsAssumption
    DEF IInv, TypeOK, PointerOrder, SharedPointer, SleepProtocol, MessageEnds,
        Null, Back
<1>1. ASSUME NEW v \in Value, NEW incomplete \in BOOLEAN, Write(v, incomplete)
      PROVE  IInv'
  BY <1>1 DEF Write, Writing, Item
<1>2. CASE Unwrite
  <2>1. Len(buf) - 1 \in 0 .. Len(buf) /\ buf' = SubSeq(buf, 1, Len(buf) - 1)
    BY <1>2 DEF Unwrite
  <2>2. /\ buf' \in Seq(Item)
        /\ Len(buf') = Len(buf) - 1
        /\ \A i \in 1 .. Len(buf) - 1 : buf'[i] = buf[i]
    BY <2>1, PrefixOfSeq
  <2> QED
    BY <1>2, <2>1, <2>2 DEF Unwrite, Writing
<1>3. CASE FlushCas
  BY <1>3 DEF FlushCas, Writing
<1>4. CASE FlushSet
  BY <1>4 DEF FlushSet
<1>5. CASE Wake
  BY <1>5 DEF Wake
<1>6. CASE Close
  BY <1>6 DEF Close, Writing
<1>7. CASE CheckReadEmpty
  BY <1>7 DEF CheckReadEmpty, Reading, Prefetched, Prefetch
<1>8. CASE CheckRead
  BY <1>8 DEF CheckRead, Reading, Prefetched, Prefetch
<1>9. CASE Read
  BY <1>9 DEF Read, Reading, Prefetched
<1>10. CASE UNCHANGED vars
  BY <1>10 DEF vars
<1> QED
  BY <1>1, <1>2, <1>3, <1>4, <1>5, <1>6, <1>7, <1>8, <1>9, <1>10 DEF Next
-----------------------------------------------------------------------------
(* The inductive invariant holds in every reachable state. *)
THEOREM Invariance == Spec => []IInv
  BY InitIInv, NextIInv, PTL DEF Spec

(* Type correctness of the pointers and flags of ypipe_t: in particular    *)
(* the reader never pops more cells than were written.                     *)
THEOREM TypeCorrect == Spec => []TypeOK
<1>1. IInv => TypeOK
  BY DEF IInv
<1> QED
  BY <1>1, Invariance, PTL

(* The reader's and the writer's cells are disjoint for any traffic, so    *)
(* the only data the two threads of ypipe_t share is the pointer c.        *)
THEOREM CellsAreDisjoint == Spec => []CellsDisjoint
<1>1. IInv => CellsDisjoint
  BY MaxItemsAssumption DEF IInv, TypeOK, PointerOrder, CellsDisjoint, Back, Null
<1> QED
  BY <1>1, Invariance, PTL

(* flush stores to c without synchronisation only when the reader is       *)
(* asleep, which is why that store needs none.                             *)
THEOREM PlainStoreIsSafe == Spec => []StoreWhileAsleep
<1>1. IInv => StoreWhileAsleep
  BY MaxItemsAssumption DEF IInv, TypeOK, SleepProtocol, StoreWhileAsleep, Null
<1> QED
  BY <1>1, Invariance, PTL

(* flush returns false exactly when the reader has to be woken up: no      *)
(* wake-up is lost and none is sent to a reader that is awake.             *)
THEOREM WakeupsAreExact == Spec => []NoLostWakeup
<1>1. IInv => NoLostWakeup
  BY MaxItemsAssumption
  DEF IInv, TypeOK, SharedPointer, SleepProtocol, PointerOrder, NoLostWakeup,
      Null
<1> QED
  BY <1>1, Invariance, PTL

(* The lock-free queue is safe for one writer and one reader. *)
THEOREM QueueIsSafe == Spec => []QueueSafe
  BY CellsAreDisjoint, PlainStoreIsSafe, WakeupsAreExact, PTL DEF QueueSafe

(* Parts of an unfinished message are never visible to the reader. *)
THEOREM OnlyWholeMessages == Spec => []WholeMessages
<1>1. IInv => WholeMessages
  BY DEF IInv, MessageEnds, WholeMessages
<1> QED
  BY <1>1, Invariance, PTL

(* check_read says "nothing to read" only when all that was flushed has    *)
(* been read, so the drain of a dying pipe leaves no flushed message.      *)
THEOREM EmptyIsDrained == Spec => EmptyMeansDrained
<1>1. IInv /\ [Next]_vars => [CheckReadEmpty => front = w]_vars
  BY MaxItemsAssumption DEF IInv, SharedPointer, CheckReadEmpty, Null
<1> QED
  BY <1>1, Invariance, PTL DEF Spec, EmptyMeansDrained
-----------------------------------------------------------------------------
(* The part of buf below w, on which the reader depends, is left alone by  *)
(* write and unwrite.                                                      *)
LEMMA WritesKeepPrefix ==
  ASSUME IInv, Unwrite \/ \E v \in Value, i \in BOOLEAN : Write(v, i)
  PROVE  SubSeq(buf', 1, w) = SubSeq(buf, 1, w)
<1> USE MaxItemsAssumption DEF IInv, TypeOK, PointerOrder, Back
<1>1. w \in 0 .. Len(buf) /\ buf \in Seq(Item)
  OBVIOUS
<1>2. /\ buf' \in Seq(Item) /\ w \in 0 .. Len(buf')
      /\ \A i \in 1 .. w : buf'[i] = buf[i]
  <2>1. CASE Unwrite
    <3>1. Len(buf) - 1 \in 0 .. Len(buf) /\ buf' = SubSeq(buf, 1, Len(buf) - 1)
      BY <2>1 DEF Unwrite
    <3>2. w <= Len(buf) - 1
      BY <2>1 DEF Unwrite
    <3> QED
      BY <1>1, <3>1, <3>2, PrefixOfSeq
  <2>2. CASE \E v \in Value, i \in BOOLEAN : Write(v, i)
    BY <1>1, <2>2 DEF Write, Item
  <2> QED
    BY <2>1, <2>2
<1>3. /\ SubSeq(buf, 1, w) \in Seq(Item) /\ SubSeq(buf', 1, w) \in Seq(Item)
      /\ Len(SubSeq(buf, 1, w)) = w /\ Len(SubSeq(buf', 1, w)) = w
      /\ \A i \in 1 .. w : SubSeq(buf', 1, w)[i] = SubSeq(buf, 1, w)[i]
  BY <1>1, <1>2, PrefixOfSeq
<1> QED
  BY <1>3, SeqEqual

(* flush publishes whole messages behind those already published. *)
LEMMA FlushPublishes ==
  ASSUME IInv, w # f, buf' = buf, w' = f, front' = front
  PROVE  Channel!Publish
<1> USE MaxItemsAssumption DEF IInv, TypeOK, PointerOrder
<1>1. w \in 0 .. Len(buf) /\ f \in 0 .. Len(buf) /\ w < f /\ buf \in Seq(Item)
  OBVIOUS
<1> DEFINE old == SubSeq(buf, 1, w)
           new == SubSeq(buf, 1, f)
<1>2. /\ old \in Seq(Item) /\ Len(old) = w
      /\ \A i \in 1 .. w : old[i] = buf[i]
  BY <1>1, PrefixOfSeq
<1>3. /\ new \in Seq(Item) /\ Len(new) = f
      /\ \A i \in 1 .. f : new[i] = buf[i]
  BY <1>1, PrefixOfSeq
<1>4. SubSeq(new, 1, w) = old
  <2> HIDE DEF old, new
  <2>1. w \in 0 .. Len(new)
    BY <1>1, <1>3
  <2>2. /\ SubSeq(new, 1, w) \in Seq(Item) /\ Len(SubSeq(new, 1, w)) = w
        /\ \A i \in 1 .. w : SubSeq(new, 1, w)[i] = new[i]
    BY <1>3, <2>1, PrefixOfSeq
  <2>3. ASSUME NEW i \in 1 .. w PROVE SubSeq(new, 1, w)[i] = old[i]
    <3>1. i \in 1 .. f
      BY <1>1
    <3> QED
      BY <1>2, <1>3, <2>2, <3>1
  <2> QED
    BY <1>2, <2>2, <2>3, SeqEqual
<1>5. ~new[Len(new)].more
  BY <1>1, <1>3 DEF MessageEnds
<1> QED
  BY <1>1, <1>2, <1>3, <1>4, <1>5 DEF Channel!Publish

(* ypipe_t implements the abstract channel: the items read are the items   *)
(* written, in order, and whole messages become visible at once.           *)
THEOREM Refinement == Spec => ImplementsFifo
<1>1. Init => Channel!Init
  <2> SUFFICES ASSUME Init PROVE SubSeq(buf, 1, w) = << >> /\ front = 0
    BY DEF Channel!Init
  <2> QED
    BY SubSeqEmpty DEF Init
<1>2. IInv /\ [Next]_vars => [Channel!Next]_(Channel!vars)
  <2> SUFFICES ASSUME IInv, [Next]_vars PROVE [Channel!Next]_(Channel!vars)
    OBVIOUS
  <2> USE DEF Channel!vars
  <2>1. CASE Unwrite \/ \E v \in Value, i \in BOOLEAN : Write(v, i)
    <3>1. w' = w /\ front' = front
      BY <2>1 DEF Unwrite, Write
    <3> QED
      BY <2>1, <3>1, WritesKeepPrefix
  <2>2. CASE FlushCas
    <3>1. CASE w' = f
      BY <2>2, <3>1, FlushPublishes DEF FlushCas, Channel!Next
    <3>2. CASE w' = w
      BY <2>2, <3>2 DEF FlushCas
    <3> QED
      BY <2>2, <3>1, <3>2 DEF FlushCas
  <2>3. CASE FlushSet
    BY <2>3, FlushPublishes DEF FlushSet, Channel!Next, IInv, SleepProtocol
  <2>4. CASE Read
    <3>1. /\ front < w /\ front' = front + 1 /\ w' = w /\ buf' = buf
          /\ w \in 0 .. Len(buf) /\ buf \in Seq(Item)
      BY <2>4, MaxItemsAssumption
      DEF Read, Prefetched, IInv, TypeOK, PointerOrder, Null
    <3>2. Len(SubSeq(buf, 1, w)) = w
      BY <3>1, PrefixOfSeq
    <3> QED
      BY <3>1, <3>2 DEF Channel!Next, Channel!Take
  <2>5. CASE Wake \/ Close \/ CheckReadEmpty \/ CheckRead \/ UNCHANGED vars
    BY <2>5 DEF Wake, Close, CheckReadEmpty, CheckRead, vars
  <2> QED
    BY <2>1, <2>2, <2>3, <2>4, <2>5 DEF Next
<1> QED
  BY <1>1, <1>2, Invariance, PTL DEF Spec, Channel!Spec, ImplementsFifo
-----------------------------------------------------------------------------
(* mailbox_t *)

(* The threads inside mailbox_send that hold the mutex. *)
Locked == {"write", "flush", "set", "unlock", "unlock_wake"}

(* The thread whose flush returned false and that has not signalled yet. *)
Waking(s) == spc[s] \in {"unlock_wake", "signal"}

MTypes ==
  /\ sync \in Sender \cup {NoOne}
  /\ active \in BOOLEAN
  /\ signals \in Nat
  /\ spc \in [Sender -> SendPc]
  /\ rpc \in RecvPc

(* The mutex excludes: a thread between lock and unlock owns it, and the   *)
(* unflushed command and the half-done flush are the owner's.              *)
MutexHeld ==
  /\ \A s \in Sender : spc[s] \in Locked <=> sync = s
  /\ \A s \in Sender : spc[s] = "set" => wpc = "set"
  /\ \A s \in Sender :
       spc[s] \in {"write", "unlock", "unlock_wake"} => wpc = "idle" /\ w = f
  /\ \A s \in Sender : spc[s] = "flush" => wpc = "idle" /\ w # f
  /\ \A s \in Sender : spc[s] = "write" => Len(buf) < MaxItems
  /\ sync = NoOne => wpc = "idle" /\ w = f

(* The receiver sleeps exactly outside the reading part of mailbox_recv. *)
ReceiverState ==
  /\ closed <=> rpc = "closed"
  /\ rpc = "init" => /\ ~asleep /\ ~active /\ Len(buf) = 0
                      /\ \A s \in Sender : spc[s] = "idle"
  /\ rpc \in {"read", "firstread"} => ~asleep /\ active
  /\ rpc \in {"sigrecv", "putback", "wait"} => asleep /\ ~active
  /\ rpc = "out" => (asleep <=> ~active)
  /\ rpc = "firstread" => front < w
  /\ rpc = "closed" => /\ Len(buf) = MaxItems /\ signals <= 1
                       /\ \A s \in Sender : spc[s] \in {"idle", "unlock"}

(* The signal that woke the receiver stays in the eventfd while it reads. *)
Base == IF rpc \in {"read", "firstread", "sigrecv"} \/ (rpc = "out" /\ active)
        THEN 1 ELSE 0

(* One wake-up token at most is on its way: at its sender, or on top of    *)
(* the receiver's own signal in the eventfd, or in signaler_recv's hands.  *)
Tokens ==
  rpc # "closed" =>
    /\ \A s \in Sender : Waking(s) => owed
    /\ \A s, t \in Sender : Waking(s) /\ Waking(t) => s = t
    /\ (~owed \/ \E s \in Sender : Waking(s)) =>
         signals = Base /\ rpc # "putback"
    /\ (owed /\ \A s \in Sender : ~Waking(s)) =>
         signals = IF rpc = "putback" THEN 0 ELSE Base + 1

MInv == IInv /\ MTypes /\ MutexHeld /\ ReceiverState /\ Tokens
-----------------------------------------------------------------------------
(* The constructors establish the invariant. *)
LEMMA InitMInv == MailboxInit => MInv
<1> SUFFICES ASSUME MailboxInit PROVE MInv
  OBVIOUS
<1> USE SenderAssumption DEF MailboxInit
<1>1. IInv
  BY InitIInv
<1>2. MTypes
  BY DEF MTypes, SendPc, RecvPc
<1>3. MutexHeld
  BY DEF MutexHeld, Init, Locked
<1>4. ReceiverState
  BY DEF ReceiverState, Init
<1>5. Tokens
  BY DEF Tokens, Init, Waking, Base
<1> QED
  BY <1>1, <1>2, <1>3, <1>4, <1>5 DEF MInv

(* A successful wait is the wake-up some flush owes. *)
LEMMA WaitIsWake ==
  ASSUME MInv, RecvWait
  PROVE  Wake
<1>1. owed
  BY DEF MInv, MTypes, Tokens, Base, RecvWait
<1> QED
  BY <1>1 DEF RecvWait, Wake

(* Every step of the mailbox is a step of its ypipe. *)
LEMMA StepOfYpipe ==
  ASSUME MInv, [MailboxNext]_allvars
  PROVE  [Next]_vars
<1>1. ASSUME NEW s \in Sender, SendLock(s) \/ Send(s)
      PROVE  [Next]_vars
  BY <1>1, SenderAssumption
  DEF SendLock, Send, SendWrite, SendFlush, SendSet, SendUnlock, SendSignal, Next
<1>2. CASE RecvWait
  BY <1>2, WaitIsWake DEF Next
<1>3. CASE Recv /\ ~RecvWait
  BY <1>3
  DEF Recv, InitRead, RecvCall, RecvPrefetch, RecvRead, RecvReadEmpty,
      RecvSignal, RecvPutBack, Next
<1>4. CASE RecvTimeout \/ RecvClose
  BY <1>4 DEF RecvTimeout, RecvClose, Next
<1>5. CASE UNCHANGED allvars
  BY <1>5 DEF allvars
<1> QED
  BY <1>1, <1>2, <1>3, <1>4, <1>5 DEF MailboxNext

(* Every step of a sender or of the receiver preserves the invariant. *)
LEMMA NextMInv == MInv /\ [MailboxNext]_allvars => MInv'
<1> SUFFICES ASSUME MInv, [MailboxNext]_allvars PROVE MInv'
  OBVIOUS
<1>1. IInv'
  BY StepOfYpipe, NextIInv DEF MInv
<1> USE SenderAssumption, MaxItemsAssumption
    DEF MInv, MTypes, MutexHeld, ReceiverState, Tokens, SendPc, RecvPc, Locked,
        Waking, Base, Goto, IInv, TypeOK, PointerOrder, SharedPointer,
        SleepProtocol, Null, Back
<1>2. ASSUME NEW s \in Sender, SendLock(s) PROVE MInv'
  BY <1>1, <1>2 DEF SendLock, vars
<1>3. ASSUME NEW s \in Sender, SendWrite(s) PROVE MInv'
  BY <1>1, <1>3 DEF SendWrite, Write, Writing
<1>4. ASSUME NEW s \in Sender, SendFlush(s) PROVE MInv'
  BY <1>1, <1>4 DEF SendFlush, FlushCas, Writing
<1>5. ASSUME NEW s \in Sender, SendSet(s) PROVE MInv'
  BY <1>1, <1>5 DEF SendSet, FlushSet
<1>6. ASSUME NEW s \in Sender, SendUnlock(s) PROVE MInv'
  BY <1>1, <1>6 DEF SendUnlock, vars
<1>7. ASSUME NEW s \in Sender, SendSignal(s) PROVE MInv'
  BY <1>1, <1>7 DEF SendSignal, vars
<1>8. CASE InitRead
  BY <1>1, <1>8 DEF InitRead, CheckReadEmpty, Prefetch
<1>9. CASE RecvCall
  BY <1>1, <1>9 DEF RecvCall, vars
<1>10. CASE RecvPrefetch
  BY <1>1, <1>10 DEF RecvPrefetch, CheckRead, Prefetch, mvars
<1>11. CASE RecvRead
  BY <1>1, <1>11 DEF RecvRead, Read
<1>12. CASE RecvReadEmpty
  BY <1>1, <1>12 DEF RecvReadEmpty, CheckReadEmpty, Prefetch
<1>13. CASE RecvSignal
  BY <1>1, <1>13 DEF RecvSignal, vars
<1>14. CASE RecvPutBack
  BY <1>1, <1>14 DEF RecvPutBack, vars
<1>15. CASE RecvWait
  BY <1>1, <1>15 DEF RecvWait
<1>16. CASE RecvTimeout
  BY <1>1, <1>16 DEF RecvTimeout, vars
<1>17. CASE RecvClose
  BY <1>1, <1>17 DEF RecvClose, Close, Writing
<1>18. CASE UNCHANGED allvars
  BY <1>1, <1>18 DEF allvars, vars, mvars
<1> QED
  BY <1>2, <1>3, <1>4, <1>5, <1>6, <1>7, <1>8, <1>9, <1>10, <1>11,
     <1>12, <1>13, <1>14, <1>15, <1>16, <1>17, <1>18 DEF MailboxNext, Send, Recv
-----------------------------------------------------------------------------
(* The inductive invariant holds in every reachable state. *)
THEOREM MailboxInvariance == MailboxSpec => []MInv
  BY InitMInv, NextMInv, PTL DEF MailboxSpec

(* Type correctness, with the bound on the eventfd: never more than two    *)
(* signals are pending, whatever the number of threads that send.          *)
THEOREM MailboxTypeCorrect == MailboxSpec => []MailboxTypeOK
<1>1. MInv => signals \in 0 .. 2
  BY DEF MInv, MTypes, Tokens, ReceiverState, Base
<1>2. MInv => MailboxTypeOK
  BY <1>1 DEF MInv, IInv, MTypes, MailboxTypeOK
<1> QED
  BY <1>2, MailboxInvariance, PTL

(* The assertion of mailbox_recv holds: after a successful wait the read   *)
(* finds a command.                                                        *)
THEOREM AssertedReadSucceeds == MailboxSpec => []SignalMeansCommand
<1>1. MInv => SignalMeansCommand
  BY MaxItemsAssumption
  DEF MInv, IInv, TypeOK, SharedPointer, SleepProtocol, ReceiverState,
      SignalMeansCommand, Null
<1> QED
  BY <1>1, MailboxInvariance, PTL

(* The assertions of signaler_recv hold: the eventfd it reads contains one *)
(* signal or two.                                                          *)
THEOREM AssertedSignalCount == MailboxSpec => []OneOrTwoSignals
<1>1. MInv => OneOrTwoSignals
  BY DEF MInv, MTypes, Tokens, Base, OneOrTwoSignals
<1> QED
  BY <1>1, MailboxInvariance, PTL

(* A poller that watches mailbox_fd misses no command and, on a passive    *)
(* mailbox, is not woken for nothing.                                      *)
THEOREM FdIsTruthful == MailboxSpec => []FdReadable
<1>1. MInv => FdReadable
  BY MaxItemsAssumption
  DEF MInv, IInv, TypeOK, PointerOrder, SharedPointer, SleepProtocol, MTypes,
      ReceiverState, Tokens, Waking, Base, FdReadable, Null
<1> QED
  BY <1>1, MailboxInvariance, PTL

(* Signals and commands go together, whatever the number of threads that   *)
(* send and however they are delayed.                                      *)
THEOREM MailboxIsSafe == MailboxSpec => []MailboxSafe
  BY AssertedReadSucceeds, AssertedSignalCount, FdIsTruthful, PTL
  DEF MailboxSafe

(* The mutex and the signaler give ypipe_t the single writer and the woken *)
(* reader it needs.                                                        *)
THEOREM YpipeProtocolObeyed == MailboxSpec => []OneWriterAwakeReader
<1>1. MInv => OneWriterAwakeReader
  BY SenderAssumption
  DEF MInv, MutexHeld, ReceiverState, Locked, OneWriterAwakeReader
<1> QED
  BY <1>1, MailboxInvariance, PTL

(* A mailbox is a correct use of ypipe_t, so that commands are received in *)
(* the order they were sent, none lost and none twice (with Refinement).   *)
THEOREM MailboxUsesYpipe == MailboxSpec => UsesYpipe
<1>1. MailboxInit => Init
  BY DEF MailboxInit
<1>2. MInv /\ [MailboxNext]_allvars => [Next]_vars
  BY StepOfYpipe
<1> QED
  BY <1>1, <1>2, MailboxInvariance, PTL DEF MailboxSpec, Spec, UsesYpipe
=============================================================================
