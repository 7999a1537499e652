----------------------------- MODULE CtxProofs ------------------------------
(***************************************************************************)
(* Proofs about ctx_t and reaper_t, for any set of sockets and any limit.  *)
(* The argument keeps two accounts.  One is of slots: every slot is in one *)
(* place.  The other is of closed sockets: what the reaper has counted is  *)
(* what is being reaped and what has been reaped and not been taken off.   *)
(***************************************************************************)
EXTENDS Ctx, FiniteSetTheorems, TLAPS

(***************************************************************************)
(* Facts about queues of commands: where the commands of a type are, and   *)
(* how many there are, after a command is appended or the first one is     *)
(* taken.                                                                  *)
(***************************************************************************)

(* The positions of the commands of type t in the queue q. *)
Positions(q, t) == {i \in DOMAIN q : q[i].type = t}

(* The number of commands of type t in the queue q. *)
Count(q, t) == Cardinality(Positions(q, t))

(* The command counts as one if it is of type t. *)
One(x, t) == IF x.type = t THEN 1 ELSE 0
-----------------------------------------------------------------------------
(* A queue holds finitely many commands of each type. *)
LEMMA CountType ==
  ASSUME NEW S, NEW q \in Seq(S), NEW t
  PROVE  IsFiniteSet(Positions(q, t)) /\ Count(q, t) \in Nat
<1>1. IsFiniteSet(1 .. Len(q))
  BY FS_Interval
<1>2. Positions(q, t) \in SUBSET (1 .. Len(q))
  BY DEF Positions
<1>3. IsFiniteSet(Positions(q, t))
  BY <1>1, <1>2, FS_Subset
<1> QED
  BY <1>3, FS_CardinalityType DEF Count

(* A queue whose first command has the type holds one of that type. *)
LEMMA CountHead ==
  ASSUME NEW S, NEW q \in Seq(S), NEW t, q # << >>, Head(q).type = t
  PROVE  Count(q, t) > 0
<1>1. 1 \in Positions(q, t)
  BY DEF Positions
<1>2. Positions(q, t) # {}
  BY <1>1
<1>3. Count(q, t) \in Nat /\ IsFiniteSet(Positions(q, t))
  BY CountType
<1>4. Count(q, t) # 0
  BY <1>2, <1>3, FS_EmptySet DEF Count
<1> QED
  BY <1>3, <1>4

(* No command in an empty queue. *)
LEMMA CountEmpty ==
  ASSUME NEW t
  PROVE  Count(<< >>, t) = 0
<1>1. Positions(<< >>, t) = {}
  BY DEF Positions
<1> QED
  BY <1>1, FS_EmptySet DEF Count

(* Appending a command. *)
LEMMA CountAppend ==
  ASSUME NEW S, NEW q \in Seq(S), NEW x \in S, NEW t
  PROVE  Count(Append(q, x), t) = Count(q, t) + One(x, t)
<1>1. IsFiniteSet(Positions(q, t)) /\ Count(q, t) \in Nat
  BY CountType
<1>2. CASE x.type = t
  <2>1. Positions(Append(q, x), t) = Positions(q, t) \cup {Len(q) + 1}
    BY <1>2 DEF Positions
  <2>2. Len(q) + 1 \notin Positions(q, t)
    BY DEF Positions
  <2> QED
    BY <1>1, <1>2, <2>1, <2>2, FS_AddElement, ZenonT(40) DEF Count, One
<1>3. CASE x.type # t
  <2>1. Positions(Append(q, x), t) = Positions(q, t)
    BY <1>3 DEF Positions
  <2> QED
    BY <1>1, <1>3, <2>1 DEF Count, One
<1> QED
  BY <1>2, <1>3

(* Taking the first command. *)
LEMMA CountTail ==
  ASSUME NEW S, NEW q \in Seq(S), NEW t, q # << >>
  PROVE  Count(Tail(q), t) = Count(q, t) - One(Head(q), t)
<1> DEFINE P == Positions(q, t) \ {1}
           T == Positions(Tail(q), t)
           f == [i \in P |-> i - 1]
<1>1. IsFiniteSet(Positions(q, t)) /\ Count(q, t) \in Nat
  BY CountType
<1>2. IsFiniteSet(P) /\ Cardinality(P) = Count(q, t) - One(Head(q), t)
  <2>1. 1 \in Positions(q, t) <=> Head(q).type = t
    BY DEF Positions
  <2>2. /\ IsFiniteSet(P)
        /\ Cardinality(P) = IF 1 \in Positions(q, t)
                            THEN Cardinality(Positions(q, t)) - 1
                            ELSE Cardinality(Positions(q, t))
    BY <1>1, FS_RemoveElement
  <2> QED
    BY <1>1, <2>1, <2>2 DEF Count, One
<1>3. P = {i \in 2 .. Len(q) : q[i].type = t}
  BY DEF Positions
<1>4. T = {i \in 1 .. Len(q) - 1 : q[i + 1].type = t}
  BY DEF Positions
<1>5. f \in Bijection(P, T)
  <2> HIDE DEF P, T
  <2>1. f \in [P -> T]
    BY <1>3, <1>4
  <2>2. \A a, b \in P : f[a] = f[b] => a = b
    BY <1>3
  <2>3. \A b \in T : \E a \in P : f[a] = b
    <3> TAKE b \in T
    <3>1. b + 1 \in P /\ f[b + 1] = b
      BY <1>3, <1>4
    <3> QED
      BY <3>1
  <2> QED
    BY <2>1, <2>2, <2>3 DEF Bijection, Injection, Surjection, IsInjective
<1>6. ExistsBijection(P, T)
  BY <1>5, Zenon DEF ExistsBijection
<1>7. Cardinality(T) = Cardinality(P)
  BY <1>2, <1>6, FS_Bijection
<1> QED
  BY <1>2, <1>7 DEF Count
-----------------------------------------------------------------------------
(***************************************************************************)
(* The invariant                                                           *)
(***************************************************************************)

(* The sockets the reaper works on. *)
Reaping == {s \in Socket : phase[s] = "reaping"}

(* A context that never had a socket. *)
Fresh ==
  starting => /\ empty_slots = << >> /\ sockets = {} /\ ~terminating
              /\ \A s \in Socket : slot[s] = None
              /\ rq = << >> /\ rpc = "poll" /\ rdel = None
              /\ tpc \notin {"stop", "wait"}

(* Every slot is free at one place or belongs to one socket. *)
SlotsOnce ==
  /\ \A i, j \in DOMAIN empty_slots : empty_slots[i] = empty_slots[j] => i = j
  /\ \A s, t \in Socket : slot[s] = slot[t] /\ slot[s] # None => s = t
  /\ \A i \in DOMAIN empty_slots, s \in Socket : empty_slots[i] # slot[s]
  /\ ~starting => \A n \in Slot : \/ \E i \in DOMAIN empty_slots : empty_slots[i] = n
                                  \/ \E s \in Socket : slot[s] = n

(* The context knows the sockets that exist up to destroy_socket, and      *)
(* those have a slot.                                                      *)
SocketsKnown ==
  /\ sockets = {s \in Socket : slot[s] # None}
  /\ \A s \in Socket : s \in sockets <=>
       phase[s] \in {"open", "blocked", "closed", "reaping"} /\ s # rdel

(* Between destroy_socket and send_reaped the reaper is in the call. *)
InCall ==
  rdel # None => phase[rdel] = "reaping" /\ rpc \in {"poll", "process_reap"}

(* A reap command is about a socket that the application has closed, and   *)
(* there is one for each.                                                  *)
ReapOnceIn(q) ==
  /\ \A i \in DOMAIN q : q[i].type = "reap" => phase[q[i].socket] = "closed"
  /\ \A i, j \in DOMAIN q :
       /\ q[i].type = "reap" /\ q[j].type = "reap"
       /\ q[i].socket = q[j].socket
       => i = j

ReapOnce == ReapOnceIn(rq)

(* The reaper's count.  process_reap counts a socket last, after it may    *)
(* have been destroyed.                                                    *)
ReaperCount ==
  /\ IsFiniteSet(Reaping)
  /\ rsockets + (IF rpc = "process_reap" THEN 1 ELSE 0)
       = Cardinality(Reaping) + Count(rq, "reaped")

HasStop(q) == \E i \in DOMAIN q : q[i].type = "stop"

(* The reaper is stopped after the last socket of a terminating context is *)
(* destroyed, and no further one is created.                               *)
StopIsLast ==
  /\ tpc \in {"stop", "wait"} => terminating
  /\ rterminating \/ HasStop(rq) => terminating /\ sockets = {}
  /\ done > 0 => rterminating /\ rsockets = 0 /\ rdel = None
                 /\ rpc # "process_reap"

IInv == /\ TypeOK /\ Fresh /\ SlotsOnce /\ SocketsKnown /\ InCall /\ ReapOnce
        /\ ReaperCount /\ StopIsLast
-----------------------------------------------------------------------------
(* The constructor establishes the invariant. *)
LEMMA InitIInv == Init => IInv
<1> SUFFICES ASSUME Init PROVE IInv
  OBVIOUS
<1> USE CtxAssumption DEF Init
<1>1. TypeOK
  <2>1. empty_slots \in Seq(Slot) /\ rq \in Seq(Command)
    OBVIOUS
  <2> QED
    BY <2>1, Zenon DEF TypeOK
<1>2. Fresh /\ SlotsOnce /\ SocketsKnown /\ InCall /\ ReapOnce /\ StopIsLast
  BY DEF Fresh, SlotsOnce, SocketsKnown, InCall, ReapOnce, ReapOnceIn, StopIsLast, HasStop
<1>3. ReaperCount
  <2>1. Reaping = {}
    BY DEF Reaping
  <2>2. Count(rq, "reaped") = 0
    BY CountEmpty
  <2> QED
    BY <2>1, <2>2, FS_EmptySet DEF ReaperCount
<1> QED
  BY <1>1, <1>2, <1>3 DEF IInv

(* f is a list of the slots that no socket has, without duplicates. *)
FreeList(f) ==
  /\ f \in Seq(Slot)
  /\ \A i, j \in DOMAIN f : f[i] = f[j] => i = j
  /\ \A i \in DOMAIN f, s \in Socket : f[i] # slot[s]
  /\ \A n \in Slot : \/ \E i \in DOMAIN f : f[i] = n
                    \/ \E s \in Socket : slot[s] = n

(* What create_socket starts from, in a new and in a used context. *)
LEMMA FreeSlots ==
  ASSUME IInv
  PROVE  FreeList(IF starting THEN AllSlots ELSE empty_slots)
<1> USE CtxAssumption DEF IInv
<1>1. CASE starting
  <2>1. AllSlots \in Seq(Slot) /\ DOMAIN AllSlots = Slot
    BY DEF AllSlots, Slot
  <2>2. \A n \in Slot : /\ MaxSockets + 1 - n \in Slot
                       /\ AllSlots[MaxSockets + 1 - n] = n
    BY DEF AllSlots, Slot
  <2>3. \A i, j \in Slot : AllSlots[i] = AllSlots[j] => i = j
    BY DEF AllSlots, Slot
  <2>4. \A s \in Socket : slot[s] = None
    BY <1>1 DEF Fresh
  <2>5. \A i \in Slot : AllSlots[i] \in Slot
    BY DEF AllSlots, Slot
  <2>6. \A i \in DOMAIN AllSlots, s \in Socket : AllSlots[i] # slot[s]
    BY <2>1, <2>4, <2>5
  <2>7. \A n \in Slot : \E i \in DOMAIN AllSlots : AllSlots[i] = n
    BY <2>1, <2>2, Zenon
  <2>8. \A i, j \in DOMAIN AllSlots : AllSlots[i] = AllSlots[j] => i = j
    BY <2>1, <2>3
  <2>9. FreeList(AllSlots)
    BY <2>1, <2>6, <2>7, <2>8 DEF FreeList
  <2> QED
    BY <1>1, <2>9
<1>2. CASE ~starting
  <2>1. FreeList(empty_slots)
    BY <1>2, Zenon DEF TypeOK, SlotsOnce, FreeList
  <2> QED
    BY <1>2, <2>1
<1> QED
  BY <1>1, <1>2

(* create_socket gives the last free slot to the socket, or fails. *)
LEMMA CreateSocket ==
  ASSUME IInv, NEW s \in Socket, create_socket(s)
  PROVE  IInv'
<1> USE CtxAssumption DEF IInv
<1>1. PICK free : /\ FreeList(free)
                  /\ free = IF starting THEN AllSlots ELSE empty_slots
  BY FreeSlots
<1>2. /\ starting' = FALSE /\ phase[s] = "none"
      /\ UNCHANGED <<terminating, done, tpc, stop, ctx_terminated, rq, reapervars>>
  BY DEF create_socket
<1>3. CASE /\ ~terminating /\ free # << >>
           /\ slot' = [slot EXCEPT ![s] = free[Len(free)]]
           /\ empty_slots' = SubSeq(free, 1, Len(free) - 1)
           /\ sockets' = sockets \cup {s}
           /\ phase' = [phase EXCEPT ![s] = "open"]
  <2>1. /\ Len(free) \in Nat \ {0} /\ DOMAIN free = 1 .. Len(free)
        /\ free[Len(free)] \in Slot
    BY <1>1, <1>3 DEF FreeList
  <2>2. /\ empty_slots' \in Seq(Slot)
        /\ DOMAIN empty_slots' = 1 .. Len(free) - 1
        /\ \A i \in 1 .. Len(free) - 1 : empty_slots'[i] = free[i]
    BY <1>1, <1>3, <2>1 DEF FreeList
  <2>3. slot[s] = None /\ s \notin sockets /\ rdel # s
    BY <1>2 DEF SocketsKnown, InCall
  <2>4. TypeOK'
    BY <1>2, <1>3, <2>1, <2>2, ZenonT(40) DEF TypeOK, reapervars
  <2>5. SlotsOnce'
    <3>1. \A t \in Socket : slot'[t] = IF t = s THEN free[Len(free)] ELSE slot[t]
      BY <1>3 DEF TypeOK
    <3>2. \A i \in 1 .. Len(free) - 1 : /\ i \in 1 .. Len(free)
                                       /\ free[i] # free[Len(free)]
      BY <1>1, <2>1 DEF FreeList
    <3>3. \A n \in Slot : \/ \E i \in 1 .. Len(free) - 1 : free[i] = n
                         \/ \E t \in Socket : slot'[t] = n
      <4> SUFFICES ASSUME NEW n \in Slot, \A i \in 1 .. Len(free) - 1 : free[i] # n
                   PROVE  \E t \in Socket : slot'[t] = n
        OBVIOUS
      <4>1. CASE free[Len(free)] = n
        BY <3>1, <4>1
      <4>2. CASE free[Len(free)] # n
        <5>1. \A i \in DOMAIN free : free[i] # n
          BY <2>1, <4>2
        <5>2. PICK t \in Socket : slot[t] = n
          BY <1>1, <5>1 DEF FreeList
        <5>3. t # s
          BY <2>3, <5>2, Zenon
        <5> QED
          BY <3>1, <5>2, <5>3
      <4> QED
        BY <4>1, <4>2
    <3>4. \A t, u \in Socket : slot'[t] = slot'[u] /\ slot'[t] # None => t = u
      BY <1>1, <2>1, <3>1 DEF FreeList, SlotsOnce
    <3>5. \A i \in 1 .. Len(free) - 1, t \in Socket : free[i] # slot'[t]
      BY <1>1, <2>1, <3>1, <3>2 DEF FreeList
    <3>6. \A i, j \in 1 .. Len(free) - 1 : free[i] = free[j] => i = j
      BY <1>1, <2>1 DEF FreeList
    <3> QED
      BY ONLY <2>2, <3>3, <3>4, <3>5, <3>6, ZenonT(40) DEF SlotsOnce
  <2>6. SocketsKnown'
    BY <1>2, <1>3, <2>1, <2>3 DEF SocketsKnown, TypeOK, reapervars
  <2>7. InCall' /\ ReapOnce' /\ StopIsLast' /\ Fresh'
    BY <1>2, <1>3 DEF InCall, ReapOnce, ReapOnceIn, StopIsLast, HasStop, Fresh, TypeOK, reapervars
  <2>8. Reaping' = Reaping
    BY <1>2, <1>3 DEF Reaping, TypeOK
  <2> QED
    BY <1>2, <2>4, <2>5, <2>6, <2>7, <2>8 DEF ReaperCount, reapervars
<1>4. CASE empty_slots' = free /\ UNCHANGED <<slot, sockets, phase>>
  <2>1. TypeOK'
    <3>1. empty_slots' \in Seq(Slot)
      BY <1>1, <1>4, Zenon DEF FreeList
    <3> QED
      BY <1>2, <1>4, <3>1, ZenonT(40) DEF TypeOK, reapervars
  <2>2. SlotsOnce'
    <3>1. FreeList(free) /\ SlotsOnce
      BY <1>1
    <3> QED
      BY ONLY <1>4, <3>1 DEF SlotsOnce, FreeList
  <2>3. SocketsKnown' /\ InCall' /\ ReapOnce' /\ StopIsLast' /\ Fresh'
    BY <1>2, <1>4
    DEF SocketsKnown, InCall, ReapOnce, ReapOnceIn, StopIsLast, HasStop, Fresh, reapervars
  <2>4. ReaperCount'
    BY <1>2, <1>4 DEF ReaperCount, Reaping, reapervars
  <2> QED
    BY <2>1, <2>2, <2>3, <2>4, Zenon
<1> QED
  BY <1>1, <1>3, <1>4 DEF create_socket, MayCreate

(* The calls of the application on a socket move it between the phases     *)
(* before xs_close.                                                        *)
LEMMA CallOnSocket ==
  ASSUME IInv, NEW s \in Socket, Block(s) \/ Unblock(s) \/ process_stop(s)
  PROVE  IInv'
<1> USE CtxAssumption DEF IInv
<1>1. /\ UNCHANGED <<ctxvars, done, tpc, slot, rq, reapervars>>
      /\ phase[s] \in {"open", "blocked", "reaping"}
      /\ \E ph \in {"open", "blocked", "reaping"} :
           /\ phase' = [phase EXCEPT ![s] = ph]
           /\ phase[s] = "reaping" <=> ph = "reaping"
      /\ stop' \in [Socket -> BOOLEAN] /\ ctx_terminated' \in [Socket -> BOOLEAN]
  BY Zenon DEF Block, Unblock, process_stop, TypeOK
<1> USE <1>1 DEF ctxvars, reapervars
<1>2. TypeOK'
  <2>1. phase' \in [Socket -> {"none", "open", "blocked", "closed", "reaping", "gone"}]
    BY DEF TypeOK
  <2> QED
    BY <2>1 DEF TypeOK
<1>3. SlotsOnce' /\ Fresh' /\ StopIsLast'
  BY DEF SlotsOnce, Fresh, StopIsLast, HasStop
<1>4. SocketsKnown' /\ InCall' /\ ReapOnce'
  BY DEF SocketsKnown, InCall, ReapOnce, ReapOnceIn, TypeOK, Command
<1>5. ReaperCount'
  <2>1. Reaping' = Reaping
    BY DEF Reaping, TypeOK
  <2> QED
    BY <2>1 DEF ReaperCount
<1> QED
  BY <1>2, <1>3, <1>4, <1>5

(* xs_close hands the socket to the reaper. *)
LEMMA CloseSocket ==
  ASSUME IInv, NEW s \in Socket, close(s)
  PROVE  IInv'
<1> USE CtxAssumption DEF IInv
<1> DEFINE x == [type |-> "reap", socket |-> s]
<1>1. /\ UNCHANGED <<ctxvars, done, tpc, slot, stop, ctx_terminated, reapervars>>
      /\ phase[s] = "open" /\ phase' = [phase EXCEPT ![s] = "closed"]
      /\ rq' = Append(rq, x)
  BY DEF close
<1>2. x \in Command /\ x.type = "reap" /\ x.socket = s
  BY Zenon DEF Command
<1> HIDE DEF x
<1>3. TypeOK'
  BY <1>1, <1>2 DEF TypeOK, ctxvars, reapervars
<1>4. /\ rq \in Seq(Command) /\ DOMAIN rq' = 1 .. Len(rq) + 1
      /\ \A i \in 1 .. Len(rq) : rq'[i] = rq[i]
      /\ rq'[Len(rq) + 1] = x
  BY <1>1, <1>2 DEF TypeOK
<1>5. SlotsOnce' /\ Fresh'
  <2>1. ~starting
    BY <1>1, Zenon DEF SocketsKnown, InCall, Fresh
  <2> QED
    BY <1>1, <2>1 DEF SlotsOnce, Fresh, ctxvars
<1>6. SocketsKnown' /\ InCall'
  BY <1>1 DEF SocketsKnown, InCall, TypeOK, ctxvars, reapervars
<1>7. ReapOnce'
  BY <1>1, <1>2, <1>4 DEF ReapOnce, ReapOnceIn, TypeOK, Command
<1>8. StopIsLast'
  BY <1>1, <1>2, <1>4 DEF StopIsLast, HasStop, ctxvars, reapervars
<1>9. ReaperCount'
  <2>1. Reaping' = Reaping
    BY <1>1, Zenon DEF Reaping, TypeOK
  <2>2. Count(rq', "reaped") = Count(rq, "reaped")
    BY <1>1, <1>2, <1>4, CountAppend, CountType DEF One
  <2> QED
    BY <1>1, <2>1, <2>2 DEF ReaperCount, reapervars
<1> QED
  BY <1>3, <1>5, <1>6, <1>7, <1>8, <1>9

(* The steps of the thread in xs_term that send nothing. *)
LEMMA TermSteps ==
  ASSUME IInv, Terminate \/ TerminateInterrupted \/ TerminateDone \/ Delete
  PROVE  IInv'
<1> USE CtxAssumption DEF IInv
<1>1. /\ UNCHANGED <<starting, sockets, empty_slots, sockvars, rq, reapervars>>
      /\ tpc' \in {"idle", "stop", "wait", "delete", "deleted"}
      /\ terminating' \in BOOLEAN /\ (terminating => terminating')
      /\ done' \in Nat /\ (done' > 0 => done > 0)
      /\ tpc' \in {"stop", "wait"} => terminating' /\ ~starting
      /\ starting => ~terminating'
  <2>1. CASE Terminate
    BY <2>1, Zenon DEF Terminate, TypeOK, Fresh
  <2>2. CASE TerminateInterrupted \/ TerminateDone \/ Delete
    BY <2>2 DEF TerminateInterrupted, TerminateDone, Delete, ctxvars, TypeOK, Fresh
  <2> QED
    BY <2>1, <2>2, Zenon
<1> USE <1>1 DEF sockvars, reapervars
<1>2. TypeOK'
  BY DEF TypeOK
<1>3. SlotsOnce' /\ Fresh' /\ StopIsLast' /\ SocketsKnown' /\ InCall' /\ ReapOnce'
  BY DEF SlotsOnce, Fresh, StopIsLast, HasStop, SocketsKnown, InCall, ReapOnce, ReapOnceIn
<1>4. ReaperCount'
  BY DEF ReaperCount, Reaping
<1> QED
  BY <1>2, <1>3, <1>4

(* A command of another type than reap at the end of the reaper's mailbox. *)
LEMMA SendToReaper ==
  ASSUME NEW q \in Seq(Command), ReapOnceIn(q), NEW x \in Command, x.type # "reap"
  PROVE  /\ Append(q, x) \in Seq(Command) /\ ReapOnceIn(Append(q, x))
         /\ HasStop(Append(q, x)) => x.type = "stop" \/ HasStop(q)
         /\ Count(Append(q, x), "reaped") = Count(q, "reaped") + One(x, "reaped")
<1> DEFINE r == Append(q, x)
<1>1. /\ r \in Seq(Command) /\ Len(q) \in Nat
      /\ DOMAIN q = 1 .. Len(q) /\ DOMAIN r = 1 .. Len(q) + 1
      /\ \A i \in 1 .. Len(q) : r[i] = q[i]
      /\ r[Len(q) + 1] = x
  OBVIOUS
<1>2. Count(r, "reaped") = Count(q, "reaped") + One(x, "reaped")
  BY CountAppend
<1> HIDE DEF r
<1>3. ReapOnceIn(r)
  BY <1>1 DEF ReapOnceIn
<1>4. HasStop(r) => x.type = "stop" \/ HasStop(q)
  BY <1>1 DEF HasStop
<1> QED
  BY <1>1, <1>2, <1>3, <1>4 DEF r

(* The reaper takes the first command. *)
LEMMA ReaperTakes ==
  ASSUME NEW q \in Seq(Command), ReapOnceIn(q), q # << >>
  PROVE  /\ Tail(q) \in Seq(Command) /\ Head(q) \in Command
         /\ ReapOnceIn(Tail(q))
         /\ HasStop(Tail(q)) => HasStop(q)
         /\ Head(q).type = "stop" => HasStop(q)
         /\ Count(Tail(q), "reaped") = Count(q, "reaped") - One(Head(q), "reaped")
<1> DEFINE r == Tail(q)
<1>1. /\ r \in Seq(Command) /\ Head(q) \in Command /\ Head(q) = q[1]
      /\ Len(q) \in Nat \ {0}
      /\ DOMAIN q = 1 .. Len(q) /\ DOMAIN r = 1 .. Len(q) - 1
      /\ \A i \in 1 .. Len(q) - 1 : r[i] = q[i + 1]
  OBVIOUS
<1>2. Count(r, "reaped") = Count(q, "reaped") - One(Head(q), "reaped")
  BY CountTail, Zenon
<1> HIDE DEF r
<1>3. ReapOnceIn(r)
  <2>1. \A i \in DOMAIN r : i + 1 \in DOMAIN q /\ r[i] = q[i + 1]
    BY <1>1
  <2>2. \A i \in DOMAIN r : r[i].type = "reap" => phase[r[i].socket] = "closed"
    BY <2>1 DEF ReapOnceIn
  <2>3. \A i, j \in DOMAIN r : /\ r[i].type = "reap" /\ r[j].type = "reap"
                              /\ r[i].socket = r[j].socket
                              => i + 1 = j + 1
    BY <2>1 DEF ReapOnceIn
  <2> QED
    BY <1>1, <2>2, <2>3 DEF ReapOnceIn
<1>4. HasStop(r) => HasStop(q)
  BY <1>1 DEF HasStop
<1>5. Head(q).type = "stop" => HasStop(q)
  BY <1>1 DEF HasStop
<1> QED
  BY <1>1, <1>2, <1>3, <1>4, <1>5 DEF r

(* The second section of terminate stops the reaper if there is no socket. *)
LEMMA TermStopStep ==
  ASSUME IInv, TerminateStop
  PROVE  IInv'
<1> USE CtxAssumption DEF IInv
<1>1. /\ UNCHANGED <<ctxvars, done, phase, slot, ctx_terminated, reapervars>>
      /\ tpc = "stop" /\ tpc' = "wait" /\ stop' \in [Socket -> BOOLEAN]
      /\ \/ sockets = {} /\ rq' = Append(rq, [type |-> "stop"])
         \/ UNCHANGED rq
  BY DEF TerminateStop, TypeOK
<1>2. [type |-> "stop"] \in Command /\ One([type |-> "stop"], "reaped") = 0
  BY DEF Command, One
<1>3. ~starting /\ terminating
  BY <1>1 DEF Fresh, StopIsLast, HasStop
<1>4. CASE sockets = {} /\ rq' = Append(rq, [type |-> "stop"])
  <2>1. rq' \in Seq(Command) /\ ReapOnce' /\ Count(rq', "reaped") = Count(rq, "reaped")
    BY <1>1, <1>2, <1>4, SendToReaper, CountType DEF TypeOK, ReapOnce, ReapOnceIn
  <2>2. TypeOK'
    BY <1>1, <2>1 DEF TypeOK, ctxvars, reapervars
  <2>3. SlotsOnce' /\ Fresh' /\ StopIsLast' /\ SocketsKnown' /\ InCall'
    BY <1>1, <1>3, <1>4
    DEF SlotsOnce, Fresh, StopIsLast, HasStop, SocketsKnown, InCall, ctxvars, reapervars
  <2>4. ReaperCount'
    BY <1>1, <2>1 DEF ReaperCount, Reaping, reapervars
  <2> QED
    BY <2>1, <2>2, <2>3, <2>4, Zenon
<1>5. CASE UNCHANGED rq
  <2>1. TypeOK'
    BY <1>1, <1>5, Zenon DEF TypeOK, ctxvars, reapervars
  <2>2. SlotsOnce' /\ Fresh' /\ SocketsKnown' /\ InCall' /\ ReapOnce'
    BY <1>1, <1>3, <1>5
    DEF SlotsOnce, Fresh, SocketsKnown, InCall, ReapOnce, ReapOnceIn, ctxvars, reapervars
  <2>3. StopIsLast'
    BY <1>1, <1>3, <1>5 DEF StopIsLast, HasStop, ctxvars, reapervars
  <2>4. ReaperCount'
    BY <1>1, <1>5 DEF ReaperCount, Reaping, reapervars
  <2> QED
    BY <2>1, <2>2, <2>3, <2>4, Zenon
<1> QED
  BY <1>1, <1>4, <1>5

(* The reaper enters and leaves in_event. *)
LEMMA InEventSteps ==
  ASSUME IInv, InEvent \/ InEventReturns
  PROVE  IInv'
<1> USE CtxAssumption DEF IInv
<1>1. /\ UNCHANGED <<ctxvars, done, tpc, sockvars, rq, rsockets, rterminating,
                     polled, stopping, rsock, rdel>>
      /\ rdel = None /\ ~starting
      /\ rpc # "process_reap" /\ rpc' \in {"in_event", "poll", "exited"}
  BY DEF InEvent, InEventReturns, InCall, Fresh
<1> USE <1>1 DEF ctxvars, sockvars
<1>2. TypeOK'
  BY DEF TypeOK
<1>3. SlotsOnce' /\ Fresh' /\ StopIsLast' /\ SocketsKnown' /\ InCall' /\ ReapOnce'
  BY DEF SlotsOnce, Fresh, StopIsLast, HasStop, SocketsKnown, InCall, ReapOnce, ReapOnceIn
<1>4. ReaperCount'
  BY DEF ReaperCount, Reaping
<1> QED
  BY <1>2, <1>3, <1>4, Zenon

(* The reaper processes stop, reaped or the stop of its own I/O thread. *)
LEMMA ReaperCommands ==
  ASSUME IInv, reaper_process_stop \/ process_reaped \/ io_process_stop
  PROVE  IInv'
<1> USE CtxAssumption DEF IInv
<1>1. /\ UNCHANGED <<ctxvars, tpc, sockvars, rsock, rdel>>
      /\ rpc = "in_event" /\ rpc' \in {"in_event", "abort"}
      /\ rq # << >> /\ Head(rq).type # "reap"
      /\ polled' \in BOOLEAN /\ stopping' \in BOOLEAN /\ rterminating' \in BOOLEAN
      /\ rsockets' = rsockets - One(Head(rq), "reaped")
      /\ rterminating' => rterminating \/ Head(rq).type = "stop"
      /\ rterminating => rterminating'
      /\ \/ rq' = Tail(rq) /\ done' = done
         \/ /\ rq' = Append(Tail(rq), [type |-> "io_stop"]) /\ done' = done + 1
            /\ rterminating' /\ rsockets' = 0
  <2>1. CASE reaper_process_stop
    <3>1. Head(rq).type = "stop" /\ One(Head(rq), "reaped") = 0 /\ rsockets - 0 = rsockets
      BY <2>1 DEF reaper_process_stop, Head_is, One, TypeOK
    <3> QED
      BY <2>1, <3>1, Zenon DEF reaper_process_stop, Finish, Head_is, TypeOK
  <2>2. CASE process_reaped
    <3>1. Head(rq).type = "reaped" /\ One(Head(rq), "reaped") = 1
      BY <2>2, Zenon DEF process_reaped, Head_is, One
    <3>2. CASE rsockets = 1 /\ rterminating
      <4>1. rsockets' = 0 /\ rsockets' = rsockets - 1
        BY <2>2, <3>2 DEF process_reaped
      <4> QED
        BY <2>2, <3>1, <3>2, <4>1, Zenon DEF process_reaped, Finish, Head_is, TypeOK
    <3>3. CASE ~(rsockets = 1 /\ rterminating)
      BY <2>2, <3>1, <3>3, Zenon DEF process_reaped, Head_is, TypeOK
    <3> QED
      BY <3>2, <3>3, Zenon
  <2>3. CASE io_process_stop
    BY <2>3 DEF io_process_stop, Head_is, One, TypeOK
  <2> QED
    BY <2>1, <2>2, <2>3, Zenon
<1>2. rdel = None /\ ~starting
  BY <1>1 DEF InCall, Fresh
<1>3. /\ Tail(rq) \in Seq(Command) /\ ReapOnceIn(Tail(rq))
      /\ HasStop(Tail(rq)) \/ Head(rq).type = "stop" => HasStop(rq)
      /\ Count(Tail(rq), "reaped") = Count(rq, "reaped") - One(Head(rq), "reaped")
  BY <1>1, ReaperTakes DEF TypeOK, ReapOnce
<1>4. /\ rq' \in Seq(Command) /\ ReapOnceIn(rq') /\ (HasStop(rq') => HasStop(rq))
      /\ Count(rq', "reaped") = Count(rq, "reaped") - One(Head(rq), "reaped")
  <2> DEFINE x == [type |-> "io_stop"]
  <2>1. x \in Command /\ x.type = "io_stop" /\ One(x, "reaped") = 0
    BY DEF Command, One
  <2> DEFINE q == Tail(rq)
  <2>2. q \in Seq(Command) /\ ReapOnceIn(q) /\ Count(q, "reaped") \in Nat
    BY <1>3, CountType, Zenon
  <2>3. /\ rq' = q \/ rq' = Append(q, x)
        /\ HasStop(q) => HasStop(rq)
        /\ Count(q, "reaped") = Count(rq, "reaped") - One(Head(rq), "reaped")
    BY <1>1, <1>3
  <2> HIDE DEF x, q
  <2>4. /\ Append(q, x) \in Seq(Command) /\ ReapOnceIn(Append(q, x))
        /\ HasStop(Append(q, x)) => HasStop(q)
        /\ Count(Append(q, x), "reaped") = Count(q, "reaped") + 0
    BY <2>1, <2>2, SendToReaper
  <2>5. CASE rq' = q
    BY <2>2, <2>3, <2>5
  <2>6. CASE rq' = Append(q, x)
    <3>1. Count(rq', "reaped") = Count(q, "reaped")
      BY <2>2, <2>4, <2>6
    <3>2. rq' \in Seq(Command)
      BY <2>4, <2>6
    <3>3. ReapOnceIn(rq')
      BY <2>4, <2>6
    <3>4. HasStop(rq') => HasStop(rq)
      BY <2>3, <2>4, <2>6, Zenon
    <3> QED
      BY <2>3, <3>1, <3>2, <3>3, <3>4
  <2> QED
    BY <2>3, <2>5, <2>6
<1>5. rsockets' \in Nat
  <2>1. /\ Cardinality(Reaping) \in Nat /\ Count(rq, "reaped") \in Nat
        /\ rsockets = Cardinality(Reaping) + Count(rq, "reaped")
    BY <1>1, FS_CardinalityType, CountType DEF ReaperCount, TypeOK
  <2>2. Head(rq).type = "reaped" => Count(rq, "reaped") > 0
    BY <1>1, CountHead, Zenon DEF TypeOK
  <2> QED
    BY <1>1, <2>1, <2>2 DEF One, TypeOK
<1>6. TypeOK'
  BY <1>1, <1>4, <1>5 DEF TypeOK, ctxvars, sockvars
<1>7. SlotsOnce' /\ Fresh' /\ SocketsKnown' /\ InCall'
  <2>1. /\ starting' = starting /\ terminating' = terminating /\ sockets' = sockets
        /\ empty_slots' = empty_slots /\ phase' = phase /\ slot' = slot /\ rdel' = rdel
    BY <1>1 DEF ctxvars, sockvars
  <2>2. SlotsOnce' /\ SocketsKnown'
    BY <2>1, ZenonT(40) DEF SlotsOnce, SocketsKnown
  <2> QED
    BY <1>2, <2>1, <2>2, Zenon DEF Fresh, InCall
<1>8. ReapOnce'
  <2>1. phase' = phase
    BY <1>1 DEF sockvars
  <2> QED
    BY <1>4, <2>1 DEF ReapOnce, ReapOnceIn
<1>9. ReaperCount'
  <2>1. Reaping' = Reaping
    BY <1>1, Zenon DEF Reaping, sockvars
  <2>2. IsFiniteSet(Reaping) /\ Cardinality(Reaping) \in Nat
    BY <1>1, FS_CardinalityType, Zenon DEF ReaperCount
  <2>3. Count(rq, "reaped") \in Nat /\ rsockets \in Nat
    BY CountType, Zenon DEF TypeOK
  <2> QED
    BY <1>1, <1>4, <1>5, <2>1, <2>2, <2>3 DEF ReaperCount, One
<1>10. StopIsLast'
  BY <1>1, <1>2, <1>3, <1>4, <1>5 DEF StopIsLast, TypeOK, ctxvars, One
<1> QED
  BY <1>6, <1>7, <1>8, <1>9, <1>10, Zenon

(* process_reap: the socket goes from closed to reaping.  It is not        *)
(* counted yet.                                                            *)
LEMMA ProcessReap ==
  ASSUME IInv, process_reap
  PROVE  IInv'
<1> USE CtxAssumption DEF IInv
<1> DEFINE s == Head(rq).socket
<1>1. /\ UNCHANGED <<ctxvars, done, tpc, slot, stop, ctx_terminated, rsockets,
                     rterminating, polled, stopping, rdel>>
      /\ rpc = "in_event" /\ rpc' = "process_reap" /\ rsock' = s
      /\ rq # << >> /\ Head(rq).type = "reap" /\ rq' = Tail(rq)
      /\ phase' = [phase EXCEPT ![s] = "reaping"]
  BY DEF process_reap, Head_is
<1>2. rdel = None /\ ~starting
  BY <1>1, Zenon DEF InCall, Fresh
<1>3. /\ Tail(rq) \in Seq(Command) /\ Head(rq) \in Command
      /\ HasStop(Tail(rq)) => HasStop(rq)
      /\ Count(Tail(rq), "reaped") = Count(rq, "reaped") - One(Head(rq), "reaped")
  BY <1>1, ReaperTakes, Zenon DEF TypeOK, ReapOnce
<1>4. One(Head(rq), "reaped") = 0 /\ Count(rq, "reaped") \in Nat
  BY <1>1, CountType DEF One, TypeOK
<1>5. s \in Socket
  BY <1>1, <1>3, Zenon DEF Command
<1>6. phase[s] = "closed" /\ s \in sockets
  BY <1>1, <1>2, <1>5 DEF ReapOnce, ReapOnceIn, TypeOK, SocketsKnown
<1> HIDE DEF s
<1>7. done = 0
  BY <1>6 DEF StopIsLast, TypeOK
<1>8. TypeOK'
  BY <1>1, <1>3, <1>5 DEF TypeOK, ctxvars
<1>9. SlotsOnce' /\ Fresh' /\ InCall' /\ StopIsLast'
  <2>1. SlotsOnce' /\ Fresh' /\ InCall'
    BY <1>1, <1>2, Zenon DEF SlotsOnce, Fresh, InCall, ctxvars
  <2> QED
    BY <1>1, <1>3, <1>7, <2>1 DEF StopIsLast, ctxvars
<1>10. SocketsKnown'
  BY <1>1, <1>2, <1>5, <1>6 DEF SocketsKnown, TypeOK, ctxvars
<1>11. ReapOnce'
  <2>1. /\ Len(rq) \in Nat \ {0} /\ DOMAIN rq = 1 .. Len(rq)
        /\ DOMAIN rq' = 1 .. Len(rq) - 1 /\ rq[1].type = "reap" /\ rq[1].socket = s
        /\ \A i \in 1 .. Len(rq) - 1 : rq'[i] = rq[i + 1]
    BY <1>1 DEF TypeOK, s
  <2>2. \A i \in DOMAIN rq' : i + 1 \in DOMAIN rq /\ rq'[i] = rq[i + 1] /\ i + 1 # 1
    BY <2>1
  <2>3. \A i \in DOMAIN rq' : rq'[i].type = "reap" =>
          rq'[i].socket # s /\ phase[rq'[i].socket] = "closed"
    BY <2>1, <2>2 DEF ReapOnce, ReapOnceIn
  <2>4. \A i \in DOMAIN rq' : rq'[i].type = "reap" => rq'[i].socket \in Socket
    <3>1. \A c \in Command : c.type = "reap" => c.socket \in Socket
      BY DEF Command
    <3>2. \A i \in DOMAIN rq' : rq'[i] \in Command
      BY <1>8 DEF TypeOK
    <3> QED
      BY <3>1, <3>2
  <2>5. \A i \in DOMAIN rq' : rq'[i].type = "reap" => phase'[rq'[i].socket] = "closed"
    BY <1>1, <2>3, <2>4 DEF TypeOK
  <2>6. \A i, j \in DOMAIN rq' : /\ rq'[i].type = "reap" /\ rq'[j].type = "reap"
                                /\ rq'[i].socket = rq'[j].socket
                                => i + 1 = j + 1
    BY <2>2 DEF ReapOnce, ReapOnceIn
  <2> QED
    BY <2>1, <2>5, <2>6 DEF ReapOnce, ReapOnceIn
<1>12. ReaperCount'
  <2>1. Reaping' = Reaping \cup {s} /\ s \notin Reaping
    BY <1>1, <1>5, <1>6 DEF Reaping, TypeOK
  <2>2. IsFiniteSet(Reaping') /\ Cardinality(Reaping') = Cardinality(Reaping) + 1
    BY <2>1, FS_AddElement DEF ReaperCount
  <2>3. Count(rq', "reaped") = Count(rq, "reaped")
    BY <1>1, <1>3, <1>4
  <2>4. Cardinality(Reaping) \in Nat
    BY FS_CardinalityType DEF ReaperCount
  <2> QED
    BY <1>1, <1>4, <2>2, <2>3, <2>4 DEF ReaperCount, TypeOK
<1> QED
  BY <1>8, <1>9, <1>10, <1>11, <1>12

(* The end of process_reap: the socket is counted. *)
LEMMA ReapReturn ==
  ASSUME IInv, ReapReturns
  PROVE  IInv'
<1> USE CtxAssumption DEF IInv
<1>1. /\ UNCHANGED <<ctxvars, done, tpc, sockvars, rq, rterminating, polled,
                     stopping, rdel>>
      /\ rpc = "process_reap" /\ rpc' = "in_event" /\ rdel = None
      /\ rsockets' = rsockets + 1 /\ rsock' = None
  BY Zenon DEF ReapReturns
<1>2. done = 0
  BY <1>1 DEF StopIsLast, TypeOK
<1>3. TypeOK'
  BY <1>1 DEF TypeOK, ctxvars, sockvars
<1>4. SlotsOnce' /\ Fresh' /\ SocketsKnown' /\ InCall'
  BY <1>1, ZenonT(40) DEF SlotsOnce, Fresh, SocketsKnown, InCall, ctxvars, sockvars
<1>5. ReapOnce' /\ StopIsLast'
  BY <1>1, <1>2, Zenon DEF ReapOnce, ReapOnceIn, StopIsLast, HasStop, ctxvars, sockvars
<1>6. ReaperCount'
  BY <1>1, FS_CardinalityType, CountType DEF ReaperCount, Reaping, TypeOK, sockvars
<1> QED
  BY <1>3, <1>4, <1>5, <1>6

(* destroy_socket gives the slot back and stops the reaper after the last  *)
(* socket of a terminating context.                                        *)
LEMMA DestroySocket ==
  ASSUME IInv, NEW s \in Socket, destroy_socket(s)
  PROVE  IInv'
<1> USE CtxAssumption DEF IInv
<1>1. /\ UNCHANGED <<starting, terminating, done, tpc, phase, stop, ctx_terminated,
                     rsockets, rterminating, polled, stopping, rpc, rsock>>
      /\ phase[s] = "reaping" /\ rdel = None /\ rdel' = s
      /\ rpc \in {"poll", "process_reap"}
      /\ empty_slots' = Append(empty_slots, slot[s])
      /\ slot' = [slot EXCEPT ![s] = None] /\ sockets' = sockets \ {s}
      /\ \/ terminating /\ sockets' = {} /\ rq' = Append(rq, [type |-> "stop"])
         \/ rq' = rq
  BY Zenon DEF destroy_socket
<1>2. s \in sockets /\ slot[s] \in Slot /\ slot[s] # None /\ ~starting /\ done = 0
  BY <1>1 DEF SocketsKnown, TypeOK, Fresh, StopIsLast
<1>3. /\ rq' \in Seq(Command) /\ ReapOnceIn(rq')
      /\ Count(rq', "reaped") = Count(rq, "reaped")
      /\ HasStop(rq') => (terminating /\ sockets' = {}) \/ HasStop(rq)
  <2> DEFINE x == [type |-> "stop"]
  <2>1. x \in Command /\ x.type = "stop" /\ One(x, "reaped") = 0
    BY DEF Command, One
  <2>2. rq \in Seq(Command) /\ ReapOnceIn(rq) /\ Count(rq, "reaped") \in Nat
    BY CountType DEF TypeOK, ReapOnce
  <2>3. CASE rq' = rq
    BY <2>2, <2>3
  <2>4. CASE terminating /\ sockets' = {} /\ rq' = Append(rq, x)
    <3> HIDE DEF x
    <3>1. /\ Append(rq, x) \in Seq(Command) /\ ReapOnceIn(Append(rq, x))
          /\ Count(Append(rq, x), "reaped") = Count(rq, "reaped") + 0
      BY <2>1, <2>2, SendToReaper
    <3>2. rq' \in Seq(Command) /\ ReapOnceIn(rq')
      BY <2>4, <3>1
    <3>3. Count(rq', "reaped") = Count(rq, "reaped")
      BY <2>2, <2>4, <3>1
    <3> QED
      BY <2>4, <3>2, <3>3
  <2> QED
    BY <1>1, <2>3, <2>4
<1>4. TypeOK'
  BY <1>1, <1>2, <1>3 DEF TypeOK
<1>5. SlotsOnce'
  <2>1. /\ \A t \in Socket : slot'[t] = IF t = s THEN None ELSE slot[t]
        /\ \A i \in DOMAIN empty_slots' : empty_slots'[i] \in Slot
    BY <1>1, <1>4 DEF TypeOK
  <2>2. /\ Len(empty_slots) \in Nat /\ DOMAIN empty_slots = 1 .. Len(empty_slots)
        /\ DOMAIN empty_slots' = 1 .. Len(empty_slots) + 1
        /\ \A i \in 1 .. Len(empty_slots) : empty_slots'[i] = empty_slots[i]
        /\ empty_slots'[Len(empty_slots) + 1] = slot[s]
    <3>1. /\ empty_slots \in Seq(Slot) /\ slot[s] \in Slot
          /\ empty_slots' = Append(empty_slots, slot[s])
      BY <1>1, <1>2, Zenon DEF TypeOK
    <3> QED BY ONLY <3>1
  <2>3. \A i, j \in DOMAIN empty_slots' : empty_slots'[i] = empty_slots'[j] => i = j
    <3>1. /\ \A i, j \in DOMAIN empty_slots : empty_slots[i] = empty_slots[j] => i = j
          /\ \A i \in DOMAIN empty_slots : empty_slots[i] # slot[s]
      BY Zenon DEF SlotsOnce
    <3> QED BY ONLY <2>2, <3>1
  <2>4. \A t, u \in Socket : slot'[t] = slot'[u] /\ slot'[t] # None => t = u
    BY <2>1 DEF SlotsOnce
  <2>5. \A i \in DOMAIN empty_slots', t \in Socket : empty_slots'[i] # slot'[t]
    BY <1>2, <2>1, <2>2 DEF SlotsOnce
  <2>6. \A n \in Slot : \/ \E i \in DOMAIN empty_slots' : empty_slots'[i] = n
                       \/ \E t \in Socket : slot'[t] = n
    <3> SUFFICES ASSUME NEW n \in Slot, \A t \in Socket : slot'[t] # n
                 PROVE  \E i \in DOMAIN empty_slots' : empty_slots'[i] = n
      BY Zenon
    <3>1. CASE slot[s] = n
      BY <2>2, <3>1
    <3>2. CASE slot[s] # n
      <4>1. \A t \in Socket : slot[t] # n
        BY <2>1, <3>2, Zenon
      <4>2. PICK i \in DOMAIN empty_slots : empty_slots[i] = n
        BY <1>2, <4>1, Zenon DEF SlotsOnce
      <4> QED
        BY <2>2, <4>2
    <3> QED
      BY <3>1, <3>2
  <2> QED
    BY <2>3, <2>4, <2>5, <2>6, Zenon DEF SlotsOnce
<1>6. SocketsKnown' /\ InCall' /\ Fresh'
  BY <1>1, <1>2, Zenon DEF SocketsKnown, InCall, Fresh, TypeOK
<1>7. ReapOnce'
  BY <1>1, <1>3, Zenon DEF ReapOnce, ReapOnceIn
<1>8. StopIsLast'
  BY <1>1, <1>2, <1>3, Zenon DEF StopIsLast
<1>9. ReaperCount'
  BY <1>1, <1>3 DEF ReaperCount, Reaping
<1> QED
  BY <1>4, <1>5, <1>6, <1>7, <1>8, <1>9, Zenon

(* send_reaped: the socket is gone, and its reaped command on its way. *)
LEMMA SendReaped ==
  ASSUME IInv, send_reaped
  PROVE  IInv'
<1> USE CtxAssumption DEF IInv
<1> DEFINE x == [type |-> "reaped"]
<1>1. /\ UNCHANGED <<ctxvars, done, tpc, slot, stop, ctx_terminated, rsockets,
                     rterminating, polled, stopping, rpc, rsock>>
      /\ rdel # None /\ rdel' = None /\ rq' = Append(rq, x)
      /\ phase' = [phase EXCEPT ![rdel] = "gone"]
  BY DEF send_reaped
<1>2. x \in Command /\ x.type = "reaped" /\ One(x, "reaped") = 1
  BY Zenon DEF Command, One
<1> HIDE DEF x
<1>3. rdel \in Socket /\ phase[rdel] = "reaping" /\ rpc \in {"poll", "process_reap"}
  BY <1>1, Zenon DEF InCall, TypeOK
<1>4. done = 0
  BY <1>1 DEF StopIsLast, TypeOK
<1>5. ~starting
  BY <1>1, Zenon DEF Fresh
<1>6. /\ rq' \in Seq(Command) /\ ReapOnceIn(rq') /\ (HasStop(rq') => HasStop(rq))
      /\ Count(rq', "reaped") = Count(rq, "reaped") + 1 /\ Count(rq, "reaped") \in Nat
  BY <1>1, <1>2, SendToReaper, CountType, Zenon DEF TypeOK, ReapOnce
<1>7. TypeOK'
  BY <1>1, <1>3, <1>6, Zenon DEF TypeOK, ctxvars
<1>8. SlotsOnce' /\ Fresh' /\ InCall' /\ StopIsLast'
  BY <1>1, <1>4, <1>5, <1>6 DEF SlotsOnce, Fresh, InCall, StopIsLast, ctxvars
<1>9. SocketsKnown'
  BY <1>1, <1>3, Zenon DEF SocketsKnown, TypeOK, ctxvars
<1>10. ReapOnce'
  <2>1. \A c \in Command : c.type = "reap" => c.socket \in Socket
    BY Zenon DEF Command
  <2>2. \A i \in DOMAIN rq' : rq'[i] \in Command
    BY <1>7 DEF TypeOK
  <2>3. \A i \in DOMAIN rq' : rq'[i].type = "reap" =>
          phase[rq'[i].socket] = "closed" /\ rq'[i].socket \in Socket
    BY <1>6, <2>1, <2>2, Zenon DEF ReapOnceIn
  <2>4. \A i \in DOMAIN rq' : rq'[i].type = "reap" => phase'[rq'[i].socket] = "closed"
    BY <1>1, <1>3, <2>3, Zenon DEF TypeOK
  <2> QED
    BY <1>6, <2>4 DEF ReapOnce, ReapOnceIn
<1>11. ReaperCount'
  <2>1. Reaping' = Reaping \ {rdel} /\ rdel \in Reaping
    BY <1>1, <1>3 DEF Reaping, TypeOK
  <2>2. IsFiniteSet(Reaping') /\ Cardinality(Reaping') = Cardinality(Reaping) - 1
    BY <2>1, FS_RemoveElement DEF ReaperCount
  <2>3. Cardinality(Reaping) \in Nat
    BY FS_CardinalityType DEF ReaperCount
  <2> QED
    BY <1>1, <1>6, <2>2, <2>3 DEF ReaperCount, TypeOK
<1> QED
  BY <1>7, <1>8, <1>9, <1>10, <1>11

(* Every step of the application, of xs_term and of the reaper preserves   *)
(* the invariant.                                                          *)
LEMMA NextIInv == IInv /\ [Next]_vars => IInv'
<1> SUFFICES ASSUME IInv, [Next]_vars PROVE IInv'
  OBVIOUS
<1>1. ASSUME NEW s \in Socket,
             \/ create_socket(s) \/ Block(s) \/ Unblock(s)
             \/ process_stop(s) \/ close(s) \/ destroy_socket(s)
      PROVE  IInv'
  BY <1>1, CreateSocket, CallOnSocket, CloseSocket, DestroySocket
<1>2. CASE Terminate \/ TerminateInterrupted \/ TerminateDone \/ Delete
  BY <1>2, TermSteps
<1>3. CASE TerminateStop
  BY <1>3, TermStopStep
<1>4. CASE Reaper
  BY <1>4, InEventSteps, ReaperCommands, ProcessReap, ReapReturn, SendReaped, Zenon DEF Reaper
<1>5. CASE UNCHANGED vars
  <2>1. UNCHANGED <<starting, terminating, sockets, empty_slots, done, tpc, phase,
                    slot, stop, ctx_terminated, rq, rsockets, rterminating, polled,
                    stopping, rpc, rsock, rdel>>
    BY <1>5 DEF vars, ctxvars, sockvars, reapervars
  <2>2. TypeOK' /\ SlotsOnce' /\ Fresh' /\ SocketsKnown' /\ InCall'
    BY <2>1 DEF IInv, TypeOK, SlotsOnce, Fresh, SocketsKnown, InCall
  <2>3. ReapOnce' /\ StopIsLast' /\ ReaperCount'
    BY <2>1, Zenon DEF IInv, ReapOnce, ReapOnceIn, StopIsLast, HasStop, ReaperCount, Reaping
  <2> QED
    BY <2>2, <2>3 DEF IInv
<1> QED
  BY <1>1, <1>2, <1>3, <1>4, <1>5 DEF Next
-----------------------------------------------------------------------------
(* The inductive invariant holds in every reachable state. *)
THEOREM Invariance == Spec => []IInv
  BY InitIInv, NextIInv, PTL DEF Spec

(* max_sockets is the real limit: ctx_t neither loses a slot nor gives it  *)
(* to two sockets, however create_socket, xs_close and the reaper          *)
(* interleave.                                                             *)
THEOREM SlotsAreExact == Spec => []SlotsExact
<1>1. IInv => SlotsExact
  <2> SUFFICES ASSUME IInv, ~starting, NEW n \in Slot
               PROVE  Cardinality({i \in DOMAIN empty_slots : empty_slots[i] = n})
                        + Cardinality({s \in Socket : slot[s] = n}) = 1
    BY Zenon DEF IInv, SlotsExact, SocketsKnown
  <2> USE CtxAssumption DEF IInv, SlotsOnce
  <2>1. CASE \E i \in DOMAIN empty_slots : empty_slots[i] = n
    <3>1. PICK i \in DOMAIN empty_slots : empty_slots[i] = n
      BY <2>1, Zenon
    <3>2. {j \in DOMAIN empty_slots : empty_slots[j] = n} = {i}
      BY <3>1
    <3>3. {s \in Socket : slot[s] = n} = {}
      BY <3>1
    <3>4. Cardinality({i}) = 1 /\ Cardinality({}) = 0
      BY FS_Singleton, FS_EmptySet, Zenon
    <3>5. /\ Cardinality({j \in DOMAIN empty_slots : empty_slots[j] = n}) = 1
          /\ Cardinality({s \in Socket : slot[s] = n}) = 0
      BY ONLY <3>2, <3>3, <3>4, Zenon
    <3> QED
      BY ONLY <3>5
  <2>2. CASE \A i \in DOMAIN empty_slots : empty_slots[i] # n
    <3>1. PICK s \in Socket : slot[s] = n
      BY <2>2
    <3>2. {t \in Socket : slot[t] = n} = {s}
      BY <3>1, Zenon
    <3>3. {i \in DOMAIN empty_slots : empty_slots[i] = n} = {}
      BY <2>2, Zenon
    <3>4. Cardinality({s}) = 1 /\ Cardinality({}) = 0
      BY FS_Singleton, FS_EmptySet, Zenon
    <3>5. /\ Cardinality({i \in DOMAIN empty_slots : empty_slots[i] = n}) = 0
          /\ Cardinality({t \in Socket : slot[t] = n}) = 1
      BY ONLY <3>2, <3>3, <3>4, Zenon
    <3> QED
      BY ONLY <3>5
  <2> QED
    BY <2>1, <2>2
<1> QED
  BY <1>1, Invariance, PTL

(* xs_term is told that the reaper is done only after the last socket is   *)
(* destroyed and taken off the reaper's count.                             *)
THEOREM DoneAfterReaping == Spec => []DoneMeansReaped
<1>1. IInv => DoneMeansReaped
  <2> SUFFICES ASSUME IInv, done > 0 PROVE DoneMeansReaped
    BY DEF IInv, TypeOK, DoneMeansReaped
  <2>1. sockets = {} /\ rsockets = 0 /\ rdel = None
    BY DEF IInv, StopIsLast
  <2>2. \A s \in Socket : phase[s] \in {"none", "gone"}
    BY <2>1, CtxAssumption DEF IInv, SocketsKnown, TypeOK
  <2> QED
    BY <2>1, <2>2, Zenon DEF DoneMeansReaped
<1> QED
  BY <1>1, Invariance, PTL

(* Every socket of a context is accounted for until the context ends. *)
THEOREM EverySocketAccounted == Spec => []SocketsAccounted
  BY SlotsAreExact, DoneAfterReaping, PTL DEF SocketsAccounted
=============================================================================
