--------------------------------- MODULE Lb ---------------------------------
(***************************************************************************)
(* lb_t (src/lb.cpp), the load balancer of PUSH and XREQ sockets, over the *)
(* pipes it writes to.  Of a pipe_t the module keeps what module Pipe      *)
(* shows a writer can see: whether write succeeds, and the events          *)
(* write_activated and terminated.  All of it runs in the thread of the    *)
(* socket; the commands of the peers are processed between two calls.  The *)
(* loops of send and has_out are one action per iteration.                 *)
(***************************************************************************)
EXTENDS PipeArray

CONSTANTS Pipe, NoPipe,
          Setting      \* the kinds of sockets to check, see SettingType

(* pipes: the pipes of the socket; bounded: those with a high-water mark;  *)
(* ends: those whose peer may terminate them; multipart: whether messages  *)
(* of several parts are sent; patient: the application makes no call while *)
(* a pipe is ending.                                                       *)
SettingType == [pipes : SUBSET Pipe, bounded : SUBSET Pipe,
                ends : SUBSET Pipe, multipart : BOOLEAN, patient : BOOLEAN]

VARIABLES
  setting,       \* the kind of this socket
  pipes, active, current, more, dropping,   \* lb_t
  link,          \* "none", "active", or "ended": no longer in state active
  out_active,    \* pipe_t::out_active
  full,          \* the high-water mark is reached
  pc, part,      \* the call in progress; the part it sends has more to follow
  target,        \* history: the pipe that has the first parts of a message
  since          \* history: messages q got since p got one: since[p][q]

lbvars == <<pipes, active, current, more, dropping>>
vars == <<setting, lbvars, link, out_active, full, pc, part, target, since>>

Nobody == [q \in Pipe |-> 0]

(* The history of messages after q got one; counted up to three. *)
Served(q) ==
  [p \in Pipe |-> IF p = q THEN Nobody
                  ELSE [since[p] EXCEPT ![q] = IF @ < 3 THEN @ + 1 ELSE @]]

TypeOK ==
  /\ setting \in SettingType
  /\ pipes \in Seq(Pipe) /\ active \in 0 .. Len(pipes) /\ current \in Nat
  /\ more \in BOOLEAN /\ dropping \in BOOLEAN /\ part \in BOOLEAN
  /\ link \in [Pipe -> {"none", "active", "ended"}]
  /\ out_active \in [Pipe -> BOOLEAN] /\ full \in [Pipe -> BOOLEAN]
  /\ pc \in {"idle", "send", "has_out", "abort", "undefined"}
  /\ target \in Pipe \cup {NoPipe} /\ since \in [Pipe -> [Pipe -> 0 .. 3]]

Init ==
  /\ setting \in Setting
  /\ pipes = << >> /\ active = 0 /\ current = 0
  /\ more = FALSE /\ dropping = FALSE
  /\ link = [p \in Pipe |-> "none"]
  /\ out_active = [p \in Pipe |-> TRUE] /\ full = [p \in Pipe |-> FALSE]
  /\ pc = "idle" /\ part = FALSE
  /\ target = NoPipe /\ since = [p \in Pipe |-> Nobody]
-----------------------------------------------------------------------------
(* Events of the pipes *)

(* attach: a new pipe joins the active ones. *)
attach(p) ==
  /\ pc = "idle" /\ p \in setting.pipes /\ link[p] = "none"
  /\ pipes' = swap(push_back(pipes, p), active, Len(pipes))
  /\ active' = active + 1
  /\ link' = [link EXCEPT ![p] = "active"]
  /\ out_active' = [out_active EXCEPT ![p] = TRUE]
  /\ full' = [full EXCEPT ![p] = FALSE]
  /\ since' = [since EXCEPT ![p] = Nobody]
  /\ UNCHANGED <<setting, current, more, dropping, pc, part, target>>

(* The pipe leaves state active: its peer asked for termination. *)
PeerEnds(p) ==
  /\ pc = "idle" /\ p \in setting.ends /\ link[p] = "active"
  /\ link' = [link EXCEPT ![p] = "ended"]
  /\ UNCHANGED <<setting, lbvars, out_active, full, pc, part, target, since>>

(* Mutant: the rest of a message whose pipe is gone is not dropped. *)
terminated_NoDrop(p) ==
  /\ pc = "idle" /\ link[p] = "ended"
  /\ LET i == index(pipes, p) IN
       /\ active' = IF i < active THEN active - 1 ELSE active
       /\ current' = IF i < active /\ current = active' THEN 0 ELSE current
       /\ pipes' = erase(pipes, i)
  /\ link' = [link EXCEPT ![p] = "none"]
  /\ target' = IF target = p THEN NoPipe ELSE target
  /\ UNCHANGED <<setting, more, dropping, out_active, full, pc, part, since>>

terminated(p) ==
  /\ pc = "idle" /\ link[p] = "ended"
  /\ LET i == index(pipes, p) IN
       /\ dropping' = (dropping \/ (i = current /\ more))
       /\ active' = IF i < active THEN active - 1 ELSE active
       /\ current' = IF i < active /\ current = active' THEN 0 ELSE current
       /\ pipes' = erase(pipes, i)
  /\ link' = [link EXCEPT ![p] = "none"]
  /\ target' = IF target = p THEN NoPipe ELSE target
  /\ UNCHANGED <<setting, more, out_active, full, pc, part, since>>

(* Mutant: the pipe is not moved among the active ones. *)
activated_NoSwap(p) ==
  /\ pc = "idle" /\ link[p] = "active" /\ full[p]
  /\ full' = [full EXCEPT ![p] = FALSE]
  /\ out_active' = [out_active EXCEPT ![p] = TRUE]
  /\ active' = IF out_active[p] THEN active ELSE active + 1
  /\ UNCHANGED <<setting, pipes, current, more, dropping, link, pc, part,
                 target, since>>

(* process_activate_write of a full pipe; activated, if the pipe was told  *)
(* to be full.  Past the end of the array the swap is undefined.           *)
activated(p) ==
  /\ pc = "idle" /\ link[p] = "active" /\ full[p]
  /\ full' = [full EXCEPT ![p] = FALSE]
  /\ out_active' = [out_active EXCEPT ![p] = TRUE]
  /\ \/ /\ out_active[p]
        /\ UNCHANGED <<pipes, active, pc, since>>
     \/ /\ ~out_active[p]
        /\ IF active < Len(pipes)
           THEN /\ pipes' = swap(pipes, index(pipes, p), active)
                /\ active' = active + 1
                /\ since' = [since EXCEPT ![p] = Nobody]
                /\ UNCHANGED pc
           ELSE /\ pc' = "undefined"
                /\ UNCHANGED <<pipes, active, since>>
  /\ UNCHANGED <<setting, current, more, dropping, link, part, target>>
-----------------------------------------------------------------------------
(* send and has_out *)

Current == At(pipes, current)

(* pipe_t::check_write *)
Writable(p) == link[p] = "active" /\ out_active[p] /\ ~full[p]

(* check_write of a pipe it finds full *)
CheckWriteFails(p) ==
  out_active' = [out_active EXCEPT ![p] = @ /\ link[p] # "active"]

MayCall == setting.patient => \A p \in Pipe : link[p] # "ended"

(* send of a part; while dropping, the part is thrown away. *)
Send(more_) ==
  /\ pc = "idle" /\ MayCall
  /\ more_ => setting.multipart
  /\ \/ /\ dropping
        /\ more' = more_ /\ dropping' = more_
        /\ UNCHANGED <<pc, part>>
     \/ /\ ~dropping
        /\ pc' = "send" /\ part' = more_
        /\ UNCHANGED <<more, dropping>>
  /\ UNCHANGED <<setting, pipes, active, current, link, out_active, full,
                 target, since>>

(* Mutant: the next message goes to the same pipe again. *)
SendWrite_Stay ==
  /\ pc = "send" /\ active > 0 /\ Writable(Current)
  /\ more' = part
  /\ target' = IF part THEN Current ELSE NoPipe
  /\ since' = IF part THEN since ELSE Served(At(pipes, current))
  /\ pc' = "idle"
  /\ UNCHANGED <<setting, pipes, active, current, dropping, link, out_active,
                 full, part>>

(* The current pipe takes the part.  The last part of a message is flushed *)
(* and may fill the pipe; the next message is for the next pipe.           *)
SendWrite ==
  /\ pc = "send" /\ active > 0 /\ Writable(Current)
  /\ more' = part
  /\ target' = IF part THEN Current ELSE NoPipe
  /\ IF part
     THEN UNCHANGED <<current, full, since>>
     ELSE /\ current' = (current + 1) % active
          /\ \E b \in {FALSE, (Current \in setting.bounded)} :
               full' = [full EXCEPT ![Current] = b]
          /\ since' = Served(Current)
  /\ pc' = "idle"
  /\ UNCHANGED <<setting, pipes, active, dropping, link, out_active, part>>

(* The current pipe refuses the part and becomes passive, unless it has    *)
(* taken earlier parts of the message: xs_assert (!more).                  *)
SendFails ==
  /\ pc = "send" /\ active > 0 /\ ~Writable(Current)
  /\ CheckWriteFails(Current)
  /\ IF more
     THEN pc' = "abort" /\ UNCHANGED <<pipes, active, current>>
     ELSE /\ active' = active - 1
          /\ pipes' = swap(pipes, current, active - 1)
          /\ current' = IF current < active - 1 THEN current ELSE 0
          /\ UNCHANGED pc
  /\ UNCHANGED <<setting, more, dropping, link, full, part, target, since>>

(* No pipe is left: EAGAIN. *)
SendAgain ==
  /\ pc = "send" /\ active = 0
  /\ pc' = "idle"
  /\ UNCHANGED <<setting, lbvars, link, out_active, full, part, target, since>>

(* has_out: in the middle of a message the answer is yes at once. *)
HasOut ==
  /\ pc = "idle" /\ MayCall /\ ~more
  /\ pc' = "has_out"
  /\ UNCHANGED <<setting, lbvars, link, out_active, full, part, target, since>>

HasOutFails ==
  /\ pc = "has_out" /\ active > 0 /\ ~Writable(Current)
  /\ CheckWriteFails(Current)
  /\ active' = active - 1
  /\ pipes' = swap(pipes, current, active - 1)
  /\ current' = IF current = active - 1 THEN 0 ELSE current
  /\ UNCHANGED <<setting, more, dropping, link, full, pc, part, target, since>>

HasOutReturns ==
  /\ pc = "has_out" /\ (active > 0 => Writable(Current))
  /\ pc' = "idle"
  /\ UNCHANGED <<setting, lbvars, link, out_active, full, part, target, since>>

Next ==
  \/ \E p \in Pipe : attach(p) \/ PeerEnds(p) \/ terminated(p) \/ activated(p)
  \/ \E more_ \in BOOLEAN : Send(more_)
  \/ SendWrite \/ SendFails \/ SendAgain
  \/ HasOut \/ HasOutFails \/ HasOutReturns

Spec == Init /\ [][Next]_vars
-----------------------------------------------------------------------------
(* Properties *)

(* "All the active pipes are located at the beginning of the pipes array": *)
(* a pipe that could be written to, and so will get no write_activated, is *)
(* among the active ones.  One outside would never be used again.  And the *)
(* state is well typed: active never leaves the array.                     *)
ActiveFirst ==
  /\ TypeOK
  /\ \A p \in Pipe :
       (link[p] = "active" /\ out_active[p]) => p \in First(pipes, active)

(* "peers shall receive either all message parts of a message or none at   *)
(* all" (doc/xs_send.txt): in the middle of a message the current pipe is  *)
(* the one that has its first parts, unless that one is gone and the rest  *)
(* is being dropped.                                                       *)
MessageInOnePipe == more /\ ~dropping => active > 0 /\ Current = target

(* "load balances messages fairly among the pipes": while a pipe that can  *)
(* be written to waits for its turn, no other pipe gets more than two      *)
(* messages; two, because a pipe that turns passive is replaced by the     *)
(* last one, which may already have had its turn.                          *)
BoundedOvertaking ==
  \A p \in First(pipes, active) : link[p] = "active" /\ out_active[p] =>
    \A q \in Pipe : since[p][q] <= 2

(* xs_assert (!more): a pipe that has taken a part takes the others. *)
NoAbort == pc # "abort"
=============================================================================
