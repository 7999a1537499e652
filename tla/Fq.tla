--------------------------------- MODULE Fq ---------------------------------
(***************************************************************************)
(* fq_t (src/fq.cpp), the fair queue of PULL, XREQ, XREP, XSUB, XSURVEYOR  *)
(* and XRESPONDENT sockets, over the pipes it reads from.  Of a pipe_t the *)
(* module keeps what module Pipe shows a reader can see: whole messages    *)
(* appear in the pipe, a delimiter after the last of them; a reader that   *)
(* found the pipe empty gets read_activated.  All of it runs in the thread *)
(* of the socket, except the arrival of messages.  The loops of recvpipe   *)
(* and has_in are one action per iteration.                                *)
(***************************************************************************)
EXTENDS PipeArray

CONSTANTS Pipe,
          Delayed,     \* the pipes read to the delimiter (pipe_t::delay)
          MaxQueue,    \* bound on the parts in a pipe
          NoPipe

(* What a pipe holds: message parts, by their flag more, and a delimiter *)
Item == {"more", "last", "delimiter"}

VARIABLES
  pipes, active, current, more,   \* fq_t
  link,          \* "none", "active", or "ended": read returns false for good
  in_active,     \* pipe_t::in_active
  queue,         \* the items of the pipe
  pc, count,     \* the call in progress and its loop counter
  source,        \* history: the pipe the first parts of a message came from
  since          \* history: messages q gave since p gave one: since[p][q]

fqvars == <<pipes, active, current, more>>
vars == <<fqvars, link, in_active, queue, pc, count, source, since>>

Nobody == [q \in Pipe |-> 0]

(* The pipe is among the active ones and has a message. *)
Waits(p) == queue[p] # << >> /\ p \in First(pipes, active)

(* The history of messages after q gave one, for the pipes that wait;     *)
(* counted up to three.                                                    *)
Served(q) ==
  [p \in Pipe |-> IF p = q \/ ~Waits(p) THEN Nobody
                  ELSE [since[p] EXCEPT ![q] = IF @ < 3 THEN @ + 1 ELSE @]]

TypeOK ==
  /\ pipes \in Seq(Pipe) /\ active \in 0 .. Len(pipes) /\ current \in Nat
  /\ more \in BOOLEAN /\ count \in Nat
  /\ link \in [Pipe -> {"none", "active", "ended"}]
  /\ in_active \in [Pipe -> BOOLEAN] /\ queue \in [Pipe -> Seq(Item)]
  /\ pc \in {"idle", "recv", "has_in", "abort", "undefined"}
  /\ source \in Pipe \cup {NoPipe} /\ since \in [Pipe -> [Pipe -> 0 .. 3]]

Init ==
  /\ pipes = << >> /\ active = 0 /\ current = 0 /\ more = FALSE
  /\ link = [p \in Pipe |-> "none"]
  /\ in_active = [p \in Pipe |-> TRUE] /\ queue = [p \in Pipe |-> << >>]
  /\ pc = "idle" /\ count = 0
  /\ source = NoPipe /\ since = [p \in Pipe |-> Nobody]
-----------------------------------------------------------------------------
(* Events of the pipes *)

Closing(p) == Has(queue[p], "delimiter")

(* The peer flushes a message of one or two parts. *)
Arrive(p, msg) ==
  /\ link[p] = "active" /\ ~Closing(p)
  /\ Len(queue[p]) + Len(msg) <= MaxQueue
  /\ queue' = [queue EXCEPT ![p] = @ \o msg]
  /\ UNCHANGED <<fqvars, link, in_active, pc, count, source, since>>

(* The peer terminates the pipe: it writes a delimiter; a pipe that is not *)
(* Delayed is closed to its reader at once.                                *)
PeerEnds(p) ==
  /\ link[p] = "active" /\ ~Closing(p)
  /\ IF p \in Delayed
     THEN /\ queue' = [queue EXCEPT ![p] = Append(@, "delimiter")]
          /\ UNCHANGED link
     ELSE /\ pc = "idle"
          /\ link' = [link EXCEPT ![p] = "ended"]
          /\ UNCHANGED queue
  /\ UNCHANGED <<fqvars, in_active, pc, count, source, since>>

attach(p) ==
  /\ pc = "idle" /\ link[p] = "none"
  /\ pipes' = swap(push_back(pipes, p), active, Len(pipes))
  /\ active' = active + 1
  /\ link' = [link EXCEPT ![p] = "active"]
  /\ in_active' = [in_active EXCEPT ![p] = TRUE]
  /\ queue' = [queue EXCEPT ![p] = << >>]
  /\ since' = [since EXCEPT ![p] = Nobody]
  /\ UNCHANGED <<current, more, pc, count, source>>

terminated(p) ==
  /\ pc = "idle" /\ link[p] = "ended"
  /\ LET i == index(pipes, p) IN
       /\ active' = IF i < active THEN active - 1 ELSE active
       /\ current' = IF i < active /\ current = active' THEN 0 ELSE current
       /\ pipes' = erase(pipes, i)
  /\ link' = [link EXCEPT ![p] = "none"]
  /\ source' = IF source = p THEN NoPipe ELSE source
  /\ since' = [q \in Pipe |-> IF q = p THEN Nobody ELSE [since[q] EXCEPT ![p] = 0]]
  /\ in_active' = [in_active EXCEPT ![p] = TRUE]
  /\ queue' = [queue EXCEPT ![p] = << >>]
  /\ UNCHANGED <<more, pc, count>>

(* process_activate_read, which calls activated.  Past the end of the      *)
(* array the swap is undefined.                                            *)
activated(p) ==
  /\ pc = "idle" /\ link[p] = "active" /\ ~in_active[p] /\ queue[p] # << >>
  /\ in_active' = [in_active EXCEPT ![p] = TRUE]
  /\ IF active < Len(pipes)
     THEN /\ pipes' = swap(pipes, index(pipes, p), active)
          /\ active' = active + 1
          /\ since' = [since EXCEPT ![p] = Nobody]
          /\ UNCHANGED pc
     ELSE /\ pc' = "undefined"
          /\ UNCHANGED <<pipes, active, since>>
  /\ UNCHANGED <<current, more, link, queue, count, source>>
-----------------------------------------------------------------------------
(* recvpipe and has_in *)

Current == At(pipes, current)

(* pipe_t::check_read *)
Readable(p) ==
  /\ link[p] = "active" /\ in_active[p]
  /\ queue[p] # << >> /\ Head(queue[p]) # "delimiter"

(* check_read or read of a pipe that has no message part: an empty pipe    *)
(* becomes inactive, a delimiter ends the pipe.                            *)
ReadFails(p) ==
  LET reads == link[p] = "active" /\ in_active[p]
      empty == queue[p] = << >>
  IN  /\ in_active' = [in_active EXCEPT ![p] = @ /\ ~(reads /\ empty)]
      /\ link' = [link EXCEPT ![p] = IF reads /\ ~empty THEN "ended" ELSE @]

(* Mutant: the last active pipe is lost instead of the current one. *)
Deactivate_NoSwap ==
  /\ active' = active - 1
  /\ current' = IF current = active - 1 THEN 0 ELSE current
  /\ since' = [since EXCEPT ![Current] = Nobody]
  /\ UNCHANGED pipes

(* The current pipe is replaced by the last active one. *)
Deactivate ==
  /\ active' = active - 1
  /\ pipes' = swap(pipes, current, active - 1)
  /\ current' = IF current = active - 1 THEN 0 ELSE current
  /\ since' = [since EXCEPT ![Current] = Nobody]

(* recv or has_in is called; in the middle of a message has_in says yes. *)
Call(op) ==
  /\ pc = "idle"
  /\ op = "has_in" => ~more
  /\ pc' = op /\ count' = active
  /\ UNCHANGED <<fqvars, link, in_active, queue, source, since>>

(* Mutant: every part moves on to the next pipe. *)
RecvFetch_Advance ==
  /\ pc = "recv" /\ count > 0 /\ Readable(Current)
  /\ queue' = [queue EXCEPT ![Current] = Tail(@)]
  /\ more' = (Head(queue[Current]) = "more")
  /\ source' = IF more' THEN Current ELSE NoPipe
  /\ current' = IF current + 1 >= active THEN 0 ELSE current + 1
  /\ pc' = "idle"
  /\ UNCHANGED <<pipes, active, link, in_active, count, since>>

(* Mutant: the current pipe is read until it is empty. *)
RecvFetch_Stay ==
  /\ pc = "recv" /\ count > 0 /\ Readable(Current)
  /\ queue' = [queue EXCEPT ![Current] = Tail(@)]
  /\ more' = (Head(queue[Current]) = "more")
  /\ source' = IF more' THEN Current ELSE NoPipe
  /\ since' = IF more' THEN since ELSE Served(Current)
  /\ pc' = "idle"
  /\ UNCHANGED <<pipes, active, current, link, in_active, count>>

(* The current pipe gives a part; after the last part of a message the     *)
(* next pipe is current.                                                   *)
RecvFetch ==
  /\ pc = "recv" /\ count > 0 /\ Readable(Current)
  /\ queue' = [queue EXCEPT ![Current] = Tail(@)]
  /\ more' = (Head(queue[Current]) = "more")
  /\ IF more'
     THEN /\ source' = Current
          /\ UNCHANGED <<current, since>>
     ELSE /\ source' = NoPipe
          /\ current' = IF current + 1 >= active THEN 0 ELSE current + 1
          /\ since' = Served(Current)
  /\ pc' = "idle"
  /\ UNCHANGED <<pipes, active, link, in_active, count>>

(* The current pipe has nothing and becomes passive; in the middle of a    *)
(* message: xs_assert (!(more && !fetched)).                               *)
RecvFails ==
  /\ pc = "recv" /\ count > 0 /\ ~Readable(Current)
  /\ ReadFails(Current)
  /\ IF more
     THEN pc' = "abort" /\ UNCHANGED <<pipes, active, current, count, since>>
     ELSE Deactivate /\ count' = count - 1 /\ UNCHANGED pc
  /\ UNCHANGED <<more, queue, source>>

HasInFails ==
  /\ pc = "has_in" /\ count > 0 /\ ~Readable(Current)
  /\ ReadFails(Current)
  /\ Deactivate /\ count' = count - 1
  /\ UNCHANGED <<more, queue, pc, source>>

(* recv returns EAGAIN; has_in returns. *)
Return ==
  /\ \/ pc = "recv" /\ count = 0
     \/ pc = "has_in" /\ (count > 0 => Readable(Current))
  /\ pc' = "idle" /\ count' = 0
  /\ UNCHANGED <<fqvars, link, in_active, queue, source, since>>

Next ==
  \/ \E p \in Pipe : \/ \E msg \in {<<"last">>, <<"more", "last">>} : Arrive(p, msg)
                     \/ PeerEnds(p) \/ attach(p) \/ terminated(p) \/ activated(p)
  \/ \E op \in {"recv", "has_in"} : Call(op)
  \/ RecvFetch \/ RecvFails \/ HasInFails \/ Return

(* The application calls recv again and again, the calls return, and a     *)
(* waiting activate_read is processed: recv processes commands when it     *)
(* finds no message and once every inbound_poll_rate messages.             *)
Fairness ==
  /\ SF_vars(Call("recv")) /\ WF_vars(RecvFetch) /\ WF_vars(RecvFails)
  /\ WF_vars(HasInFails) /\ WF_vars(Return)
  /\ \A p \in Pipe : SF_vars(activated(p))

Spec == Init /\ [][Next]_vars

FairSpec == Spec /\ Fairness
-----------------------------------------------------------------------------
(* Properties *)

(* "All the active pipes are located at the beginning of the pipes array": *)
(* a pipe that was not found empty, and so will get no read_activated, is  *)
(* among the active ones.  One outside would never be read again.  And the *)
(* state is well typed: active never leaves the array.                     *)
ActiveFirst ==
  /\ TypeOK
  /\ \A p \in Pipe :
       (link[p] = "active" /\ in_active[p]) => p \in First(pipes, active)

(* The parts of a message come from one pipe: in the middle of a message   *)
(* the current pipe is the one its first parts came from, and it has the   *)
(* next one: xs_assert (!(more && !fetched)), "If we've already received   *)
(* the first part of the message we should get the remaining parts without *)
(* blocking."                                                              *)
MessageFromOnePipe ==
  /\ more => active > 0 /\ Current = source
  /\ pc # "abort"

(* "senders gone berserk won't cause denial of service for decent          *)
(* senders": while a pipe with a message waits for its turn, no other pipe *)
(* gives more than two messages.                                           *)
BoundedOvertaking ==
  \A p \in First(pipes, active) : Readable(p) =>
    \A q \in Pipe : since[p][q] <= 2

(* Fair queueing serves everyone: of a pipe that has messages, one is      *)
(* received sooner or later, whatever the other pipes do.                  *)
EveryPipeServed ==
  \A p \in Pipe :
    \/ []<>(link[p] # "active" \/ queue[p] = << >>)
    \/ []<><<RecvFetch /\ p = Current>>_vars
=============================================================================
