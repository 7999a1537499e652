--------------------------------- MODULE Ctx ---------------------------------
(***************************************************************************)
(* ctx_t (src/ctx.cpp) and reaper_t (src/reaper.cpp): creating and closing *)
(* sockets in application threads, the thread in xs_term, and the reaper   *)
(* thread that finishes closed sockets.  A section under slot_sync is one  *)
(* action.  How a closed socket's children and pipes end is left open: it  *)
(* becomes destroyed at some moment after start_reaping.                   *)
(***************************************************************************)
EXTENDS Integers, Sequences, FiniteSets

CONSTANTS Socket,      \* the sockets that may ever be created
          MaxSockets,  \* ctx_t::max_sockets
          Gap,         \* whether the last socket may be destroyed between
                       \* the two sections of terminate
          None

Slot == 1 .. MaxSockets

ASSUME CtxAssumption == MaxSockets \in Nat /\ None \notin Slot \cup Socket

Command == [type : {"stop", "reaped", "io_stop"}]
             \cup [type : {"reap"}, socket : Socket]

VARIABLES
  starting, terminating, sockets, empty_slots,  \* ctx_t
  done,        \* commands in term_mailbox
  tpc,         \* the thread in ctx_t::terminate
  phase,       \* of a socket: "open", "blocked" in a call, "closed", ...
  slot,        \* the slot of a socket
  stop,        \* a stop command waits in the socket's mailbox
  ctx_terminated,
  rq,          \* the reaper's mailbox
  rsockets, rterminating,   \* reaper_t::sockets, reaper_t::terminating
  polled,      \* the reaper's mailbox is polled by its I/O thread
  stopping,    \* the reaper's I/O thread was asked to stop
  rpc, rsock,  \* the reaper thread; the socket in process_reap
  rdel         \* the socket between destroy_socket and send_reaped

ctxvars == <<starting, terminating, sockets, empty_slots>>
sockvars == <<phase, slot, stop, ctx_terminated>>
reapervars == <<rsockets, rterminating, polled, stopping, rpc, rsock, rdel>>
vars == <<ctxvars, done, tpc, sockvars, rq, reapervars>>

TypeOK ==
  /\ starting \in BOOLEAN /\ terminating \in BOOLEAN
  /\ sockets \subseteq Socket /\ empty_slots \in Seq(Slot)
  /\ done \in Nat /\ tpc \in {"idle", "stop", "wait", "delete", "deleted"}
  /\ phase \in [Socket -> {"none", "open", "blocked", "closed", "reaping", "gone"}]
  /\ slot \in [Socket -> Slot \cup {None}] /\ stop \in [Socket -> BOOLEAN]
  /\ ctx_terminated \in [Socket -> BOOLEAN]
  /\ rq \in Seq(Command) /\ rsockets \in Nat
  /\ rterminating \in BOOLEAN /\ polled \in BOOLEAN /\ stopping \in BOOLEAN
  /\ rpc \in {"poll", "in_event", "process_reap", "exited", "abort"}
  /\ rsock \in Socket \cup {None} /\ rdel \in Socket \cup {None}

Init ==
  /\ starting = TRUE /\ terminating = FALSE /\ sockets = {}
  /\ empty_slots = << >> /\ done = 0 /\ tpc = "idle"
  /\ phase = [s \in Socket |-> "none"] /\ slot = [s \in Socket |-> None]
  /\ stop = [s \in Socket |-> FALSE]
  /\ ctx_terminated = [s \in Socket |-> FALSE]
  /\ rq = << >> /\ rsockets = 0 /\ rterminating = FALSE
  /\ polled = TRUE /\ stopping = FALSE /\ rpc = "poll"
  /\ rsock = None /\ rdel = None

(* A failed assertion of the reaper thread ends the process. *)
Alive == rpc # "abort"
-----------------------------------------------------------------------------
(* Application threads *)

(* The slots of a new context: the lowest one is given away first. *)
AllSlots == [i \in Slot |-> MaxSockets + 1 - i]

(* Mutant: xs_term is not looked at. *)
MayCreate_Terminating(free) == free # << >>

(* Not ETERM, not EMFILE *)
MayCreate(free) == ~terminating /\ free # << >>

(* create_socket.  The application does not use a context that xs_term is  *)
(* about to deallocate.                                                    *)
create_socket(s) ==
  /\ Alive /\ phase[s] = "none" /\ tpc \notin {"delete", "deleted"}
  /\ starting' = FALSE
  /\ LET free == IF starting THEN AllSlots ELSE empty_slots IN
       \/ /\ MayCreate(free)
          /\ slot' = [slot EXCEPT ![s] = free[Len(free)]]
          /\ empty_slots' = SubSeq(free, 1, Len(free) - 1)
          /\ sockets' = sockets \cup {s}
          /\ phase' = [phase EXCEPT ![s] = "open"]
       \/ /\ ~MayCreate(free)
          /\ empty_slots' = free
          /\ UNCHANGED <<slot, sockets, phase>>
  /\ UNCHANGED <<terminating, done, tpc, stop, ctx_terminated, rq, reapervars>>

(* A call that waits for a command; it is refused after a stop command. *)
Block(s) ==
  /\ Alive /\ phase[s] = "open" /\ ~ctx_terminated[s]
  /\ phase' = [phase EXCEPT ![s] = "blocked"]
  /\ UNCHANGED <<ctxvars, done, tpc, slot, stop, ctx_terminated, rq, reapervars>>

(* The call returns for a reason of its own. *)
Unblock(s) ==
  /\ Alive /\ phase[s] = "blocked"
  /\ phase' = [phase EXCEPT ![s] = "open"]
  /\ UNCHANGED <<ctxvars, done, tpc, slot, stop, ctx_terminated, rq, reapervars>>

(* process_commands finds stop: the call returns ETERM. *)
process_stop(s) ==
  /\ Alive /\ stop[s] /\ phase[s] \in {"open", "blocked", "reaping"}
  /\ stop' = [stop EXCEPT ![s] = FALSE]
  /\ ctx_terminated' = [ctx_terminated EXCEPT ![s] = TRUE]
  /\ phase' = [phase EXCEPT ![s] = IF @ = "blocked" THEN "open" ELSE @]
  /\ UNCHANGED <<ctxvars, done, tpc, slot, rq, reapervars>>

(* xs_close *)
close(s) ==
  /\ Alive /\ phase[s] = "open"
  /\ phase' = [phase EXCEPT ![s] = "closed"]
  /\ rq' = Append(rq, [type |-> "reap", socket |-> s])
  /\ UNCHANGED <<ctxvars, done, tpc, slot, stop, ctx_terminated, reapervars>>
-----------------------------------------------------------------------------
(* The thread in xs_term *)

(* The first section under slot_sync.  A context that never had a socket   *)
(* is deallocated at once; a restarted xs_term goes on waiting.            *)
Terminate ==
  /\ Alive /\ tpc = "idle"
  /\ IF starting
     THEN tpc' = "delete" /\ UNCHANGED terminating
     ELSE /\ terminating' = TRUE
          /\ tpc' = IF terminating THEN "wait" ELSE "stop"
  /\ UNCHANGED <<starting, sockets, empty_slots, done, sockvars, rq, reapervars>>

(* The second one: stop the sockets, or the reaper if there are none. *)
TerminateStop ==
  /\ Alive /\ tpc = "stop"
  /\ stop' = [s \in Socket |-> stop[s] \/ s \in sockets]
  /\ rq' = IF sockets = {} THEN Append(rq, [type |-> "stop"]) ELSE rq
  /\ tpc' = "wait"
  /\ UNCHANGED <<ctxvars, done, phase, slot, ctx_terminated, reapervars>>

(* mailbox_recv is interrupted: xs_term returns EINTR. *)
TerminateInterrupted ==
  /\ Alive /\ tpc = "wait"
  /\ tpc' = "idle"
  /\ UNCHANGED <<ctxvars, done, sockvars, rq, reapervars>>

TerminateDone ==
  /\ Alive /\ tpc = "wait" /\ done > 0
  /\ done' = done - 1
  /\ tpc' = "delete"
  /\ UNCHANGED <<ctxvars, sockvars, rq, reapervars>>

(* ~ctx_t, which waits for the reaper thread to exit. *)
Delete ==
  /\ Alive /\ tpc = "delete"
  /\ starting \/ rpc = "exited"
  /\ tpc' = "deleted"
  /\ UNCHANGED <<ctxvars, done, sockvars, rq, reapervars>>
-----------------------------------------------------------------------------
(* The reaper thread *)

(* The I/O thread calls reaper_t::in_event. *)
InEvent ==
  /\ ~starting /\ rpc = "poll" /\ rdel = None /\ polled /\ rq # << >>
  /\ rpc' = "in_event"
  /\ UNCHANGED <<ctxvars, done, tpc, sockvars, rq, rsockets, rterminating,
                 polled, stopping, rsock, rdel>>

(* in_event finds its mailbox empty; a stopped I/O thread exits. *)
InEventReturns ==
  /\ rpc = "in_event" /\ rq = << >>
  /\ rpc' = IF stopping THEN "exited" ELSE "poll"
  /\ UNCHANGED <<ctxvars, done, tpc, sockvars, rq, rsockets, rterminating,
                 polled, stopping, rsock, rdel>>

(* Mutant: the reaper's I/O thread is not asked to stop. *)
Finish_NoStop ==
  /\ done' = done + 1
  /\ rq' = Tail(rq)
  /\ polled' = FALSE
  /\ rpc' = IF polled THEN rpc ELSE "abort"

(* send_done, rm_fd, stop the I/O thread.  A second rm_fd fails an         *)
(* assertion (epoll_t::rm_fd).  The stop command comes by the reaper's own *)
(* mailbox.                                                                *)
Finish ==
  /\ done' = done + 1
  /\ polled' = FALSE
  /\ rq' = Append(Tail(rq), [type |-> "io_stop"])
  /\ rpc' = IF polled THEN rpc ELSE "abort"

Head_is(type) == rpc = "in_event" /\ rq # << >> /\ Head(rq).type = type

(* Mutant: the reaper does not wait for the sockets it has. *)
reaper_process_stop_NoWait ==
  /\ Head_is("stop")
  /\ rterminating' = TRUE
  /\ Finish
  /\ UNCHANGED <<ctxvars, tpc, sockvars, rsockets, stopping, rsock, rdel>>

reaper_process_stop ==
  /\ Head_is("stop")
  /\ rterminating' = TRUE
  /\ IF rsockets = 0 THEN Finish
     ELSE rq' = Tail(rq) /\ UNCHANGED <<done, polled, rpc>>
  /\ UNCHANGED <<ctxvars, tpc, sockvars, rsockets, stopping, rsock, rdel>>

process_reaped ==
  /\ Head_is("reaped")
  /\ rsockets' = rsockets - 1
  /\ IF rsockets = 1 /\ rterminating THEN Finish
     ELSE rq' = Tail(rq) /\ UNCHANGED <<done, polled, rpc>>
  /\ UNCHANGED <<ctxvars, tpc, sockvars, rterminating, stopping, rsock, rdel>>

(* io_thread_t::process_stop *)
io_process_stop ==
  /\ Head_is("io_stop")
  /\ stopping' = TRUE
  /\ rq' = Tail(rq)
  /\ UNCHANGED <<ctxvars, done, tpc, sockvars, rsockets, rterminating, polled,
                 rpc, rsock, rdel>>

(* process_reap calls start_reaping, which may destroy the socket at once. *)
process_reap ==
  /\ Head_is("reap")
  /\ LET s == Head(rq).socket IN
       /\ phase' = [phase EXCEPT ![s] = "reaping"]
       /\ rsock' = s
  /\ rq' = Tail(rq)
  /\ rpc' = "process_reap"
  /\ UNCHANGED <<ctxvars, done, tpc, slot, stop, ctx_terminated, rsockets,
                 rterminating, polled, stopping, rdel>>

(* The rest of process_reap *)
ReapReturns ==
  /\ rpc = "process_reap" /\ rdel = None
  /\ rsockets' = rsockets + 1
  /\ rpc' = "in_event" /\ rsock' = None
  /\ UNCHANGED <<ctxvars, done, tpc, sockvars, rq, rterminating, polled,
                 stopping, rdel>>

(* Between its two sections terminate has set terminating and has not yet  *)
(* looked at the sockets.                                                  *)
InTime(s) == Gap \/ tpc # "stop" \/ sockets # {s}

(* Mutant: the slot is not given back. *)
destroy_socket_KeepSlot(s) ==
  /\ phase[s] = "reaping" /\ rdel = None /\ InTime(s)
  /\ rpc = "poll" \/ (rpc = "process_reap" /\ rsock = s)
  /\ sockets' = sockets \ {s}
  /\ rq' = IF terminating /\ sockets' = {} THEN Append(rq, [type |-> "stop"])
                                          ELSE rq
  /\ rdel' = s
  /\ slot' = [slot EXCEPT ![s] = None]
  /\ UNCHANGED <<starting, terminating, empty_slots, done, tpc, phase, stop,
                 ctx_terminated, rsockets, rterminating, polled, stopping, rpc,
                 rsock>>

(* check_destroy of a destroyed socket, in start_reaping or in_event:      *)
(* destroy_socket gives the slot back and stops the reaper after the last  *)
(* socket of a terminating context.                                        *)
destroy_socket(s) ==
  /\ phase[s] = "reaping" /\ rdel = None /\ InTime(s)
  /\ rpc = "poll" \/ (rpc = "process_reap" /\ rsock = s)
  /\ empty_slots' = Append(empty_slots, slot[s])
  /\ slot' = [slot EXCEPT ![s] = None]
  /\ sockets' = sockets \ {s}
  /\ rq' = IF terminating /\ sockets' = {} THEN Append(rq, [type |-> "stop"])
                                          ELSE rq
  /\ rdel' = s
  /\ UNCHANGED <<starting, terminating, done, tpc, phase, stop, ctx_terminated,
                 rsockets, rterminating, polled, stopping, rpc, rsock>>

(* The rest of check_destroy *)
send_reaped ==
  /\ Alive /\ rdel # None
  /\ rq' = Append(rq, [type |-> "reaped"])
  /\ phase' = [phase EXCEPT ![rdel] = "gone"]
  /\ rdel' = None
  /\ UNCHANGED <<ctxvars, done, tpc, slot, stop, ctx_terminated, rsockets,
                 rterminating, polled, stopping, rpc, rsock>>

Reaper ==
  \/ InEvent \/ InEventReturns \/ reaper_process_stop \/ process_reaped
  \/ io_process_stop \/ process_reap \/ ReapReturns \/ send_reaped

Next ==
  \/ \E s \in Socket : \/ create_socket(s) \/ Block(s) \/ Unblock(s)
                       \/ process_stop(s) \/ close(s) \/ destroy_socket(s)
  \/ Terminate \/ TerminateStop \/ TerminateInterrupted \/ TerminateDone
  \/ Delete \/ Reaper

Spec == Init /\ [][Next]_vars

(* Threads run; a socket being reaped ends; an interrupted xs_term is      *)
(* called again and not interrupted for ever; an application that sees     *)
(* ETERM closes the socket.                                                *)
Fairness ==
  /\ WF_vars(Reaper)
  /\ \A s \in Socket : /\ SF_vars(destroy_socket(s)) /\ WF_vars(process_stop(s))
                       /\ WF_vars(ctx_terminated[s] /\ close(s))
  /\ WF_vars(terminating /\ Terminate) /\ WF_vars(TerminateStop)
  /\ SF_vars(TerminateDone) /\ WF_vars(Delete)

FairSpec == Spec /\ Fairness
-----------------------------------------------------------------------------
(* Properties *)

(* Every slot is free or belongs to one socket that is not destroyed yet,  *)
(* never both and never lost, so max_sockets is the real limit.  And the   *)
(* state is well typed.                                                    *)
SlotsExact ==
  /\ TypeOK
  /\ ~starting =>
       /\ \A n \in Slot :
            Cardinality({i \in DOMAIN empty_slots : empty_slots[i] = n})
              + Cardinality({s \in Socket : slot[s] = n}) = 1
       /\ sockets = {s \in Socket : slot[s] # None}

(* "Wait till reaper thread closes all the sockets": done is sent after    *)
(* the last socket is gone (xs_assert (sockets.empty ())), none is on its  *)
(* way to the reaper, and the reaper has none left.                        *)
DoneMeansReaped ==
  done > 0 => /\ sockets = {} /\ rsockets = 0 /\ rdel = None
              /\ \A s \in Socket : phase[s] \in {"none", "gone"}

(* The two together: every socket is accounted for until the context ends. *)
SocketsAccounted == SlotsExact /\ DoneMeansReaped

(* "First send stop command to sockets so that any blocking calls can be   *)
(* interrupted": once xs_term has been called, no call on a socket blocks  *)
(* for ever, not on a socket created meanwhile either.  (If the last       *)
(* socket is not destroyed in the gap of terminate.)                       *)
BlockedCallsInterrupted ==
  \A s \in Socket : terminating /\ phase[s] = "blocked" ~> phase[s] # "blocked"

(* xs_term returns and no assertion stops it: however closing sockets,     *)
(* their reaping and interruptions interleave with terminate, the context  *)
(* is deallocated when the application has closed its sockets.  (If the    *)
(* last socket is not destroyed in the gap of terminate.)                  *)
TermCompletes == terminating ~> tpc = "deleted"

(* The reaper finishes once: rm_fd asserts that the mailbox is polled      *)
(* ("errno_assert (rc != -1)" in epoll_t::rm_fd).  Not so if the last      *)
(* socket is destroyed in the gap of terminate: both stop the reaper.      *)
ReaperFinishesOnce == Alive
=============================================================================
