------------------------------- MODULE Poller -------------------------------
(***************************************************************************)
(* An I/O thread: its timers (src/io_thread.cpp) and the loop of one of    *)
(* the five polling mechanisms (src/epoll.cpp, poll.cpp, select.cpp,       *)
(* kqueue.cpp, devpoll.cpp).  Sinks are numbered in the order in which     *)
(* they are registered; a callback may remove any sink and register a new  *)
(* one, and the kernel gives the new one the old file descriptor again.    *)
(***************************************************************************)
EXTENDS Integers, FiniteSets, SequencesExt

CONSTANTS
  Setting,     \* records: mech, the mechanism; bounds: sinks (registered
               \* at a time), timers, time (the clock)
  Fd,          \* file descriptors, a set of positive integers
  MaxEvents    \* max_io_events; bound: events reported at a time

VARIABLES
  setting,
  entry,       \* sink -> [fd, in, out] : poll_entry_t, pollset, fds
  fdt,         \* fd -> [sink, accepted] : fd_table of poll_t and devpoll_t
  got,         \* event -> fds : readfds, writefds, exceptfds of select_t
  load,        \* io_thread_t::load
  reported,    \* sink -> the events that the kernel has reported for it
  batch,       \* ev_buf: the sequence of [sink, fd (at the time), evs]
  phase,       \* "start", "timers", "asleep", "dispatch", "end", "stopped"
  at,          \* the place in the table or in ev_buf and the event (1 .. 3)
               \* that the loop is at
  last,        \* the last call: [sink, ev, live]
  timers, now, current, timeout, fired, stopping,
  called       \* when the thread went to sleep

sinkvars == <<entry, fdt, got, load>>
timevars == <<timers, now, current, timeout, fired, called>>
vars == <<setting, sinkvars, reported, batch, phase, at, last, timevars, stopping>>

mech == setting.mech
retired_fd == 0
Event == <<"err", "out", "in">>
None == [sink |-> 0, ev |-> "err", live |-> TRUE]
Registered == {s \in DOMAIN entry : entry[s].fd # retired_fd}
Used == {entry[s].fd : s \in Registered}
Fresh == IF DOMAIN entry \cup DOMAIN reported = {} THEN 1
         ELSE Max(DOMAIN entry \cup DOMAIN reported) + 1
-----------------------------------------------------------------------------
(* Registration, as a function of the tables p = [entry, fdt, got, load]   *)

Tables == [entry |-> entry, fdt |-> fdt, got |-> got, load |-> load]
Become(p) == /\ entry' = p.entry /\ fdt' = p.fdt
             /\ got' = p.got /\ load' = p.load

add(p, f, s) == [p EXCEPT
  !.entry = @ @@ (s :> [fd |-> f, in |-> FALSE, out |-> FALSE]),
  !.load = @ + 1]

epoll_add_fd(p, f, s) == add(p, f, s)
kqueue_add_fd(p, f, s) == add(p, f, s)
select_add_fd(p, f, s) == add(p, f, s)
poll_add_fd(p, f, s) ==
  [add(p, f, s) EXCEPT !.fdt[f] = [sink |-> s, accepted |-> TRUE]]

(* An event of this batch is not for a sink that was registered since. *)
devpoll_add_fd(p, f, s) ==
  [add(p, f, s) EXCEPT !.fdt[f] = [sink |-> s, accepted |-> FALSE]]

add_fd(p, f, s) ==
  CASE mech = "epoll"   -> epoll_add_fd(p, f, s)
    [] mech = "kqueue"  -> kqueue_add_fd(p, f, s)
    [] mech = "select"  -> select_add_fd(p, f, s)
    [] mech = "poll"    -> poll_add_fd(p, f, s)
    [] mech = "devpoll" -> devpoll_add_fd(p, f, s)

retire(p, s) == [p EXCEPT
  !.entry[s] = [fd |-> retired_fd, in |-> FALSE, out |-> FALSE],
  !.load = @ - 1]

epoll_rm_fd(p, s) == retire(p, s)
kqueue_rm_fd(p, s) == retire(p, s)
poll_rm_fd(p, s) ==
  [retire(p, s) EXCEPT !.fdt[p.entry[s].fd].sink = 0]

(* Mutant: the events of the descriptor are not discarded. *)
select_rm_fd_Keep(p, s) == retire(p, s)

select_rm_fd(p, s) == [retire(p, s) EXCEPT
  !.got = [e \in DOMAIN p.got |-> p.got[e] \ {p.entry[s].fd}]]
devpoll_rm_fd(p, s) ==
  [retire(p, s) EXCEPT !.fdt[p.entry[s].fd].sink = 0]

rm_fd(p, s) ==
  CASE mech = "epoll"   -> epoll_rm_fd(p, s)
    [] mech = "kqueue"  -> kqueue_rm_fd(p, s)
    [] mech = "select"  -> select_rm_fd(p, s)
    [] mech = "poll"    -> poll_rm_fd(p, s)
    [] mech = "devpoll" -> devpoll_rm_fd(p, s)

(* set_pollin, reset_pollin, set_pollout, reset_pollout *)
set_poll(p, s, in, out) ==
  [p EXCEPT !.entry[s].in = in, !.entry[s].out = out]
-----------------------------------------------------------------------------
(* Dispatch: the sink that event e of ev_buf [i], or of entry s of the     *)
(* table, goes to, or 0.  Each mechanism asks again before each of the     *)
(* three calls.                                                            *)

Reported(s, e) == s \in DOMAIN reported /\ e \in reported[s]

InBatch(i, e) ==
  IF entry[batch[i].sink].fd # retired_fd /\ e \in batch[i].evs
  THEN batch[i].sink ELSE 0

epoll_target(i, e) == InBatch(i, e)
kqueue_target(i, e) == InBatch(i, e)

poll_target(s, e) ==
  IF entry[s].fd # retired_fd /\ Reported(s, e) THEN fdt[entry[s].fd].sink
  ELSE 0

select_target(s, e) ==
  IF entry[s].fd # retired_fd /\ entry[s].fd \in got[e] THEN s ELSE 0

(* Mutant: the entry need not be accepted. *)
devpoll_target_Any(i, e) ==
  IF e \in batch[i].evs THEN fdt[batch[i].fd].sink ELSE 0

devpoll_target(i, e) ==
  LET f == fdt[batch[i].fd]
  IN IF f.sink # 0 /\ f.accepted /\ e \in batch[i].evs THEN f.sink ELSE 0

Target(s, e) ==
  CASE mech = "epoll"   -> epoll_target(s, e)
    [] mech = "kqueue"  -> kqueue_target(s, e)
    [] mech = "poll"    -> poll_target(s, e)
    [] mech = "select"  -> select_target(s, e)
    [] mech = "devpoll" -> devpoll_target(s, e)

(* poll_t and select_t go through their table, which may grow meanwhile;   *)
(* the others through the events that were returned.                       *)
ByTable == mech \in {"poll", "select"}
Visited == IF ByTable THEN DOMAIN entry ELSE DOMAIN batch

(* The entries of ev_buf for the events rep: one for a sink, or, from      *)
(* kqueue, one for each filter of a sink, which also tells of EV_EOF.      *)
Entries(rep) ==
  IF mech = "kqueue"
  THEN UNION {{[sink |-> s, fd |-> entry[s].fd,
                evs |-> {f} \cup (rep[s] \cap {"err"})] :
                 f \in rep[s] \cap {"in", "out"}} : s \in DOMAIN rep}
  ELSE {[sink |-> s, fd |-> entry[s].fd, evs |-> rep[s]] :
          s \in {t \in DOMAIN rep : rep[t] # {}}}

Later(s) == {t \in Visited : t > s}

(* The start of the loop's body (devpoll_t): pending_list is accepted. *)
Accept == [f \in Fd |-> [fdt[f] EXCEPT !.accepted = TRUE]]

(* The end of the loop's body: retired entries are destroyed. *)
Purge == RestrictDomain(entry, LAMBDA s : entry[s].fd # retired_fd)
-----------------------------------------------------------------------------
(* Timers *)

(* Mutant: the new timer goes to the front. *)
add_timer_Front(q, id, t) == <<[id |-> id, exp |-> now + t]>> \o q

(* io_thread_t::add_timer: after those that expire no later. *)
add_timer(q, id, t) ==
  LET x == [id |-> id, exp |-> now + t]
      before == SelectSeq(q, LAMBDA y : y.exp <= x.exp)
      after == SelectSeq(q, LAMBDA y : y.exp > x.exp)
  IN before \o <<x>> \o after

rm_timer(q, id) == SelectSeq(q, LAMBDA y : y.id # id)

Ids(q) == {q[k].id : k \in 1 .. Len(q)}
NextId == IF Ids(timers) \cup fired = {} THEN 1 ELSE Max(Ids(timers) \cup fired) + 1
-----------------------------------------------------------------------------
(* The sink of the mailbox (start) is the first one. *)
Init ==
  /\ setting \in Setting
  /\ entry = (1 :> [fd |-> Min(Fd), in |-> TRUE, out |-> FALSE])
  /\ fdt = [f \in Fd |-> IF f = Min(Fd) THEN [sink |-> 1, accepted |-> TRUE]
                         ELSE [sink |-> 0, accepted |-> FALSE]]
  /\ got = [e \in {"err", "out", "in"} |-> {}]
  /\ load = 1 /\ reported = << >> /\ batch = << >>
  /\ phase = "start" /\ at = <<0, 1>> /\ last = None
  /\ timers = << >> /\ now = 0 /\ current = 0 /\ timeout = 0 /\ fired = {}
  /\ stopping = FALSE /\ called = 0

(* Time passes, in callbacks too.  The kernel ends the wait in time. *)
Tick ==
  /\ now < setting.time /\ phase # "stopped" /\ now' = now + 1
  /\ phase = "asleep" /\ timeout # 0 => now < called + timeout
  /\ UNCHANGED <<setting, sinkvars, reported, batch, phase, at, last, timers,
                 current, timeout, fired, stopping, called>>

(* What a callback may do to the tables. *)
Ops ==
  {Tables}
  \cup {rm_fd(Tables, s) : s \in Registered \ {1}}
  \cup {set_poll(Tables, s, on, on) : s \in Registered \ {1}, on \in BOOLEAN}
  \cup (IF Fresh > setting.sinks THEN {} ELSE
        {set_poll(add_fd(Tables, f, Fresh), Fresh, TRUE, TRUE) :
           f \in Fd \ Used}
        \cup {set_poll(add_fd(rm_fd(Tables, s), entry[s].fd, Fresh), Fresh,
                       TRUE, TRUE) : s \in Registered \ {1}})

(* What a callback may do to the timers. *)
TimerOps(q) ==
  {rm_timer(q, id) : id \in Ids(q)}
  \cup {add_timer(q, NextId, t) :
          t \in IF NextId <= setting.timers THEN 0 .. 1 ELSE {}}

(* The start of the loop's body, and of io_thread_t::execute_timers: the   *)
(* time is read once.                                                      *)
StartRound ==
  /\ phase = "start"
  /\ phase' = "timers" /\ current' = now
  /\ fdt' = Accept
  /\ UNCHANGED <<setting, entry, got, load, reported, batch, at, last, timers,
                 now, timeout, fired, stopping, called>>

(* execute_timers: a timer that is due.  It is still in the list while its *)
(* sink is called.                                                         *)
FireTimer ==
  /\ phase = "timers" /\ timers # << >> /\ timers[1].exp <= current
  /\ \/ /\ \E q \in TimerOps(timers) :
             timers[1].id \in Ids(q) /\ timers' = rm_timer(q, timers[1].id)
        /\ Become(Tables)
     \/ /\ \E p \in Ops : Become(p)
        /\ timers' = Tail(timers)
  /\ fired' = fired \cup {timers[1].id}
  /\ last' = None
  /\ UNCHANGED <<setting, reported, batch, phase, at, now, current, timeout,
                 stopping, called>>

(* No timer is due: what execute_timers returns is the time to wait, from  *)
(* now on.                                                                 *)
TimersDone ==
  /\ phase = "timers"
  /\ timers # << >> => timers[1].exp > current
  /\ timeout' = IF timers = << >> THEN 0 ELSE timers[1].exp - current
  /\ phase' = "asleep" /\ called' = now
  /\ UNCHANGED <<setting, sinkvars, reported, batch, at, last, timers, now,
                 current, fired, stopping>>

(* A signal interrupts the wait (EINTR), or the time is up: the rest of    *)
(* the loop's body is skipped, but with the batches of epoll_t, kqueue_t   *)
(* and devpoll_t when the time is up.                                      *)
WakeUp ==
  /\ phase = "asleep"
  /\ \/ entry' = entry
     \/ /\ ~ByTable /\ timeout # 0 /\ now >= called + timeout
        /\ entry' = Purge
  /\ phase' = "start" /\ last' = None
  /\ UNCHANGED <<setting, fdt, got, load, reported, batch, at, timevars,
                 stopping>>

(* The kernel reports some of the events that are polled for, in any order. *)
Wait ==
  /\ phase = "asleep"
  /\ \E rep \in [Registered -> SUBSET {"err", "out", "in"}] :
       /\ \A s \in Registered : /\ "in" \in rep[s] => entry[s].in
                                /\ "out" \in rep[s] => entry[s].out
                                /\ s = 1 => "err" \notin rep[s]
                                /\ mech = "kqueue" => rep[s] # {"err"}
       /\ Cardinality({x \in Registered \X {"err", "out", "in"} :
                         x[2] \in rep[x[1]]}) <= MaxEvents
       /\ Entries(rep) # {}
       /\ reported' = rep
       /\ IF ByTable THEN batch' = << >> ELSE batch' \in SetToSeqs(Entries(rep))
       /\ got' = [e \in {"err", "out", "in"} |->
                    {entry[s].fd : s \in {t \in Registered : mech = "select"
                                                       /\ e \in rep[t]}}]
  /\ phase' = "dispatch" /\ last' = None
  /\ at' = <<IF ByTable THEN Min(DOMAIN entry) ELSE 1, 1>>
  /\ UNCHANGED <<setting, entry, fdt, load, timevars, stopping>>

(* The loop moves to the next event of the sink, to the next sink or, at   *)
(* the end of the batch, to the timers.                                    *)
Advance ==
  IF at[2] < 3 THEN at' = <<at[1], at[2] + 1>> /\ UNCHANGED phase
  ELSE IF Later(at[1]) # {}
  THEN at' = <<Min(Later(at[1])), 1>> /\ UNCHANGED phase
  ELSE at' = <<0, 1>> /\ phase' = "end"

Skip ==
  /\ phase = "dispatch"
  /\ IF at[1] \in Visited THEN Target(at[1], Event[at[2]]) = 0 ELSE TRUE
  /\ Advance /\ last' = None
  /\ UNCHANGED <<setting, sinkvars, reported, batch, timevars, stopping>>

(* A call of in_event or out_event.  The mailbox's may stop the thread     *)
(* (io_thread_t::process_stop).                                            *)
Call ==
  /\ phase = "dispatch" /\ at[1] \in Visited
  /\ LET t == Target(at[1], Event[at[2]]) IN
       /\ t # 0
       /\ last' = [sink |-> t, ev |-> Event[at[2]], live |-> t \in Registered]
       /\ \/ (\E p \in Ops : Become(p)) /\ UNCHANGED <<timers, stopping>>
          \/ /\ \E q \in TimerOps(timers) : timers' = q
             /\ UNCHANGED <<sinkvars, stopping>>
          \/ /\ t = 1 /\ Become(rm_fd(Tables, 1))
             /\ stopping' = TRUE /\ UNCHANGED timers
  /\ Advance
  /\ UNCHANGED <<setting, reported, batch, now, current, timeout, fired,
                 called>>

EndOfBatch ==
  /\ phase = "end"
  /\ entry' = Purge
  /\ reported' = << >> /\ batch' = << >> /\ last' = None
  /\ got' = [e \in {"err", "out", "in"} |-> {}]
  /\ phase' = IF stopping THEN "stopped" ELSE "start"
  /\ UNCHANGED <<setting, fdt, load, at, timevars, stopping>>

Next ==
  \/ Tick \/ StartRound \/ FireTimer \/ TimersDone \/ WakeUp \/ Wait \/ Skip
  \/ Call \/ EndOfBatch

Spec == Init /\ [][Next]_vars
-----------------------------------------------------------------------------
(* Properties *)

(* An event goes to the sink it was reported for, and only while that sink *)
(* is registered: never to a sink that an earlier callback of the batch    *)
(* has removed, nor to one that has got its file descriptor since.         *)
ReportedToSink == last # None =>
  last.live /\ last.sink \in DOMAIN reported /\ last.ev \in reported[last.sink]

(* While the thread sleeps no timer is overdue by more than the time the   *)
(* callbacks of the round took, however timers are added and removed by    *)
(* the callbacks of other timers and of sinks (execute_timers reads the    *)
(* clock once, before the callbacks, and the wait begins after them).      *)
TimersInTime == phase = "asleep" =>
  \A k \in 1 .. Len(timers) : now <= timers[k].exp + (called - current)

(* "Return the time to wait for the next timer": while the thread sleeps   *)
(* no timer is overdue.  Not so when a callback takes time.                *)
NeverOversleeps == phase = "asleep" =>
  \A k \in 1 .. Len(timers) : now <= timers[k].exp

(* The load that choose_io_thread compares is the number of registered     *)
(* file descriptors, each of which is registered once.                     *)
LoadExact ==
  /\ load = Cardinality(Registered)
  /\ Cardinality(Used) = Cardinality(Registered)
=============================================================================
