------------------------------ MODULE MCParts -------------------------------
(***************************************************************************)
(* The parts that are checked alone, side by side.  Those of a socket: the *)
(* load balancer (Lb), the fair queue (Fq) and the calls around them       *)
(* (Calls).  Those of an I/O thread: the event loop (Poller), connecters   *)
(* and listeners (Endpoint) and the framing of messages (Codec).  `which'  *)
(* says which of them a behaviour is about, and the variables of the       *)
(* others keep one value.                                                  *)
(***************************************************************************)
EXTENDS Integers, Sequences, TLC

CONSTANTS Checked,                              \* those of the six to check
          Pipe, NoPipe, LbSetting,              \* Lb
          Delayed, MaxQueue,                    \* Fq
          HWM, Delay, CallSetting,              \* Calls
          PollSetting, Fd, MaxEvents,           \* Poller
          EndSetting, Listener, Width, MaxFd,   \* Endpoint
          Base, LongSize, BufSize, MaxMsgSize, max_vsm_size, Sizes, NMsgs
                                                \* Codec

VARIABLES
  which,
  setting, since, current, now, got,                 \* of several of them
  pipes, active, more, link, pc,                     \* Lb and Fq
  dropping, out_active, full, part, target,          \* Lb
  in_active, queue, count, source,                   \* Fq
  inq, sent, asleep, rd, outq, unacked, accepted, wr, mbox, ctx_terminated,
  ticks, last_tsc, last_time, signals, call, stopped, faults,    \* Calls
  entry, fdt, load, reported, batch, phase, at, last, timers, timeout, fired,
  stopping, called,                                              \* Poller
  s, handle, wait, reconnect_timer, ivl, life, waited, fds, made, ls, file,
  failed,                                                        \* Endpoint
  msgs, avail, enc, outbuf, wire, inbuf, dec                     \* Codec

arrayvars == <<pipes, active, more, link, pc>>
lbvars == <<dropping, out_active, full, part, target>>
fqvars == <<in_active, queue, count, source>>
callvars == <<inq, sent, asleep, rd, outq, unacked, accepted, wr, mbox,
              ctx_terminated, ticks, last_tsc, last_time, signals, call,
              stopped, faults>>
pollvars == <<entry, fdt, load, reported, batch, phase, at, last, timers,
              timeout, fired, stopping, called>>
endvars == <<s, handle, wait, reconnect_timer, ivl, life, waited, fds, made,
             ls, file, failed>>
codecvars == <<msgs, avail, enc, outbuf, wire, inbuf, dec>>
socketvars == <<arrayvars, lbvars, fqvars, callvars>>
iovars == <<pollvars, endvars, codecvars>>
vars == <<which, setting, since, current, now, got, socketvars, iovars>>

Balancing(ps, b, e, m, t) ==
  [pipes |-> ps, bounded |-> b, ends |-> e, multipart |-> m, patient |-> t]

(* Full pipes, none of which ends; and pipes without a high-water mark     *)
(* that come and go: one of three; all three, and two in the middle of     *)
(* messages, with a patient application.                                   *)
Balanced ==
  {Balancing(Pipe, Pipe, {}, TRUE, FALSE), Balancing(Pipe, {}, Pipe, FALSE, TRUE)}
  \cup {Balancing(Pipe, {}, {p}, FALSE, FALSE) : p \in Pipe}
  \cup {Balancing(Pipe \ {p}, {}, Pipe \ {p}, TRUE, TRUE) : p \in Pipe}

(* Full pipes that come and go. *)
FullChurn == {Balancing(Pipe, Pipe, Pipe, FALSE, FALSE)}

(* One of three pipes without a high-water mark ends in the middle of      *)
(* messages; the application is patient, or it is not.                     *)
OneEnds == {Balancing(Pipe, {}, {p}, TRUE, TRUE) : p \in Pipe}
OneEndsAtOnce == {Balancing(Pipe, {}, {p}, TRUE, FALSE) : p \in Pipe}

(* What an impatient application or a full pipe that ends leads to. *)
Hasty == FullChurn \cup OneEndsAtOnce

(* Receiving and polling for input; sending and polling for output with a  *)
(* signal; both with signals, within fewer calls than inbound_poll_rate.   *)
Called ==
  { [fns |-> {"recv", "pollin"}, rate |-> 3, timeouts |-> {-1, 0, 2},
     signals |-> 0, in |-> 4, out |-> 0, time |-> 3],
    [fns |-> {"send", "pollout"}, rate |-> 1, timeouts |-> {-1, 0, 2},
     signals |-> 1, in |-> 0, out |-> 3, time |-> 3],
    [fns |-> {"recv", "send"}, rate |-> 9, timeouts |-> {-1, 0},
     signals |-> 1, in |-> 2, out |-> 2, time |-> 1] }

(* Receiving in the presence of signals, for longer than that. *)
Interrupted ==
  { [fns |-> {"recv"}, rate |-> 2, timeouts |-> {-1, 0}, signals |-> 1,
     in |-> 5, out |-> 0, time |-> 0] }

Polling(m, n, k, t) == [mech |-> m, sinks |-> n, timers |-> k, time |-> t]

(* Every mechanism with three sinks and their successors; timers alone. *)
Polled ==
  {Polling(m, 4, 0, 0) : m \in {"epoll", "poll", "select", "kqueue", "devpoll"}}
  \cup {Polling("epoll", 2, 3, 3)}

Ending(t, ps, i, m, c) ==
  [transport |-> t, paths |-> ps, ivl |-> i, ivl_max |-> m, crash |-> c]

(* Intervals with a maximum that is reached by doubling, with a maximum    *)
(* below them and without one; the listeners of tcp are bound to one       *)
(* address, each one of ipc to a path of its own.                          *)
SamePath == [l \in Listener |-> "p"]
OwnPath == [l \in Listener |-> l]
Ended ==
  {Ending("tcp", SamePath, 2, 5, FALSE), Ending("tcp", SamePath, 3, 0, TRUE),
   Ending("ipc", OwnPath, 2, 5, TRUE), Ending("ipc", OwnPath, 3, 2, FALSE)}

(* Two ipc listeners are bound to one path; a maximum of half of the       *)
(* largest int or more; one that the doubled interval reaches.             *)
AtLimits == {Ending("ipc", SamePath, 1, 0, FALSE),
             Ending("tcp", OwnPath, 1, 9, FALSE),
             Ending("tcp", OwnPath, 2, 5, FALSE)}

(* Timers alone. *)
Timed == {Polling("epoll", 2, 3, 3)}

L == INSTANCE Lb WITH Setting <- LbSetting
F == INSTANCE Fq
C == INSTANCE Calls WITH Setting <- CallSetting
P == INSTANCE Poller WITH Setting <- PollSetting
E == INSTANCE Endpoint WITH Setting <- EndSetting
D == INSTANCE Codec

NoArray == pipes = 0 /\ active = 0 /\ more = 0 /\ link = 0 /\ pc = 0

NoLb ==
  /\ dropping = 0 /\ out_active = 0 /\ full = 0 /\ part = 0 /\ target = 0

NoFq ==
  /\ in_active = 0 /\ queue = 0 /\ count = 0 /\ source = 0

NoCalls ==
  /\ inq = 0 /\ sent = 0 /\ asleep = 0 /\ rd = 0 /\ outq = 0
  /\ unacked = 0 /\ accepted = 0 /\ wr = 0 /\ mbox = 0
  /\ ctx_terminated = 0 /\ ticks = 0 /\ last_tsc = 0 /\ last_time = 0
  /\ signals = 0 /\ call = 0 /\ stopped = 0 /\ faults = 0

NoPoller ==
  /\ entry = 0 /\ fdt = 0 /\ load = 0 /\ reported = 0 /\ batch = 0
  /\ phase = 0 /\ at = 0 /\ last = 0 /\ timers = 0 /\ timeout = 0
  /\ fired = 0 /\ stopping = 0 /\ called = 0

NoEndpoint ==
  /\ s = 0 /\ handle = 0 /\ wait = 0 /\ reconnect_timer = 0 /\ ivl = 0
  /\ life = 0 /\ waited = 0 /\ fds = 0 /\ made = 0 /\ ls = 0 /\ file = 0
  /\ failed = 0

NoCodec ==
  /\ msgs = 0 /\ avail = 0 /\ enc = 0 /\ outbuf = 0 /\ wire = 0
  /\ inbuf = 0 /\ dec = 0

NoSocket == NoArray /\ NoLb /\ NoFq /\ NoCalls
NoIo == NoPoller /\ NoEndpoint /\ NoCodec

Init ==
  /\ which \in Checked
  /\ \/ /\ which = "lb" /\ L!Init
        /\ now = 0 /\ got = 0 /\ NoFq /\ NoCalls /\ NoIo
     \/ /\ which = "fq" /\ F!Init
        /\ setting = 0 /\ now = 0 /\ got = 0 /\ NoLb /\ NoCalls /\ NoIo
     \/ /\ which = "calls" /\ C!Init
        /\ current = 0 /\ got = 0 /\ NoArray /\ NoLb /\ NoFq /\ NoIo
     \/ /\ which = "poller" /\ P!Init
        /\ since = 0 /\ NoSocket /\ NoEndpoint /\ NoCodec
     \/ /\ which = "endpoint" /\ E!Init
        /\ since = 0 /\ current = 0 /\ now = 0 /\ got = 0
        /\ NoSocket /\ NoPoller /\ NoCodec
     \/ /\ which = "codec" /\ D!Init
        /\ setting = 0 /\ since = 0 /\ current = 0 /\ now = 0
        /\ NoSocket /\ NoPoller /\ NoEndpoint

Next ==
  \/ /\ which = "lb" /\ L!Next
     /\ UNCHANGED <<which, now, got, fqvars, callvars, iovars>>
  \/ /\ which = "fq" /\ F!Next
     /\ UNCHANGED <<which, setting, now, got, lbvars, callvars, iovars>>
  \/ /\ which = "calls" /\ C!Next
     /\ UNCHANGED <<which, current, got, arrayvars, lbvars, fqvars, iovars>>
  \/ /\ which = "poller" /\ P!Next
     /\ UNCHANGED <<which, since, socketvars, endvars, codecvars>>
  \/ /\ which = "endpoint" /\ E!Next
     /\ UNCHANGED <<which, since, current, now, got, socketvars, pollvars,
                    codecvars>>
  \/ /\ which = "codec" /\ D!Next
     /\ UNCHANGED <<which, setting, since, current, now, socketvars, pollvars,
                    endvars>>

Spec == Init /\ [][Next]_vars

(* The pipes are interchangeable. *)
Symmetry == Permutations(Pipe)
-----------------------------------------------------------------------------
(* A pipe that can be written to or read from is among the active ones, so *)
(* that the socket uses it (Lb and Fq, ActiveFirst).                       *)
ActiveFirst == /\ which = "lb" => L!ActiveFirst
               /\ which = "fq" => F!ActiveFirst

(* All parts of a message go to one pipe and come from one pipe, and       *)
(* neither xs_assert (!more) of lb_t::send nor its like in fq_t::recvpipe  *)
(* fails (Lb, MessageInOnePipe and NoAbort; Fq, MessageFromOnePipe).       *)
MessageInOnePipe == /\ which = "lb" => L!MessageInOnePipe /\ L!NoAbort
                    /\ which = "fq" => F!MessageFromOnePipe

(* "atomic delivery of messages": no peer gets the rest of a message whose *)
(* first parts went to another (Lb, MessageInOnePipe).                     *)
AtomicDelivery == which = "lb" => L!MessageInOnePipe

(* Load balancing and fair queueing are fair: while a pipe waits for its   *)
(* turn no other one has more than two turns (Lb and Fq).                  *)
BoundedOvertaking == /\ which = "lb" => L!BoundedOvertaking
                     /\ which = "fq" => F!BoundedOvertaking

(* A send, recv or poll never waits for what is already there (Calls). *)
NotStuck == which = "calls" => C!NotStuck

(* A terminated context is noticed within inbound_poll_rate calls or       *)
(* max_command_delay, and no call gives up before its time (Calls).        *)
Punctual == which = "calls" => C!Punctual

(* No assertion of lb_t fails (Lb). *)
NoAbort == which = "lb" => L!NoAbort

(* A call that fails with EINTR leaves the message for the next (Calls). *)
MessageKept == which = "calls" => C!MessageKept
(* An event goes to the sink the kernel reported it for, while that is     *)
(* registered, and to no other that has got its descriptor since; and the  *)
(* load by which an I/O thread is chosen counts what is registered         *)
(* (Poller).                                                               *)
ReportedToSink == which = "poller" => P!ReportedToSink /\ P!LoadExact

(* While an I/O thread sleeps no timer is overdue by more than the time    *)
(* the callbacks of the round took (Poller).                               *)
TimersInTime == which = "poller" => P!TimersInTime

(* While an I/O thread sleeps no timer is overdue (Poller). *)
NeverOversleeps == which = "poller" => P!NeverOversleeps

(* Every open descriptor has one owner that will close it, and a bound     *)
(* listener can be reached under its address, after a crash too            *)
(* (Endpoint).                                                             *)
EndpointsKept == which = "endpoint" => E!NoDescriptorLost /\ E!BoundReachable

(* The waiting time before a connection is tried again is at least the     *)
(* configured interval, and less than that interval longer than the larger *)
(* of the interval and its maximum (Endpoint).                             *)
IntervalBounded == which = "endpoint" => E!IntervalBounded

(* The waiting time is at most the configured maximum (Endpoint). *)
WithinMaximum == which = "endpoint" => E!WithinMaximum

(* What is decoded is what was encoded, however the bytes are cut, and too *)
(* large a message is refused (Codec).                                     *)
RoundTrip == which = "codec" => D!RoundTrip
=============================================================================
