------------------------------- MODULE Calls -------------------------------
(***************************************************************************)
(* The blocking calls of a socket (socket_base.cpp): send, recv and the    *)
(* poll of upoll.cpp, made by the application thread while an I/O thread   *)
(* writes to and reads from the socket's pipe and the context terminates.  *)
(*                                                                         *)
(* The socket has one pipe in each direction.  A call takes commands out   *)
(* of the mailbox at points chosen to be cheap: send only when the time    *)
(* stamp counter has moved on, recv once every inbound_poll_rate calls,    *)
(* both before they give up and while they wait.  A step of a call is the  *)
(* code between two points where another thread can matter.                *)
(*                                                                         *)
(* The queues are counters: only how many messages are there is told       *)
(* apart.  `now' is the time in milliseconds; it is also the time stamp    *)
(* counter.                                                                *)
(***************************************************************************)
EXTENDS Integers, Sequences, SequencesExt

CONSTANTS HWM,        \* high watermark of the outbound pipe
          Delay,      \* max_command_delay
          Setting     \* the scenarios: [fns, rate, timeouts, signals, in, out, time]

VARIABLES
  setting,     \* the scenario
  inq,         \* messages in the inbound pipe
  sent,        \* messages the I/O thread has written so far
  asleep,      \* the inbound ypipe: the reader went to sleep
  rd,          \* the inbound pipe is active (fq)
  outq,        \* messages in the outbound pipe
  unacked,     \* messages written and not acknowledged by activate_write
  accepted,    \* messages the application has sent so far
  wr,          \* the outbound pipe is active (lb)
  mbox,        \* the socket's mailbox
  ctx_terminated, ticks, last_tsc,
  now,         \* the time
  last_time,   \* clock_t: the value now_ms read last
  signals,     \* signals that may still interrupt a call
  call,        \* the call in progress
  stopped,     \* when the context posted its stop command, -1 before
  since,       \* recv calls that succeeded since
  faults       \* what went wrong in the calls that have returned

vars == <<setting, inq, sent, asleep, rd, outq, unacked, accepted, wr, mbox,
          ctx_terminated, ticks, last_tsc, now, last_time, signals, call,
          stopped, since, faults>>
pipes == <<inq, asleep, rd, outq, unacked, accepted, wr>>
world == <<setting, sent, now, stopped>>

Idle == [pc |-> "idle", fn |-> "none", timeout |-> 0, left |-> 0, end |-> 0,
         until |-> 0, block |-> FALSE, got |-> FALSE, started |-> 0]

Init ==
  /\ setting \in Setting
  /\ inq = 0 /\ sent = 0 /\ asleep = TRUE /\ rd = FALSE
  /\ outq = 0 /\ unacked = 0 /\ accepted = 0 /\ wr = TRUE
  /\ mbox = <<>> /\ ctx_terminated = FALSE /\ ticks = 0 /\ last_tsc = 0
  /\ now = 0 /\ last_time = 0 /\ signals = setting.signals
  /\ call = Idle /\ stopped = -1 /\ since = 0 /\ faults = {}

-----------------------------------------------------------------------------
(* The other threads. *)

\* The I/O thread writes a message to the inbound pipe and flushes it: a
\* reader that went to sleep is sent activate_read.
PeerWrites ==
  /\ sent < setting.in
  /\ sent' = sent + 1 /\ inq' = inq + 1 /\ asleep' = FALSE
  /\ mbox' = IF asleep THEN Append(mbox, "activate_read") ELSE mbox
  /\ UNCHANGED <<setting, rd, outq, unacked, accepted, wr, ctx_terminated,
                 ticks, last_tsc, now, last_time, signals, call, stopped,
                 since, faults>>

\* The I/O thread reads a message from the outbound pipe and acknowledges it
\* (the low watermark is 1).
PeerReads ==
  /\ outq > 0
  /\ outq' = outq - 1
  /\ mbox' = Append(mbox, "activate_write")
  /\ UNCHANGED <<setting, sent, inq, asleep, rd, unacked, accepted, wr,
                 ctx_terminated, ticks, last_tsc, now, last_time, signals,
                 call, stopped, since, faults>>

\* socket_base_t::stop: xs_term posts the stop command.
stop ==
  /\ stopped = -1
  /\ stopped' = now /\ mbox' = Append(mbox, "stop")
  /\ UNCHANGED <<setting, sent, inq, asleep, rd, outq, unacked, accepted, wr,
                 ctx_terminated, ticks, last_tsc, now, last_time, signals,
                 call, since, faults>>

Tick ==
  /\ now < setting.time
  /\ now' = now + 1
  /\ UNCHANGED <<setting, sent, inq, asleep, rd, outq, unacked, accepted, wr,
                 mbox, ctx_terminated, ticks, last_tsc, last_time, signals,
                 call, stopped, since, faults>>

-----------------------------------------------------------------------------
(* What the calls are made of. *)

\* clock_t::now_ms: the time, or the value read last when the counter has
\* moved by less than half a millisecond since.
now_ms == {now} \cup {t \in {last_time} : t >= now - 1}

Pending(cmd) == cmd \in ToSet(mbox)

\* process_commands without the throttle: every command in the mailbox is
\* processed; a signal makes the last, failing read of the mailbox report
\* EINTR; otherwise a terminated context reports ETERM.
process_commands(rc) ==
  /\ mbox' = <<>>
  /\ rd' = (rd \/ Pending("activate_read"))
  /\ unacked' = unacked - Len(SelectSeq(mbox, LAMBDA c : c = "activate_write"))
  /\ wr' = (wr \/ Pending("activate_write"))
  /\ ctx_terminated' = (ctx_terminated \/ Pending("stop"))
  /\ \/ /\ rc = "EINTR" /\ signals > 0
        /\ signals' = signals - 1
     \/ /\ rc = (IF ctx_terminated' THEN "ETERM" ELSE "ok")
        /\ UNCHANGED signals
  /\ UNCHANGED <<inq, asleep, outq, accepted>>

NoCommands ==
  UNCHANGED <<mbox, rd, unacked, wr, ctx_terminated, signals, inq, asleep,
              outq, accepted>>

\* xrecv of a socket with one pipe (fq.recv): a read that finds nothing puts
\* the pipe to sleep.
Readable == rd /\ inq > 0

xrecv ==
  /\ IF Readable THEN inq' = inq - 1 /\ UNCHANGED <<rd, asleep>>
                 ELSE /\ rd' = FALSE /\ asleep' = (asleep \/ rd)
                      /\ UNCHANGED inq
  /\ UNCHANGED <<outq, unacked, accepted, wr>>

\* xsend of a socket with one pipe (lb.send): a full pipe is passive until
\* the next activate_write.
Writable == wr /\ unacked < HWM

xsend ==
  /\ IF Writable THEN /\ outq' = outq + 1 /\ unacked' = unacked + 1
                      /\ accepted' = accepted + 1 /\ UNCHANGED wr
                 ELSE wr' = FALSE /\ UNCHANGED <<outq, unacked, accepted>>
  /\ UNCHANGED <<inq, asleep, rd>>

Possible == IF call.fn = "send" THEN Writable ELSE Readable
xop == IF call.fn = "send" THEN xsend ELSE xrecv

\* xhas_out and xhas_in, which XS_EVENTS asks both.
xhas ==
  /\ rd' = Readable /\ asleep' = (asleep \/ (rd /\ ~Readable))
  /\ wr' = Writable
  /\ UNCHANGED <<inq, outq, unacked, accepted>>

\* The call returns.  Faults: a message was fetched and the call reports that
\* it was interrupted ("lost"); a call gave up before its time ("early"); a
\* send succeeded long after the context was terminated ("late").
Return(rc) ==
  /\ call' = Idle
  /\ since' = IF rc = "ok" /\ call.fn = "recv" /\ stopped >= 0
              THEN since + 1 ELSE since
  /\ faults' = faults
       \cup {f \in {"lost"} : rc = "EINTR" /\ call.got}
       \cup {f \in {"early"} : /\ rc = "EAGAIN" /\ call.timeout # 0
                               /\ \/ call.timeout < 0
                                  \/ now < call.started + call.timeout - 1}
       \cup {f \in {"late"} : /\ rc = "ok" /\ call.fn = "send" /\ stopped >= 0
                              /\ call.started > stopped + Delay}

Goto(c) == call' = c /\ UNCHANGED <<since, faults>>

\* The call starts to wait for `left' milliseconds.
Waiting(c, left) ==
  [c EXCEPT !.pc = "wait", !.left = left, !.until = now + left]

\* Before the loop: the time at which the timeout occurs.
Start(block) ==
  IF call.timeout < 0
  THEN Goto(Waiting([call EXCEPT !.block = block], -1)) /\ UNCHANGED last_time
  ELSE \E t \in now_ms :
         /\ last_time' = t
         /\ Goto(Waiting([call EXCEPT !.block = block, !.end = t + call.timeout],
                         call.timeout))

\* In the loop, when nothing could be done: give up or wait again.
Again ==
  LET c == [call EXCEPT !.block = TRUE]
  IN IF call.timeout < 0
     THEN Goto(Waiting(c, -1)) /\ UNCHANGED last_time
     ELSE \E t \in now_ms :
            /\ last_time' = t
            /\ IF call.end - t <= 0 THEN Return("EAGAIN")
               ELSE Goto(Waiting(c, call.end - t))

-----------------------------------------------------------------------------
(* The calls. *)

\* The application calls send, recv or xs_poll.  A timeout of 0 also stands
\* for the flag XS_DONTWAIT.
Begin(fn, timeout) ==
  /\ call.pc = "idle" /\ ~ctx_terminated
  /\ fn = "send" => accepted < setting.out
  /\ Goto([Idle EXCEPT
             !.pc = CASE fn = "send" -> "throttle" [] fn = "recv" -> "first"
                      [] OTHER -> "events",
             !.fn = fn, !.timeout = timeout, !.started = now])
  /\ UNCHANGED <<setting, sent, inq, asleep, rd, outq, unacked, accepted, wr,
                 mbox, ctx_terminated, ticks, last_tsc, now, last_time,
                 signals, stopped>>

\* send: process_commands (0, true): whether it is too early to look.
Throttled_Never == now >= last_tsc
Throttled == now >= last_tsc /\ now - last_tsc <= Delay

Throttle ==
  /\ call.pc = "throttle"
  /\ IF Throttled
     THEN NoCommands /\ Goto([call EXCEPT !.pc = "first"]) /\ UNCHANGED last_tsc
     ELSE \E rc \in {"ok", "EINTR", "ETERM"} :
            /\ last_tsc' = now
            /\ process_commands(rc)
            /\ IF rc = "ok" THEN Goto([call EXCEPT !.pc = "first"]) ELSE Return(rc)
  /\ UNCHANGED <<ticks, last_time, world>>

\* The first xsend or xrecv.
First ==
  /\ call.pc = "first"
  /\ xop
  /\ \/ /\ call.fn = "recv"
        /\ Goto([call EXCEPT !.pc = "tick", !.got = Readable])
        /\ UNCHANGED last_time
     \/ /\ call.fn = "send"
        /\ IF Writable THEN Return("ok") /\ UNCHANGED last_time
           ELSE IF call.timeout = 0
           THEN Goto([call EXCEPT !.pc = "last"]) /\ UNCHANGED last_time
           ELSE Start(TRUE)
  /\ UNCHANGED <<mbox, ctx_terminated, ticks, last_tsc, signals, world>>

Fetched_Block(t) ==
  IF call.got THEN Return("ok") /\ UNCHANGED last_time
  ELSE IF call.timeout = 0
  THEN Goto([call EXCEPT !.pc = "last"]) /\ UNCHANGED last_time
  ELSE Start(TRUE)

\* recv after the first xrecv: whether to wait before the next one.  When the
\* commands have just been processed the message may be there already.
Fetched(t) ==
  IF call.got THEN Return("ok") /\ UNCHANGED last_time
  ELSE IF call.timeout = 0
  THEN Goto([call EXCEPT !.pc = "last"]) /\ UNCHANGED last_time
  ELSE Start(t # 0)

\* recv: whether this call is the one that processes the commands.
Due == ticks + 1 = setting.rate

\* recv: once every inbound_poll_rate calls the commands are processed.
Ticked ==
  /\ call.pc = "tick"
  /\ IF Due
     THEN \E rc \in {"ok", "EINTR", "ETERM"} :
            /\ process_commands(rc)
            /\ IF rc = "ok" THEN ticks' = 0 /\ Fetched(0)
               ELSE ticks' = ticks + 1 /\ Return(rc) /\ UNCHANGED last_time
     ELSE /\ NoCommands
          /\ ticks' = ticks + 1 /\ Fetched(ticks + 1)
  /\ UNCHANGED <<last_tsc, world>>

\* A call that must not wait processes the commands, tries again and returns.
LastTry ==
  /\ call.pc = "last"
  /\ \E rc \in {"ok", "EINTR", "ETERM"} :
       /\ process_commands(rc)
       /\ IF rc = "ok" THEN Goto([call EXCEPT !.pc = "try"]) ELSE Return(rc)
       /\ ticks' = IF rc = "ok" /\ call.fn = "recv" THEN 0 ELSE ticks
  /\ UNCHANGED <<last_tsc, last_time, world>>

Try ==
  /\ call.pc = "try"
  /\ xop
  /\ Return(IF Possible THEN "ok" ELSE "EAGAIN")
  /\ UNCHANGED <<mbox, ctx_terminated, ticks, last_tsc, last_time, signals, world>>

\* The loop of a call that may wait: wait for a command, try again.
Expired == call.left > 0 /\ now >= call.until

Wait ==
  /\ call.pc = "wait"
  /\ \E rc \in {"ok", "EINTR", "ETERM"} :
       /\ call.block => mbox # <<>> \/ Expired \/ rc = "EINTR"
       /\ process_commands(rc)
       /\ IF rc # "ok" THEN Return(rc)
          ELSE Goto([call EXCEPT
                       !.pc = IF call.fn \in {"send", "recv"} THEN "retry" ELSE "check"])
  /\ UNCHANGED <<ticks, last_tsc, last_time, world>>

Retry ==
  /\ call.pc = "retry"
  /\ xop
  /\ IF Possible THEN Return("ok") /\ UNCHANGED last_time ELSE Again
  /\ ticks' = IF Possible /\ call.fn = "recv" THEN 0 ELSE ticks
  /\ UNCHANGED <<mbox, ctx_terminated, last_tsc, signals, world>>

\* xs_poll: the first pass does not wait.  In every pass the option XS_EVENTS
\* processes the commands and asks the socket.  (Waiting is Wait: the
\* descriptor of the mailbox is readable when there are commands.)
Events ==
  /\ call.pc = "events"
  /\ \E rc \in {"ok", "EINTR", "ETERM"} :
       /\ process_commands(rc)
       /\ IF rc # "ok" THEN Return(rc) ELSE Goto([call EXCEPT !.pc = "check"])
  /\ UNCHANGED <<ticks, last_tsc, last_time, world>>

Check ==
  /\ call.pc = "check"
  /\ xhas
  /\ IF (call.fn = "pollin" /\ Readable) \/ (call.fn = "pollout" /\ Writable)
     THEN Return("ok") /\ UNCHANGED last_time
     ELSE IF call.timeout = 0
     THEN Return("EAGAIN") /\ UNCHANGED last_time
     ELSE IF call.block THEN Again ELSE Start(TRUE)
  /\ UNCHANGED <<mbox, ctx_terminated, ticks, last_tsc, signals, world>>

Next ==
  \/ PeerWrites \/ PeerReads \/ stop \/ Tick
  \/ \E fn \in setting.fns, t \in setting.timeouts : Begin(fn, t)
  \/ Throttle \/ First \/ Ticked \/ LastTry \/ Try \/ Wait \/ Retry
  \/ Events \/ Check

Spec == Init /\ [][Next]_vars

-----------------------------------------------------------------------------
(* Properties. *)

\* A call that waits with nothing in the mailbox waits for something that is
\* really missing: a blocked recv or poll for input has no message in its
\* pipe, a blocked send or poll for output has a pipe the peer has not read,
\* and the context has not been terminated.  This is what the reread of the
\* pipe after the commands, the value of `block' and the order of the first
\* pass of xs_poll are for (socket_base.cpp send, recv; upoll.cpp).
NotStuck ==
  call.pc = "wait" /\ call.block /\ mbox = <<>> =>
    /\ call.fn \in {"recv", "pollin"} => inq = 0
    /\ call.fn \in {"send", "pollout"} => outq = HWM
    /\ stopped = -1

\* A terminated context is noticed: at most inbound_poll_rate calls of
\* recv succeed once the stop command is in the mailbox, and no call of send
\* made more than max_command_delay later succeeds; and a call with a timeout
\* does not report EAGAIN before its time (the clock may be one step behind),
\* one with an infinite timeout never (socket_base.cpp send, recv,
\* process_commands).
Punctual == since <= setting.rate /\ faults \cap {"early", "late"} = {}

\* recv reports EINTR only when no message was taken out of the pipe
\* (doc/xs_recvmsg.txt).
MessageKept == "lost" \notin faults
=============================================================================
