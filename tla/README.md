# A TLA+ model of libxs

libxs (Crossroads I/O) is a messaging library: an application opens sockets of
various patterns, the library moves messages between them over TCP, IPC and
in-process transports. This directory holds TLA+ modules that model its
components and the protocols between them, TLC configurations that check them
on small instances, and TLAPS proofs of the properties everything else rests on,
for all instances. Paths below are relative to `src/src/` of the repository
unless they say otherwise.

## 1. The system and its parts

Threads do not share objects. Every object (socket, session, pipe end,
listener, connecter) lives in one thread at a time and reacts to *commands*
that other threads put in that thread's mailbox, and to I/O events and timers.

| Part | State | Operations | Module |
|---|---|---|---|
| `ypipe_t` on `yqueue_t` | cells, pointers w, f, r, shared pointer c | write, unwrite, flush, check_read, read, probe | `Ypipe`, `Fifo` |
| `mailbox_t`, `signaler_t` | a ypipe of commands, a mutex, an eventfd, `active` | send, recv, close | `Mailbox` |
| `pipe_t` | two ypipes, flow-control counters, a six-state termination automaton | read, write, rollback, flush, terminate, hiccup, five command handlers | `Pipe` |
| `own_t`, `object_t` | owner, children, sequence numbers, pending acks | launch_child, terminate, process_term, process_term_req, process_term_ack | `Own` |
| `ctx_t`, `reaper_t` | slots, sockets, termination flags | create_socket, destroy_socket, terminate, reap | `Ctx` |
| `socket_base_t`, `upoll.cpp` | pipes, mailbox, ticks, clock | send, recv, poll, process_commands | `Calls`; closing in `Ctx`, `Own` |
| `session_base_t` and `stream_engine_t` | pipe, engine, linger timer, half-message flags, pollin, pollout | attach, detach, read, write, in_event, out_event, process_term, timer | `Session` |
| `encoder_t`, `decoder_t` | automata, batch buffers | get_data, process_buffer | `Codec` |
| `tcp_/ipc_connecter_t`, `tcp_/ipc_listener_t` | descriptor, retry timer, interval, file of a path | plug, connect, retry, accept, terminate | `Endpoint` |
| `io_thread_t` and five pollers | descriptors, events, timers, load | add/rm fd, poll switches, timers, loop | `Poller` |
| `fq_t`, `lb_t`, `dist_t` on `array_t` | pipes split into active and passive regions | attach, activated, terminated, send, recv | `Fq`, `Lb`, `Dist`, `PipeArray` |
| request-reply sockets | request ID, routing table, prefetched parts | xsend, xrecv, pipe events; `req_session_t` | `Xrep`, `ReqRep` |
| survey sockets | survey ID, deadline, prefetched response | the same | `Survey`, `Xrep` |
| publish-subscribe sockets | filters, pending subscriptions, prefetched message | the same, subscribe, unsubscribe | `PubSub` |
| `prefix_filter`, `topic_filter` | a trie with reference counts; a list per topic | subscribe, unsubscribe, unsubscribe_all, match | `PrefixFilter`, `TopicFilter`, `Filters` |
| `msg_t` | inline or shared content, reference count | init, copy, move, close, add_refs, rm_refs | `Msg` |

The behaviours that make this hard: two threads on a ypipe with one atomic
pointer between them; wake-ups that must be neither lost nor repeated; two ends
of a pipe that terminate in any order while commands and messages are in
flight; a reconnect (hiccup) that replaces a ypipe under a running writer; a
connection lost between two parts of a message; flow control from counters that
lag behind; ownership trees that shut down while they still grow; `xs_term`
racing `xs_close`; arrays whose active region moves while a multi-part message
is half sent; callbacks that remove the sinks of events still to be delivered;
answers that arrive after the question was replaced; subscriptions that must be
the same at both ends although each side reconnects on its own.

## 2. Modules

Definitions whose name ends in an underscore and a capitalised word
(`Full_OffByOne`) are mutants: plausible wrong versions of the definition that
follows them. No specification uses them; they are there to see that the
properties notice (`PROJECT.json`, "mutants").

The MC modules give the constants values. `MCPipe` and `MCSession` extend the
module they are about. `MCQueues` extends `Mailbox`, which extends `Ypipe`.
`MCParts`, `MCDistribution` and `MCPatterns` check components *side by side*:
they instantiate several modules over disjoint variables (a name that two
modules use is shared), the variable `which` is chosen in the initial state
among `Checked` and says which component the behaviour is about, and the
variables of the others keep the value 0. The behaviours of such a module are
exactly those of its components; nothing is claimed about components running
together there. Interaction is modelled inside the components: `Mailbox` drives
`Ypipe`, `Session` puts pipe, engine, connecter and peer together, `ReqRep` and
`Survey` put clients and the XREP of `Xrep` together, `PubSub` puts publisher,
wire and subscribers together, `Own` and `Ctx` whole trees and contexts.

What one module shows is what another takes for granted:

* `Fifo` and `NoLostWakeup` (proved for `Ypipe`) justify the queues of `Pipe`;
* mailboxes are sequences of commands everywhere else, as `Mailbox` shows;
* `Pipe` justifies the reader's and writer's views of a pipe in `Lb`, `Fq`,
  `Dist` and `Calls`, the handshake of two steps in `Own`, and that whole
  messages become readable in `Session`, `PubSub`, `ReqRep` and `Survey`;
* `Filters` justifies that a filter in `PubSub` is a bag of pairs;
* `Codec` justifies that the wire of `Session` carries parts rather than bytes.

### State and actions against the code

**Ypipe.** `buf` is every cell ever written, `w`, `f`, `r`, `c` are the pointers
of the code as positions, `front` is the queue's begin. `Null` is a NULL `c`.
`write`, `unwrite` and `read` touch private state and are one action each.
`flush` is two: `FlushCas` is the compare-and-swap, `FlushSet` the plain store
it is followed by when the reader was asleep. `Prefetch` is the
compare-and-swap of `check_read`. `owed` records that a flush returned false;
`Wake` is the reader being woken for it, as its users do by a signal or a
command. Values are small sets; an item also carries its `more` flag.

**Mailbox.** A sender is a small automaton `spc` (lock, write, flush, set,
unlock, signal), the receiver another, `rpc`, following `mailbox_recv` line by
line, `signaler_recv` with its put-back included. `signals` is the counter of
the eventfd. Every action that touches the queue is the `Ypipe` action itself.

**Pipe.** The fields of both `pipe_t` objects keep their names. A ypipe is a
sequence of items with a published prefix and a sleeping flag; a mailbox is a
sequence of commands. Each method and each handler is one action, except
`terminate`: its `pipe_term` can be processed by the peer before the delimiter
is written, so it is two. `setting` fixes high-water marks, bounds, delays and
who hiccups for a pair.

**Lb, Fq, Dist.** The fields of the class, the pipes in array order, and of each
pipe what its user can see: `link` ("active", or "ended" once reads or writes
fail for good), `in_active`/`out_active`, full or empty. The loops of `send`,
`recvpipe`, `has_in`, `has_out` and `distribute` are one action per iteration.
`since`, `source`, `target`, `begun`, `owners` are history variables used by
properties only. Between `process_pipe_term` and `terminated` a pipe is "ended":
`Lb` lets the application make calls meanwhile unless the setting is `patient`.
An assertion that fails is the value "abort" of `pc`, an array access past the
end is "undefined".

**Msg.** A structure is the plain data that the code copies around; a content has
the reference count and whether it is allocated. `distribute` of `dist_t`, with
its `add_refs`, writes that may fail and `rm_refs`, runs beside other threads that
copy, move and close. `bad` records a use or a free of freed memory.

**Filters, PrefixFilter, TopicFilter.** Pure functions on a trie (a function from
paths to nodes, each with the window its table covers) and on the topic lists,
with the growing, shrinking and pruning of tables as the code does them. Bytes are
numbers; a topic is compared as `char`, the data as `unsigned char`, and a topic
ends at its first NUL (`Signed`, `c_str`). `Filters`
applies every sequence of subscriptions and cancellations beside the bag of
subscriptions they mean, and compares matching, and what is reported upstream,
with that bag.

**PubSub.** One XPUB, several XSUB or SUB sockets. `sf` and `subscriptions` are
the subscriber's filters, `outq` the commands in its pipe and on the wire, `inq`
and `link` XPUB's pipes, `filter`, `pending` and `told` what XPUB knows, has
still to tell and has told its user. A side that connects keeps its pipe over
connections; a connection that is lost drops what was on the wire, and
`xhiccuped` sends everything again.

**Xrep, ReqRep.** `Xrep` is XREP and REP as functions on a record with the fields
of `xrep_t` and `rep_t`: `outpipes`, prefetched parts, `more_in`, `more_out`,
the current pipe, and the pipes themselves. `ReqRep` adds REQ clients (request
ID, `receiving_reply`, the prefetched message), the state of `req_session_t`,
connections, and a service that answers late, twice or out of order. Every call
that moves one part is one action.

**Survey.** The same `Xrep` functions serve XRESPONDENT. The deadline is a flag
`expired` that may be set at any moment of a survey with a finite timeout. A
connection that is lost is two steps, `Lost` and `Terminated`: between them the
pipe of the respondent refuses to be read and is still among those of its `fq_t`.

**Calls.** A call of `send`, `recv` or `poll` is split where another thread can
matter: the first command check, the first attempt, each wait and each retry.
Queues are counters. `now` is the time; the cached clock of `clock_t` and the
throttle by `inbound_poll_rate` and `max_command_delay` are as in the code.
`faults` collects what went wrong in the calls that have returned.

**Session.** The fields of `session_base_t` and, for the engine, `pollin`,
`pollout`, the batch `outbuf` and the part `in_progress` that the session did
not take. `out_event` is one action with the whole batch it sends, `in_event`
one action per part that the session takes or refuses; `detach` includes
`clean_pipes`, and the reconnection it starts. The connecter is four states, the
peer sends, accepts and disconnects freely.

**Codec.** Bytes are numbers below `Base`, and `Base - 1` is the escape byte, so
that both forms of a size occur with sizes of a few bytes. The encoder's and the
decoder's automata are as in `encoder.hpp` and `decoder.hpp`, with the zero-copy
paths and the flags of a message, of which `shared` stays behind; every read and
write moves any number of bytes. The allocation for a message larger than
`max_vsm_size` may fail, which ends the decoder like a size above the maximum.

**Endpoint.** One connecter and two listeners. Every system call may fail or
succeed; `fds` says who has to close an open descriptor. `ivl` is an int of
`Width` bits. The file of an ipc path is created by `bind`, which fails where there
is one, and removed by `unlink`; a crash leaves it behind. An error of `SO_ERROR`
that `connect` does not list fails its assertion, which stops the model (`failed`).

**Poller.** The tables of the mechanism under test, the kernel's report `batch`
(in any order, for kqueue one entry per descriptor and filter), and the position
`at` of the dispatching loop. A callback may remove any sink,
add one that gets the same descriptor again, or change what is polled for.
Timers are the map of `io_thread_t`. `StartRound` reads the clock once, callbacks of
timers take time, and the timeout they leave counts from the moment of the call
(`called`); a signal (EINTR) may end the wait at any time.

**Ctx.** Sections under `slot_sync` are one action; `terminate` therefore is
several. `phase` is the life of a socket, `rq` the reaper's mailbox. The reaper
reads all waiting commands in one `in_event`, as the code does, and a failed
assertion in it is `rpc = "abort"`.

**Own.** Every object has the fields of `own_t` in `own[o]` and a mailbox of its
own, as if each ran in its own thread: this is the weakest ordering that any
assignment of objects to I/O threads gives. Each command handler is one action
that also runs `check_term_acks` where the code does (`GoesOrEnds`). The
handshake of a pipe is abstracted to "asked to end" and then the two ends going
away one by one. A linger timer that fires without a pipe fails `xs_assert
(pipe)`, and the whole process stops; with `LateTimer = FALSE` it fires only in
time. `Scenario` says which objects exist together, so that one run covers
listening, connecting and inproc.

## 3. What the runs check

Deadlock checking is off: a finished system (all messages sent, everything
destroyed) stops. `X.cfg` belongs to the run `x` (`LbAtomic.cfg` to `lb_atomic`);
the other configurations belong to section 4 and `FqLive.cfg` to the fairness of
`Fq`. All runs together take about nine minutes with two workers.

| Run (module) | Instance | Distinct states | What it shows |
|---|---|---|---|
| `queues` (`MCQueues`) | 3 senders, 4 items | 108,620 | the two threads of a ypipe never touch one cell, the plain store happens only while the reader sleeps, wake-ups are exact, published items are read, refinement of `Fifo`; the assertions of `mailbox_recv` and `signaler_recv`, a poller of the fd misses nothing, the mailbox uses its ypipe as the ypipe's protocol demands |
| `pipe` (`MCPipe`) | 4 settings | 298,702 | the handshake leaves no command for a deallocated end and every ypipe is deleted once; the high-water mark is a hard limit, no reader sleeps over a readable pipe; messages in order; a delayed termination delivers; termination completes |
| `parts` (`MCParts`) | 3 symmetric pipes; 3 scenarios of calls; 5 mechanisms, 4 sinks; 3 timers; 4 settings of endpoints; 2 messages of 6 sizes | 880,647 | usable pipes stay in the active region, the parts of a message stay together, no pipe is overtaken more than twice; no call waits for what is there, none gives up early, a terminated context is noticed in time; events reach the sink they were reported for, or nobody; the loop never sleeps over a timer by more than its callbacks took; no descriptor is lost, a bound address is reachable; the retry interval is bounded; decoding inverts encoding for every cut of the stream |
| `distribution` (`MCDistribution`) | 3 pipes; 6 settings of sockets; 3 filters; 4 message structures | 578,718 | no pipe is forgotten, messages are whole, reference counts are exact; XPUB's knowledge of a subscriber, with what is on its way, is right; upstream is told exactly; matching is exact for topics of 7-bit bytes, the trie has no dead nodes |
| `patterns` (`MCPatterns`) | 2 clients, 6 settings; 2 surveyors, 2 respondents, 4 settings | 114,590 | what a user receives answers what they asked last; answers go to who asked; without losses every request is answered |
| `session` (`MCSession`) | 6 settings, 2 connections | 379,449 | the wire and the socket see whole messages in order, whatever part a connection was lost at; at most one connection at a time; neither direction gets stuck; a closed session ends |
| `ctx` (`Ctx`) | 3 sockets, 2 slots | 28,213 | slots are neither lost nor given twice, `xs_term` is told only after everything was reaped; blocked calls are interrupted; `xs_term` returns |
| `own` (`Own`) | 3 scenarios | 89,673 | no command to a destroyed object, the assertions of the handlers, `term_acks` exact; a closed socket is destroyed with all it owns |
| `req_reply` (`MCPatterns`) | violation | | finding 1 |
| `session_clean` (`MCSession`) | violation | | finding 2 |
| `pubsub_stale` (`MCDistribution`) | violation | | finding 3 |
| `lb_atomic` (`MCParts`) | violation | | finding 4 |

`pipe` has four settings. *Flow*: five messages over a high-water mark of
three, so that the low-water mark (two) is crossed twice and the counters lag.
*Parts*: messages of one and two parts with rollback in between. *Term*: a
message each way, every pair of delays, both owners free to call `terminate` at
any time, repeatedly. *Reconnect*: up to two hiccups, the second possibly before
the first was seen, against writes, reads and termination, also between the two
parts of a message. Order, delivery,
wake-up of a full writer and completed termination are stated up to the first
hiccup, which drops messages by design and breaks the last two (section 4).

### Bounds, and why they are enough

Four items in a ypipe let the reader fall asleep, be woken and fall asleep again
on both sides of an unfinished message. Three senders are needed for one to hold
the mutex while a second still owes its signal and a third waits. Three pipes
are the fewest for which erase, swap and the region borders all differ; two
parts the fewest for which a message can be half sent. Three sockets and two slots make a
slot be reused. Two transient sessions, two connecters of one session, or two
inproc peers make a second child appear while the first one is on its way out.
History counters in `Lb` and `Fq` stop at three, one above the bound checked.

Two connections per session or client are the fewest for which something left
over from the first can reach the second; two messages out and two in let one be
half done and one untouched at the moment of loss. Two equal subscriptions of
one socket, two topics of which one is a prefix of the other, and two
subscribers make counting, prefix sharing and "last one out" differ. The filters
get characters 0 to 3, so that a table grows at either end, has a hole and
shrinks, and topics with a NUL, with wildcards and with a byte above 127; four
subscriptions at a time, so that two nodes below one root go in any order. Four
message structures and two contents let a distribution of three copies race a
close. In `Codec` the sizes sit on both sides of the escape value, of the buffer
size, of `max_vsm_size` and of the maximum. In `Endpoint` an int has five bits,
room for two doublings of the interval before its limit. Four sinks over three
descriptors make a descriptor be reused within one batch.

Some combinations are left out of the passing runs because the code does not
have the property there; section 4 lists each with a configuration that shows
it. They are:

* `Lb`: full pipes that also end; the end of one of three pipes in the middle of
  a message; calls in the middle of messages while a pipe is ending (the setting
  `patient`: the application waits until the end was processed);
* `Fq`: pipes without delayed termination;
* `Session`: two-part messages with an identity or without linger, three-part
  messages, a session that connects and has a linger timer;
* `ReqRep`, `Survey`: more than one request per connection with pattern version 3
  where every request must be answered; an identity or a routing ID that is also
  the ID of a request or a survey; a surveyor that polls and starts a second
  survey or has a finite deadline, a respondent that polls and loses connections;
* `Endpoint`: two ipc listeners on one path, a maximal interval above half of the
  largest int;
* `Calls`: a signal during `recv` after `inbound_poll_rate` calls;
* `Filters`: a topic with a byte above 127 is expected to match nothing;
* `Ctx`: the destruction of the last socket between the two critical sections of
  `terminate` (`Gap = FALSE`);
* `Own`: a linger timer that fires after the pipe of its session has gone
  (`LateTimer = FALSE`).

### Fairness

Fairness is stated for these kinds of step only.

* Threads that have a command, an I/O event or a half-finished call go on: an
  I/O thread or the reaper returns to its poller and reads its mailbox
  (`io_thread.cpp:147`, `reaper.cpp:62`); an application thread inside `send`,
  `recv` or `close` finishes the call.
* A pipe that was asked to end does so (`Own`), which is what `Pipe` shows up to
  hiccups.
* The owners of the reading ends read: a session whose engine writes to the
  network, an application that receives (`Pipe`, `Fq`, `ReqRep`, `Session`).
* In `ReqRep` the service answers and a lost connection is made again, as the
  connecter's timer does; `Answered` is claimed only where connections are not
  lost.
* In `Session` the linger timer fires, a connecter that was ended is gone at some
  time, and the socket reads; nothing is assumed about the peer.
* `Ctx` assumes the documented use of `xs_term`: the application closes a socket
  that reported ETERM and calls `xs_term` again after EINTR. It uses strong
  fairness for the steps an interruption or the reaper's other work can disable
  for a while.
* `Fq` (in `FqLive.cfg`, which passes: every pipe that goes on having messages is
  served again and again) uses strong fairness for `recv` and for processing
  commands, because other calls come in between; `recv` processes commands
  whenever it would block and every `inbound_poll_rate` messages.

Nothing is assumed about peers, about writers, or about when anyone terminates.
`Endpoint`, `Poller`, `Codec`, `Msg`, `PubSub`, `Survey`, `Calls`, `Dist` and `Lb`
have safety properties only.

## 4. Findings

Each is a run in which TLC finds a property violated that a comment or a manual
page of the repository states.

1. **A REQ socket gets one reply per connection** (`req_reply`, `req.cpp:213`).
   After the last part of a reply `req_session_t::write` goes to the state
   `bottom` where `reqid` is meant. With pattern version 3, the default, the next
   reply begins with a request ID and is refused, the connection is dropped with
   it, and the request stays unanswered. `doc/xs_socket.txt:73`: "This socket
   type allows only an alternating sequence of _xs_send(request)_ and subsequent
   _xs_recv(reply)_ calls".
2. **A half-sent message is continued on the next connection** (`session_clean`,
   `session_base.cpp:231`). `clean_pipes` tests `if (!read (&msg))`, but `read`
   returns 0 on success, so its loop ends after one successful read. Where an
   identity is sent that read returns the identity, because `detach` has just
   reset `identity_sent`; the rest of the message is then the first thing on the
   new connection. Where a message has three parts that read may return the
   second, and `xs_assert (!incomplete_in)` in line 232 fails. The comment at line
   226: "Remove any half-read message from the in pipe."
3. **A filter refers to a terminated pipe** (`pubsub_stale`,
   `prefix_filter.cpp:183`). A connecting XPUB keeps its pipe over connections
   and gets each subscription again after a reconnect, so the pipe is counted
   twice; `pfx_rm_all` takes one off. The comment at `xpub.cpp:226`: "Remove the
   pipe from all the filters."
4. **The rest of a message goes to another peer** (`lb_atomic`, `lb.cpp:61`).
   While the parts of a message go to the last active pipe another pipe ends:
   `terminated` resets `current` to 0, and the parts that are left are written to
   the first pipe, though the pipe of the message is still there. `doc/xs_send.txt:39`:
   "ensures atomic delivery of messages; peers shall receive either all _message
   parts_ of a message or none at all".

### Observations

Met while modelling, and not among the listed runs. Those with a configuration
are reproduced by running it: TLC reports the property violated. Where a
configuration names several properties, `-continue` shows them all.
`PartsLimits.cfg` is about several parts: `Checked` is to be narrowed to the one
in brackets, since `-continue` prints a trace for every violation. "`P` in
`X.cfg`" means that the property `P` of the module, added to that configuration,
is violated.

| Where | What | To reproduce |
|---|---|---|
| `pipe.cpp:231` | a hiccup in the terminated state drops the delimiter and writes none to the new pipe; an end that waits for it waits for ever | `PipeHiccup.cfg` (`MCPipe`) |
| `push.cpp:70` | PUSH never reads, so the delimiter of a peer that terminates is never consumed | `PipePush.cfg` (`MCPipe`) |
| `lb.cpp:59` | `terminated` of an active pipe lets `erase` put a passive pipe into the active region and leaves an active one outside | `ActiveFirst` in `PartsLimits.cfg` ("lb") |
| `lb.cpp:97` | a pipe whose peer ended refuses the next part of a message before `lb_t` is told, `xs_assert (!more)` | `NoAbort` in `PartsLimits.cfg` ("lb") |
| `fq.cpp:51`, `fq.cpp:87` | the same as for `lb.cpp:59`; a pipe without delayed termination ends in the middle of a message being received | `ActiveFirst`, `MessageInOnePipe` in `PartsLimits.cfg` ("fq") |
| `socket_base.cpp:684` | `recv` may return EINTR or ETERM although it has taken a message out of the pipe, which is lost; `ticks` then passes `inbound_poll_rate` and commands are not looked at until the socket has nothing to read | `MessageKept`, `Punctual` in `PartsLimits.cfg` ("calls") |
| `surveyor.cpp:98`, `surveyor.cpp:157` | a response prefetched by a poll is returned to the next survey; polling with an infinite or an expired deadline fails an assertion | `AnswerMatches`, `PollSafe` in `Survey.cfg` (`MCPatterns`) |
| `xrespondent.cpp:267`, `fq.cpp:87` | a respondent has prefetched the ID of a survey by a poll when the connection is lost: reading on fails an assertion of `fq_t` | `RoutedBack` in `Survey.cfg` (`MCPatterns`) |
| `xrespondent.cpp:164`, `xrep.cpp:170` | when the pipe of the addressed peer is full the answer is to be dropped, but its next part, the ID of the survey or request, is taken for the ID of a peer: where a peer has that ID it gets the rest of the answer | `RoutedBack` in `Survey.cfg` (`MCPatterns`) |
| `topic_filter.cpp:58` | a topic is compared as `char`, the data as `unsigned char`: where `char` is signed a topic with a byte above 127 matches nothing | `SevenBit` of `Filters` |
| `io_thread.cpp:121` | the clock is read before the callbacks of timers, and the timeout counts from after them: the poller oversleeps by the time they took | `NeverOversleeps` in `PartsLimits.cfg` ("poller") |
| `tcp_connecter.cpp:161` | the random part of an interval is added after the comparison with XS_RECONNECT_IVL_MAX, which `doc/xs_setsockopt.txt:249` calls the maximum period | `WithinMaximum` in `PartsLimits.cfg` ("endpoint") |
| `ipc_listener.cpp:102`, `:143` | a second listener on a path takes the file of the first, and the one that closes first removes the other's file | `EndpointsKept` in `PartsLimits.cfg` ("endpoint") |
| `tcp_connecter.cpp:169` | the interval overflows when its maximum is above half of the largest int | `IntervalBounded` in `PartsLimits.cfg` ("endpoint") |
| `msg.cpp:281` | when `rm_refs` takes the last references, `close` subtracts one more from a count of zero and the content is not freed | `MsgLeak.cfg` (`Msg`) |
| `session_base.cpp:231` | `clean_pipes` loops for ever when the rest of the half-read message never comes | `SessionSpin.cfg` (`MCSession`) |
| `session_base.cpp:391` | the linger timer may expire after its pipe is gone, `xs_assert (pipe)` | `LingerTimer.cfg` (`MCSession`); `TreeSafe` in `Own.cfg` with `LateTimer = TRUE` |
| `ctx.cpp:250` | the last socket may be destroyed between the two critical sections of `terminate`, and the reaper is stopped twice | `ReaperStop.cfg` (`Ctx`) |
| `mailbox.cpp:59` | the receiver of the last command may destroy the mailbox before its sender has released the mutex | `MutexFreeAtClose` in `Queues.cfg` |

By reading only: messages dropped by a hiccup stay charged against the
high-water mark (`pipe.cpp:229`); parts of an unfinished message are left in a
ypipe that is deleted (`pipe.cpp:349`); the pipe of a connection with a
duplicate identity ends, but its session keeps the connection, over which
nothing is read or written any more (`xrep.cpp:252`); the loop in `req.cpp:116`
assumes that a reply it skips has more than one part; the identity of a
connecting inproc socket is flushed on the first pipe of the socket rather than
on the new one (`socket_base.cpp:469`); one malformed subscription ends the
reading of all that follow it (`xpub.cpp:142`); a message prefetched by SUB is
delivered although its subscription was cancelled since (`sub.cpp:105`); a
reconnect interval of 0 is divided by (`tcp_connecter.cpp:161`); the topic
filter never reports unsubscriptions.

## 5. What is proved

Every safety property that the runs check of `ypipe_t`, `mailbox_t`, `pipe_t`,
`dist_t`, `msg_t` and `ctx_t` with its reaper is a theorem, for every value of
the constants that satisfies the named assumptions. All of them are proved the
same way: an inductive invariant that implies the property, one lemma per action
(or group of actions) showing that the action keeps it, and a temporal step.

| Theorem (module) | Property of the run | For any |
|---|---|---|
| `QueueIsSafe`, `Refinement` (`QueueProofs`) | `QueueSafe`, `ImplementsFifo` | payloads, number of items |
| `MailboxIsSafe`, `MailboxUsesYpipe` (`QueueProofs`) | `MailboxSafe`, `UsesYpipe` | senders, commands |
| `EndsPartCleanly` (`PipeTheorems`) | `CleanEnd` | settings, messages, hiccups |
| `FlowIsControlled` (`PipeTheorems`) | `FlowControl` | the same, all high-water marks |
| `MessagesInOrder`, `DelayDelivers` (`PipeTheorems`) | `ReadInOrder`, `LingerDelivers` (action properties) | the same, up to the first hiccup |
| `NoPipeForgotten`, `MessagesAreWhole` (`DistProofs`) | `EligibleKept`, `WholeMessages` for `which = "dist"` | number of pipes |
| `CountsAreExact` (`MsgProofs`) | `RefsExact` for `which = "msg"` | message structures, contents, copies |
| `EverySocketAccounted` (`CtxProofs`) | `SocketsAccounted` | sockets, `max_sockets` |

The assumptions are `MaxItemsAssumption`, `SenderAssumption`, `PipeAssumption`
(settings have the types of the code's options; at most `MaxHiccups` hiccups,
any number) and `CtxAssumption` (`None` is neither a slot nor a socket; `Gap`
may be true), each in the module that declares the constants. `Dist` needs none.
The theorems of `MsgProofs` have the hypothesis `Structures`: there are finitely
many `msg_t` structures, and the marker `None` is not one.

**QueueProofs, ypipe.** The invariant of a lock-free queue is not inductive by
itself: that the two threads use different cells depends on when `c` is NULL, and
that depends on who sleeps. `IInv` has four parts besides types. `PointerOrder`
places front, r, w, f and the back of the queue. `SharedPointer` says that `c`
is NULL or equal to `w`, and NULL only when everything published was consumed.
`SleepProtocol` ties `asleep` to a NULL `c` or an owed wake-up, and keeps the
half-done flush inside a period of sleep. `MessageEnds` keeps `f` and `w` at
message boundaries. From `IInv` follow `TypeCorrect`, `CellsAreDisjoint`,
`PlainStoreIsSafe` and `WakeupsAreExact`, of which the last three are
`QueueIsSafe`; `OnlyWholeMessages`; and the action property `EmptyIsDrained`.
`Refinement` shows that every step of `Ypipe` is a step of `Fifo` or a stutter,
with the published prefix of `buf` and `front` as the refinement mapping.

**QueueProofs, mailbox.** The argument counts wake-up tokens. A flush that returns
false creates one; it is its sender's duty to signal, then a unit of the
eventfd, then destroyed by `signaler_recv`. `Tokens` says that at most one exists
and where it is, on top of the one signal (`Base`) that stays in the eventfd
while the receiver reads. `MutexHeld` and `ReceiverState` provide the single
writer and the awake reader that `Ypipe` takes for granted. `StepOfYpipe` shows
that each step is a step of the ypipe, so that `IInv` carries over, and
`MailboxUsesYpipe` follows. `AssertedReadSucceeds` and `AssertedSignalCount` are
the assertions in `mailbox_recv` and `signaler_recv`, `FdIsTruthful` is what
pollers rely on; together they are `MailboxIsSafe`.

**Pipe: the handshake.** `PipeFacts` has the invariant `IInv` and what both proofs
use about queues of commands and of messages; `PipeProofs` shows that each step
keeps it. That a deallocated end gets no command cannot be shown from the states
alone: it depends on what is on its way. `Handshake` says for each pair of states
(`PeerStates`) which of `pipe_term` and `pipe_term_ack` are in the two mailboxes
(`QueueFits`) and in which order (`QueueOrder`): an ack is the last command an end
sends, and hiccups come before its `pipe_term`. `Ends` ties the state of an end to
its outpipe and to the half-done `terminate`. `Ownership` follows the ypipes
through hiccups. In each direction those in use are a chain: the writer's, those in
hiccup commands in order, and the reader's, which is the last; the two chains and
the deleted ypipes are disjoint and are all there are. `Published` says that what
a reader sees ends with a whole message. `CompleteFinds`, that the position flush
publishes to is that of the last end of a message, is a fact about a greatest
element, shown in `PipeTheorems` by well-foundedness and carried in `IInv` so that
the step lemmas can use it.

**Pipe: the messages.** `PipeFlowProofs` adds, in `FInv`, what lies between the
counters of two threads. `Numbering`: the numbers of the messages in a ypipe lie
between the reader's `msgs_read` and the writer's `msgs_written`, also after
rollback and hiccups. `Reports`: the `activate_write` commands on their way lie, in
order, between what the writer knows and `msgs_read`. `LowWater`: the newest of
them is a multiple of the low-water mark and less than one mark behind, which with
`LowBelowHigh` (the mark that `compute_lwm` gives is not above the high-water mark)
is why a full writer is never forgotten. `HighWater` and `Wakeups` are the limit
and the sleeping reader. `NewPipesEmpty` says that a ypipe in a hiccup command is
still empty. `BeforeHiccup` holds what is true until messages are first dropped: a
ypipe holds consecutive messages up to the last one written, the delimiter comes
behind it, and an end that has read the delimiter has read everything.

**DistProofs.** The first half is about `array_t`: what `swap`, `push_back` and
the moving hole of `terminated` do to the set of pipes in a region (`SwapKeeps`,
`SwapIn`, `SwapOut`, `PushIs`, `MoveHoleIs`, `EraseIs`). The second half is the
invariant: the array has every attached pipe once; the eligible region is
exactly the pipes not known to be full; only inside a message are there eligible
pipes that are not active; the matching region is, from the first part to the
last, the pipes that have the message so far; and during `distribute` the pipes
in front of `i` have the part.

**MsgProofs.** The account of a content: its references are the structures that
hold it and, for the structure under distribution, the copies still to be written
or given back; the count equals them if the content is shared, and there is one if
it is not (`Fine`). `CountExact` follows, with its exception for a content whose
last references `rm_refs` gave back (section 4, `msg.cpp:281`).

**CtxProofs.** Two accounts. Slots: every slot is in the free list once or belongs
to one socket (`SlotsOnce`), the known sockets are those with a slot. Reaping: the
reaper's count, with the socket it is about to count, is the number of sockets being
reaped plus the `reaped` commands in its mailbox (`ReaperCount`), and it is stopped
only after the last socket of a terminating context is destroyed (`StopIsLast`). Both
rest on the lemmas at the head of the module about how many commands of a type a
queue holds after a send and after a receive.

**Only model-checked.** Liveness (`PublishedIsRead`, `QuietTerminationCompletes`,
`TermCompletes`, `BlockedCallsInterrupted`, `CloseCompletes`, `LingerEnds`,
`Answered`), which needs fairness and ENABLED, beyond the prover. What the
recursive definitions of `Codec`, `Xrep` and the filters compute (`RoundTrip`,
`MatchExact`, `UpstreamExact`), which needs induction over data. The properties of
`Lb` and `Fq`, which hold only for the settings of the run (section 4). And the
safety of the remaining compositions: `Calls`, `PubSub`, `ReqRep`, `Survey`,
`Session`, `Endpoint`, `Poller`, `Own`.

## 6. What is not modelled, and why

* The chunk list of `yqueue_t` (cells are numbered), the memory model below
  atomic operations (they are taken as sequentially consistent), the socketpair
  and Windows signalers.
* The public API (`xs.cpp`, the plug-in loader, the compatibility layer), options,
  addresses, threads, error and random number helpers: argument checks, wrappers
  of system calls and sequential parsing without protocol state.
* The PGM transport: optional, over an external library.
* PAIR sockets: one pipe, without logic beyond `Pipe`. PUSH and PULL forward to
  `lb_t` and `fq_t`.
* The greeting that two stream engines exchange before messages, and the formats
  of subscriptions of older versions.
* The variant of `xs_poll` for select(2), polling of several items.
* The contents of small messages, `init_data` with its callback.

Within the modelled parts: allocation fails only in the decoder; the context's I/O threads
are not chosen, each object has a mailbox of its own; a REQ socket has one
connection at a time, so that balancing requests over several (`Lb`) is not
composed with matching replies; the handshake of pipes and the trees of `Own` are
checked apart.

## 7. Plan

Theorems, in the order of their value: `TreeSafe` of `Own` for any tree of objects
(its invariant has to count, for every object, the acknowledgements on their way and
the children that are being launched); `WholeOnWire` and `OneConnection` of
`Session`; `BoundedOvertaking` of `Lb` and `Fq` where no pipe ends. Then a composition
of XREQ over `Lb` and `Fq` with `Xrep`, once it fits within a run.
