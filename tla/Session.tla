------------------------------- MODULE Session -------------------------------
(***************************************************************************)
(* A session (src/session_base.cpp) with its pipe to the socket, the       *)
(* stream engine of the current connection (src/stream_engine.cpp), the    *)
(* connecter (src/tcp_connecter.cpp; ipc_connecter.cpp is alike) or, for a *)
(* session made by a listener (src/tcp_listener.cpp), none, and a peer     *)
(* that sends, accepts and disconnects as it likes.  The unit of transfer  *)
(* is a message part [m |-> message, k |-> number, more |-> BOOLEAN]; the  *)
(* identity is message 0.  The handshake of module Own ends the session.   *)
(***************************************************************************)
EXTENDS Integers, FiniteSets, SequencesExt

CONSTANTS
  Setting,     \* records: connect, identity, drop (the socket may end the
               \* pipe: xrep_t) in BOOLEAN, linger in -1 .. 1, and bounds:
               \* parts and peer_parts (of a message of the socket, the peer)
  HWM,         \* bound: whole messages in the pipe to the socket
  Batch,       \* bound: parts the encoder puts into a batch
  MaxConns,    \* bound: connections
  MaxOut,      \* bound: messages the socket sends
  MaxIn        \* bound: messages the peer sends over a connection

VARIABLES
  setting,
  pipe,             \* pipe_t::state, or "none"; "delimited" and
                    \* "double_terminated" are left to module Pipe
  inq, in_active,   \* parts from the socket; no read has failed since
  outq, half,       \* parts for the socket, flushed; written, not flushed
  out_active,       \* no write has failed since
  incomplete_in, pending, linger_timer, identity_sent, identity_recvd,
  engine,           \* whether an engine is plugged in
  outbuf, in_progress, pollin, pollout,  \* stream_engine_t, its codecs
  connecter,        \* "none", "wait", "connecting", "attach" (sent)
  kids,             \* connecters that have not acknowledged their end
  closed,           \* the socket is being closed
  term,             \* own_t: "no", "asked", "terminating", "dead"
  wire, conns,      \* what was sent over this connection; their number
  sent,             \* messages the socket has sent
  peer,             \* what the peer has sent and was not read
  pm, failed        \* the peer's last part; the assertion that failed

pipevars == <<pipe, inq, in_active, outq, half, out_active>>
sessvars == <<incomplete_in, pending, linger_timer, identity_sent,
              identity_recvd>>
engvars == <<engine, outbuf, in_progress, pollin, pollout>>
netvars == <<wire, conns, sent, peer, pm>>
vars == <<setting, pipevars, sessvars, engvars, connecter, kids, closed, term,
          netvars, failed>>

(* The session has nothing to wait for: own_t::check_term_acks destroys it *)
(* in the step that finds this out.                                        *)
Finished == term = "terminating" /\ kids = 0 /\ connecter # "attach"

Running == failed = "" /\ term # "dead" /\ ~Finished

NoPart == [m |-> 0, k |-> 0, more |-> FALSE]
Identity == [m |-> 0, k |-> 1, more |-> FALSE]

(* A connecting session is launched with its pipe (socket_base_t::connect) *)
(* and starts to connect (process_plug); a listener's session is launched  *)
(* with a connection (tcp_listener_t::in_event).                           *)
Init ==
  /\ setting \in Setting
  /\ pipe = IF setting.connect THEN "active" ELSE "none"
  /\ inq = << >> /\ in_active = TRUE
  /\ outq = << >> /\ half = << >> /\ out_active = TRUE
  /\ incomplete_in = FALSE /\ pending = FALSE /\ linger_timer = FALSE
  /\ identity_sent = FALSE /\ identity_recvd = FALSE
  /\ engine = FALSE /\ outbuf = << >> /\ in_progress = << >>
  /\ pollin = FALSE /\ pollout = FALSE
  /\ connecter = IF setting.connect THEN "connecting" ELSE "attach"
  /\ kids = IF setting.connect THEN 1 ELSE 0
  /\ closed = FALSE /\ term = "no" /\ wire = << >> /\ conns = 0 /\ sent = 0
  /\ peer = << >> /\ pm = NoPart /\ failed = ""
-----------------------------------------------------------------------------
(* The socket's end of the pipe *)

Message(m, n) == [k \in 1 .. n |-> [m |-> m, k |-> k, more |-> k < n]]

(* The socket sends a message.  If the session has found the pipe empty it *)
(* is woken up (read_activated): the engine polls for output and writes.   *)
SocketSend(n) ==
  /\ Running /\ ~closed /\ pipe = "active" /\ sent < MaxOut
  /\ inq' = inq \o Message(sent + 1, n) /\ sent' = sent + 1
  /\ in_active' = TRUE
  /\ pollout' = IF ~in_active /\ engine THEN TRUE ELSE pollout
  /\ UNCHANGED <<setting, pipe, outq, half, out_active, sessvars, engine,
                 outbuf, in_progress, pollin, connecter, kids, closed, term,
                 wire, conns, peer, pm, failed>>

FirstMessage(q) == SubSeq(q, 1, Min({k \in 1 .. Len(q) : ~q[k].more}))

(* Mutant: room in the pipe wakes nobody. *)
SocketRecv_Silent ==
  /\ failed = "" /\ ~closed /\ outq # << >>
  /\ outq' = SubSeq(outq, Len(FirstMessage(outq)) + 1, Len(outq))
  /\ out_active' = TRUE
  /\ UNCHANGED <<setting, pipe, inq, in_active, half, sessvars, engvars,
                 connecter, kids, closed, term, netvars, failed>>

(* The socket receives a message; a session that found the pipe full is    *)
(* woken up (write_activated): the engine polls for input again.           *)
SocketRecv ==
  /\ failed = "" /\ ~closed /\ outq # << >>
  /\ LET wake == ~out_active /\ pipe = "active"
     IN /\ out_active' = (out_active \/ wake)
        /\ pollin' = (pollin \/ (wake /\ engine))
  /\ outq' = SubSeq(outq, Len(FirstMessage(outq)) + 1, Len(outq))
  /\ UNCHANGED <<setting, pipe, inq, in_active, half, sessvars, engine,
                 outbuf, in_progress, pollout, connecter, kids, closed, term,
                 netvars, failed>>

(* The socket ends its end of the pipe, because it is closed               *)
(* (socket_base_t::process_term) or drops the pipe.  What it has sent and  *)
(* the delimiter remain to be read ("pending"); a session that has found   *)
(* the pipe empty is woken up, and reads the delimiter if it has no engine.*)
SocketEndsPipe(close) ==
  /\ failed = "" /\ ~closed /\ (close \/ (setting.drop /\ pipe = "active"))
  /\ closed' = close
  /\ outq' = IF close THEN << >> ELSE outq
  /\ LET wake == pipe = "active" /\ ~in_active
     IN /\ pipe' = IF wake /\ ~engine THEN "terminating"
                   ELSE IF pipe = "active" THEN "pending" ELSE pipe
        /\ in_active' = (in_active \/ wake)
        /\ pollout' = (pollout \/ (wake /\ engine))
  /\ UNCHANGED <<setting, inq, half, out_active, sessvars, engine, outbuf,
                 in_progress, pollin, connecter, kids, term, netvars, failed>>
-----------------------------------------------------------------------------
(* Connecting *)

(* session_base_t::start_connecting (wait) *)
start_connecting(wait) ==
  /\ connecter' = IF wait THEN "wait" ELSE "connecting"
  /\ kids' = kids + 1

(* tcp_connecter_t::timer_event *)
ReconnectTimer ==
  /\ Running /\ connecter = "wait"
  /\ connecter' = "connecting"
  /\ UNCHANGED <<setting, pipevars, sessvars, engvars, kids, closed, term,
                 netvars, failed>>

(* tcp_connecter_t::out_event, and start_connecting when connect fails or  *)
(* succeeds at once: on success the engine is sent to the session and the  *)
(* connecter ends; otherwise it waits.                                     *)
ConnectDone(ok) ==
  /\ Running /\ connecter = "connecting"
  /\ ok => conns < MaxConns
  /\ connecter' = IF ok THEN "attach" ELSE "wait"
  /\ UNCHANGED <<setting, pipevars, sessvars, engvars, kids, closed, term,
                 netvars, failed>>

(* A connecter that has done its work, or that was told to end. *)
ConnecterGone ==
  LET last == kids = 1 /\ connecter \in {"wait", "connecting"}
  IN /\ Running /\ kids > 0 /\ (last => term = "terminating")
     /\ kids' = kids - 1
     /\ connecter' = IF last THEN "none" ELSE connecter
     /\ UNCHANGED <<setting, pipevars, sessvars, engvars, closed, term,
                    netvars, failed>>

(* stream_engine_t::plug, unplug and the destructor: a new engine polls    *)
(* for input and output, and one that goes takes its buffers with it.      *)
plug == /\ engine' = TRUE /\ pollin' = TRUE /\ pollout' = TRUE
        /\ outbuf' = << >> /\ in_progress' = << >>
unplug == /\ engine' = FALSE /\ pollin' = FALSE /\ pollout' = FALSE
          /\ outbuf' = << >> /\ in_progress' = << >>

(* session_base_t::process_attach.  A session without a pipe makes one,    *)
(* unless it is terminating.                                               *)
ProcessAttach ==
  /\ Running /\ connecter = "attach"
  /\ connecter' = "none"
  /\ IF pipe = "none" /\ term # "terminating"
     THEN /\ pipe' = IF closed THEN "pending" ELSE "active"
          /\ inq' = << >> /\ in_active' = TRUE /\ out_active' = TRUE
          /\ half' = << >>
     ELSE UNCHANGED <<pipe, inq, in_active, half, out_active>>
  /\ failed' = IF engine THEN "attach" ELSE failed
  /\ plug
  /\ wire' = << >> /\ conns' = conns + 1
  /\ peer' = IF setting.identity THEN <<Identity>> ELSE << >>
  /\ pm' = NoPart
  /\ UNCHANGED <<setting, outq, sessvars, kids, closed, term, sent>>
-----------------------------------------------------------------------------
(* Output *)

Readable == pipe \in {"active", "pending"}

(* pipe_t::check_read: reading the delimiter starts the end of the pipe. *)
Delimit(q) == IF pipe = "pending" /\ q = << >> THEN "terminating" ELSE pipe

(* session_base_t::read, repeated by the encoder until the batch is full   *)
(* or EAGAIN: first the identity, if it was not sent.                      *)
Taken ==
  LET owed == IF setting.identity /\ ~identity_sent THEN <<Identity>>
              ELSE << >>
      readable == IF Readable THEN inq ELSE << >>
      all == owed \o readable
  IN SubSeq(all, 1, Min({Batch, Len(all)}))

(* stream_engine_t::out_event: a batch is taken from the encoder when the  *)
(* last one is written, and n parts of it are written.                     *)
OutEvent(n) ==
  /\ Running /\ engine /\ pollout
  /\ LET fill  == outbuf = << >>
         batch == IF fill THEN Taken ELSE outbuf
         piped == SelectSeq(batch, LAMBDA p : p.m # 0)
         dry   == fill /\ Len(batch) < Batch
     IN /\ n \in 0 .. Len(batch)
        /\ outbuf' = SubSeq(batch, n + 1, Len(batch))
        /\ wire' = wire \o SubSeq(batch, 1, n)
        /\ IF fill
           THEN /\ inq' = SubSeq(inq, Len(piped) + 1, Len(inq))
                /\ identity_sent' = (identity_sent \/ setting.identity)
                /\ incomplete_in' = IF batch = << >> THEN incomplete_in
                                    ELSE Last(batch).more
                /\ in_active' = (in_active /\ ~dry)
                /\ pipe' = IF dry THEN Delimit(inq') ELSE pipe
           ELSE UNCHANGED <<inq, identity_sent, incomplete_in, in_active,
                            pipe>>
        /\ pollout' = ~(batch = << >> \/ (dry /\ n = Len(batch)))
  /\ UNCHANGED <<setting, outq, half, out_active, pending, linger_timer,
                 identity_recvd, engine, in_progress, pollin, connecter, kids,
                 closed, term, conns, sent, peer, pm, failed>>
-----------------------------------------------------------------------------
(* Input *)

(* The peer writes the next part of a message, or the first of a new one. *)
PeerSend(more) ==
  /\ Running /\ engine
  /\ LET p == IF pm.more THEN [m |-> pm.m, k |-> pm.k + 1, more |-> more]
              ELSE [m |-> pm.m + 1, k |-> 1, more |-> more]
     IN /\ p.m <= MaxIn /\ (more => p.k < setting.peer_parts)
        /\ pm' = p /\ peer' = Append(peer, p)
  /\ UNCHANGED <<setting, pipevars, sessvars, engvars, connecter, kids, closed,
                 term, wire, conns, sent, failed>>

Whole(q) == Cardinality({k \in 1 .. Len(q) : ~q[k].more})

(* pipe_t::check_write *)
Room == pipe = "active" /\ out_active /\ (half # << >> \/ Whole(outq) < HWM)

(* stream_engine_t::in_event for one part: session_base_t::write, and the  *)
(* flush of whole messages.  A part that the pipe does not take stays with *)
(* the decoder, and the engine stops polling for input.                    *)
InEvent ==
  /\ Running /\ engine /\ pollin
  /\ in_progress # << >> \/ peer # << >>
  /\ LET p == IF in_progress # << >> THEN Head(in_progress) ELSE Head(peer)
     IN /\ peer' = IF in_progress # << >> THEN peer ELSE Tail(peer)
        /\ identity_recvd' = (identity_recvd \/ setting.identity)
        /\ IF Room
           THEN /\ in_progress' = << >>
                /\ IF p.more THEN half' = Append(half, p) /\ UNCHANGED outq
                   ELSE half' = << >> /\ outq' = outq \o Append(half, p)
                /\ UNCHANGED <<pollin, out_active>>
           ELSE /\ in_progress' = <<p>> /\ pollin' = FALSE
                /\ out_active' = (out_active /\ pipe # "active")
                /\ UNCHANGED <<half, outq>>
  /\ UNCHANGED <<setting, pipe, inq, in_active, incomplete_in, pending,
                 linger_timer, identity_sent, engine, outbuf, pollout,
                 connecter, kids, closed, term, wire, conns, sent, pm, failed>>
-----------------------------------------------------------------------------
(* The end of a connection *)

(* Mutant: the half-read message stays in the pipe. *)
clean_pipes_Skip ==
  /\ half' = << >> /\ identity_sent' = FALSE /\ incomplete_in' = FALSE
  /\ UNCHANGED <<inq, failed>>

(* Mutant: the unfinished message is not rolled back. *)
clean_pipes_Keep ==
  /\ inq' = IF incomplete_in THEN Tail(inq) ELSE inq
  /\ incomplete_in' = FALSE /\ identity_sent' = FALSE
  /\ UNCHANGED <<half, failed>>

(* session_base_t::clean_pipes, after identity_sent was reset.  The loop   *)
(* that should remove the rest of a half-read message ends after one read: *)
(* this reads the identity where one is sent, and otherwise one part.  A   *)
(* read that fails, as from a pipe that is ending, is tried again forever. *)
clean_pipes ==
  /\ half' = << >>
  /\ IF ~incomplete_in \/ pipe = "none"
     THEN identity_sent' = FALSE /\ UNCHANGED <<inq, incomplete_in, failed>>
     ELSE IF setting.identity
     THEN identity_sent' = TRUE /\ incomplete_in' = FALSE
          /\ UNCHANGED <<inq, failed>>
     ELSE IF ~Readable
     THEN failed' = "spin" /\ identity_sent' = FALSE
          /\ UNCHANGED <<inq, incomplete_in>>
     ELSE /\ identity_sent' = FALSE
          /\ inq' = Tail(inq)
          /\ incomplete_in' = Head(inq).more
          /\ failed' = IF Head(inq).more THEN "incomplete_in" ELSE failed

(* Mutant: a session does not connect again. *)
detached_Stop == UNCHANGED <<connecter, kids, term>>

(* session_base_t::detached: a connecting session connects again, another  *)
(* asks its owner for its end.                                             *)
detached ==
  IF setting.connect THEN start_connecting(TRUE) /\ UNCHANGED term
  ELSE /\ term' = IF term = "no" THEN "asked" ELSE term
       /\ UNCHANGED <<connecter, kids>>

(* stream_engine_t::error: session_base_t::detach, unplug, delete. *)
Error ==
  /\ Running /\ engine
  /\ unplug /\ identity_recvd' = FALSE /\ peer' = << >>
  /\ clean_pipes
  /\ detached
  /\ pipe' = IF in_active THEN Delimit(inq') ELSE pipe
  /\ in_active' = (in_active /\ inq' # << >>)
  /\ UNCHANGED <<setting, closed, outq, out_active, pending, linger_timer,
                 wire, conns, sent, pm>>
-----------------------------------------------------------------------------
(* Termination *)

(* own_t::process_term: the children are told to end. *)
proceed_with_term == pending' = FALSE /\ term' = "terminating"

(* Mutant: no linger timer. *)
ProcessTerm_NoTimer ==
  /\ Running /\ (closed \/ term = "asked") /\ term # "terminating" /\ ~pending
  /\ IF pipe = "none" THEN proceed_with_term /\ UNCHANGED <<pipe, half>>
     ELSE /\ pending' = TRUE /\ UNCHANGED term
          /\ half' = << >>
          /\ pipe' = CASE pipe = "active" -> "terminated"
                       [] pipe = "pending" /\ setting.linger = 0 -> "terminating"
                       [] OTHER -> IF in_active THEN Delimit(inq) ELSE pipe
  /\ UNCHANGED <<setting, inq, in_active, outq, out_active, incomplete_in,
                 linger_timer, identity_sent, identity_recvd, engvars,
                 connecter, kids, closed, netvars, failed>>

(* session_base_t::process_term (linger), after the socket was closed or   *)
(* the session has asked; pipe_t::terminate (linger # 0) and check_read.   *)
ProcessTerm ==
  /\ Running /\ (closed \/ term = "asked") /\ term # "terminating" /\ ~pending
  /\ IF pipe = "none"
     THEN proceed_with_term /\ UNCHANGED <<pipe, linger_timer, half>>
     ELSE /\ pending' = TRUE /\ UNCHANGED term
          /\ linger_timer' = (setting.linger > 0)
          /\ half' = << >>
          /\ pipe' = CASE pipe = "active" -> "terminated"
                       [] pipe = "pending" /\ setting.linger = 0 -> "terminating"
                       [] OTHER -> IF in_active THEN Delimit(inq) ELSE pipe
  /\ UNCHANGED <<setting, inq, in_active, outq, out_active, incomplete_in,
                 identity_sent, identity_recvd, engvars, connecter, kids,
                 closed, netvars, failed>>

(* The socket's end acknowledges the end of the pipe: at once if it has    *)
(* ended it too, otherwise when all is read.  session_base_t::terminated.  *)
PipeTerminated ==
  /\ Running
  /\ pipe = "terminating" \/ (pipe = "terminated" /\ (closed \/ outq = << >>))
  /\ pipe' = "none"
  /\ IF pending THEN proceed_with_term ELSE UNCHANGED <<pending, term>>
  /\ UNCHANGED <<setting, inq, in_active, outq, half, out_active,
                 incomplete_in, linger_timer, identity_sent, identity_recvd,
                 engvars, connecter, kids, closed, netvars, failed>>

(* session_base_t::timer_event: pipe_t::terminate (false). *)
LingerTimer ==
  /\ Running /\ linger_timer
  /\ linger_timer' = FALSE
  /\ pipe' = IF pipe = "pending" THEN "terminating" ELSE pipe
  /\ failed' = IF pipe = "none" THEN "pipe" ELSE failed
  /\ UNCHANGED <<setting, inq, in_active, outq, half, out_active,
                 incomplete_in, pending, identity_sent, identity_recvd,
                 engvars, connecter, kids, closed, term, netvars>>

(* The destructor ends the engine and the timer. *)
Destroy ==
  /\ Finished /\ failed = ""
  /\ term' = "dead" /\ linger_timer' = FALSE
  /\ unplug
  /\ UNCHANGED <<setting, pipevars, incomplete_in, pending, identity_sent,
                 identity_recvd, connecter, kids, closed, netvars, failed>>

Next ==
  \/ \E n \in 1 .. setting.parts : SocketSend(n)
  \/ \E n \in 0 .. Batch : OutEvent(n)
  \/ \E b \in BOOLEAN : ConnectDone(b) \/ SocketEndsPipe(b) \/ PeerSend(b)
  \/ SocketRecv \/ ReconnectTimer \/ ConnecterGone \/ ProcessAttach
  \/ InEvent \/ Error \/ ProcessTerm \/ PipeTerminated \/ LingerTimer
  \/ Destroy

(* I/O threads run what is ready and timers expire; the socket receives.   *)
(* Nothing makes the peer accept, or the user close the socket.            *)
Progress ==
  \/ SocketRecv \/ ConnecterGone \/ ProcessAttach \/ InEvent \/ PipeTerminated
  \/ LingerTimer \/ Destroy

Spec == Init /\ [][Next]_vars /\ WF_vars(Progress)
-----------------------------------------------------------------------------
(* Properties *)

(* q is made of whole messages in order, the last one possibly unfinished. *)
WholeMessages(q) == \A j \in 1 .. Len(q) :
  IF j = 1 \/ ~q[j - 1].more THEN q[j].k = 1
  ELSE q[j].m = q[j - 1].m /\ q[j].k = q[j - 1].k + 1

(* "Remove any half-read message from the in pipe": every connection       *)
(* starts with the identity, where one is sent, and carries whole messages *)
(* however the connections before it ended; each message goes out once and *)
(* no assertion of clean_pipes fails.  (clean_pipes removes one part: this *)
(* holds for messages of two parts, of one where an identity is sent.)     *)
WholeOnWire ==
  /\ failed # "incomplete_in"
  /\ WholeMessages(wire)
  /\ setting.identity /\ wire # << >> => wire[1] = Identity
  /\ \A j \in 2 .. Len(wire) : wire[j].m >= wire[j - 1].m /\ wire[j].m # 0

(* "Get rid of half-processed messages in the out pipe": the socket sees   *)
(* whole messages only, also when the connection ends within a message,    *)
(* and a message never follows a part of another one.                      *)
WholeToSocket ==
  /\ WholeMessages(outq) /\ (outq # << >> => ~Last(outq).more)
  /\ WholeMessages(half) /\ (half # << >> => half[1].k = 1)

(* A connecting session that is not ending has one engine, or one          *)
(* connecter that will make one: it neither stops trying nor connects      *)
(* twice ("xs_assert (!engine)").                                          *)
OneConnection ==
  /\ failed # "attach"
  /\ setting.connect /\ term = "no" =>
       (connecter # "none") # engine

(* Neither side of the engine falls asleep: when the decoder holds a part  *)
(* that the pipe would take, or the pipe holds parts to be written, the    *)
(* engine polls for it.                                                    *)
NotStuck == engine =>
  /\ in_progress # << >> /\ Room => pollin
  /\ Readable /\ inq # << >> => pollout

(* A session that was told to end with a finite linger ends, and is not    *)
(* stopped by an assertion: the pipe, the linger timer and the connecters  *)
(* cannot wait for each other.  (Not so, and therefore apart: a connecting *)
(* session with a linger timer, and one of messages in parts.)             *)
LingerEnds == (pending /\ setting.linger >= 0) ~> term = "dead"

(* "xs_assert (pipe)" of session_base_t::timer_event: the linger timer     *)
(* does not outlive the pipe.                                              *)
TimerSafe == failed # "pipe"
=============================================================================
