--------------------------------- MODULE Own ---------------------------------
(***************************************************************************)
(* The ownership tree of one socket: own_t (src/own.cpp) as the socket,    *)
(* its listeners, its sessions and their connecters use it.  Every object  *)
(* lives in a thread of its own and is reached by commands in its mailbox  *)
(* only; that is the weakest ordering a choice of I/O threads can give.    *)
(* The handshake between the two ends of a pipe is abstracted to "both     *)
(* ends end some time after one was asked to" (module Pipe).               *)
(***************************************************************************)
EXTENDS Integers, Sequences, FiniteSets

CONSTANTS Root,        \* the socket
          Listener,
          Transient,   \* sessions a listener creates
          Connecting,  \* sessions xs_connect creates
          Connecter,
          Peer,        \* other sockets that connect by inproc
          Pipe, None,
          Scenario,    \* sets of objects and peers that exist together
          LateTimer    \* BOOLEAN: a linger timer may expire after the pipe of
                       \* its session has gone

Session == Transient \cup Connecting
Obj == {Root} \cup Listener \cup Session \cup Connecter

ASSUME OwnAssumption ==
  /\ Scenario \subseteq SUBSET (Obj \cup Peer)
  /\ None \notin Obj \cup Peer \cup Pipe
  /\ IsFiniteSet(Obj) /\ IsFiniteSet(Peer) /\ IsFiniteSet(Pipe)
  /\ Root \notin Listener \cup Session \cup Connecter /\ Obj \cap Peer = {}
  /\ Listener \cap Session = {} /\ Connecter \cap (Listener \cup Session) = {}
  /\ Transient \cap Connecting = {}
  /\ LateTimer \in BOOLEAN

Command == [type : {"plug", "attach", "term", "term_ack"}]
             \cup [type : {"term_req"}, object : Obj]
             \cup [type : {"bind"}, pipe : Pipe]

VARIABLES
  st,       \* "none" before it is created, "live", "dead" once destroyed;
            \* "absent": not part of the scenario; "aborted": its assertion
            \* has ended the program
  own,      \* the fields of own_t but sent_seqnum
  sent_seqnum,
  mbox,
  ready,    \* the object waits for a connection (listener, connecter)
  engine,   \* session_base_t::engine # NULL
  pipe,     \* session_base_t::pipe
  pending,  \* session_base_t::pending
  linger_timer,
  pipes,    \* the pipes: the object at the far end and the state of both ends
  closed,   \* xs_close was called and the reaper has the socket
  endpoint, \* the socket is registered for inproc
  inproc    \* a peer: "idle", "found" the endpoint, or "bound" to it

sessionvars == <<engine, pipe, pending, linger_timer>>
inprocvars == <<endpoint, inproc>>
vars == <<st, own, sent_seqnum, mbox, ready, sessionvars, pipes, closed, inprocvars>>

End == {"none", "unbound", "live", "gone"}
Fresh == [owner |-> None, owned |-> {}, terminating |-> FALSE, term_acks |-> 0,
          processed_seqnum |-> 0]

TypeOK ==
  /\ st \in [Obj -> {"absent", "none", "live", "dead", "aborted"}]
  /\ own \in [Obj -> [owner : Obj \cup {None}, owned : SUBSET Obj,
                      terminating : BOOLEAN, term_acks : Nat,
                      processed_seqnum : Nat]]
  /\ sent_seqnum \in [Obj -> Nat] /\ mbox \in [Obj -> Seq(Command)]
  /\ ready \subseteq Listener \cup Connecter /\ engine \subseteq Session
  /\ pipe \in [Session -> Pipe \cup {None}] /\ pending \subseteq Session
  /\ linger_timer \subseteq Session
  /\ pipes \in [Pipe -> [far : Session \cup Peer \cup {None}, farend : End,
                         sockend : End, asked : BOOLEAN]]
  /\ closed \in BOOLEAN /\ endpoint \in BOOLEAN
  /\ inproc \in [Peer -> {"absent", "idle", "found", "bound"}]

NoPipe == [far |-> None, farend |-> "none", sockend |-> "none", asked |-> FALSE]

Init ==
  /\ \E scenario \in Scenario :
       /\ st = [o \in Obj |-> CASE o = Root -> "live" [] o \in scenario -> "none"
                                [] OTHER -> "absent"]
       /\ inproc = [q \in Peer |-> IF q \in scenario THEN "idle" ELSE "absent"]
  /\ own = [o \in Obj |-> Fresh] /\ sent_seqnum = [o \in Obj |-> 0]
  /\ mbox = [o \in Obj |-> << >>] /\ ready = {}
  /\ engine = {} /\ pipe = [s \in Session |-> None]
  /\ pending = {} /\ linger_timer = {} /\ pipes = [p \in Pipe |-> NoPipe]
  /\ closed = FALSE /\ endpoint = TRUE
-----------------------------------------------------------------------------
(* Commands *)

Plug == [type |-> "plug"]
Attach == [type |-> "attach"]
Term == [type |-> "term"]
TermReq(o) == [type |-> "term_req", object |-> o]

Nothing == [o \in Obj |-> << >>]
To(o, cmds) == [Nothing EXCEPT ![o] = cmds]
And(out, more) == [o \in Obj |-> out[o] \o more[o]]

(* o takes the first command of its mailbox. *)
Gets(o, type) == st[o] = "live" /\ mbox[o] # << >> /\ Head(mbox[o]).type = type
Rest(o) == [mbox EXCEPT ![o] = Tail(@)]

(* o goes on as r and sends the commands out; box is what is left to read. *)
Goes(o, r, box, out) ==
  /\ own' = [own EXCEPT ![o] = r]
  /\ mbox' = And(box, out)
  /\ UNCHANGED st

(* The condition of check_term_acks *)
Ended(o, r) ==
  r.terminating /\ r.processed_seqnum = sent_seqnum[o] /\ r.term_acks = 0

(* ... then check_term_acks: an object that has ended tells its owner and  *)
(* is destroyed.                                                           *)
GoesOrEnds(o, r, box, out) ==
  IF Ended(o, r)
  THEN /\ own' = [own EXCEPT ![o] = r]
       /\ st' = [st EXCEPT ![o] = "dead"]
       /\ mbox' = And(And(box, out),
                      IF r.owner = None THEN Nothing
                      ELSE To(r.owner, <<[type |-> "term_ack"]>>))
  ELSE Goes(o, r, box, out)

Seqnum(r) == [r EXCEPT !.processed_seqnum = @ + 1]

(* own_t::process_term *)
Terminating(r) ==
  [r EXCEPT !.terminating = TRUE, !.term_acks = @ + Cardinality(r.owned),
            !.owned = {}]
TermOwned(r) == [o \in Obj |-> IF o \in r.owned THEN <<Term>> ELSE << >>]

(* Mutant: a child launched by a terminating object is kept as any other. *)
Launched_Owned(r, c) == [r EXCEPT !.owned = @ \cup {c}]

(* launch_child.  The owner of c is set where c is created. *)
Launched(r, c) ==
  IF r.terminating THEN [r EXCEPT !.term_acks = @ + 1]
                   ELSE [r EXCEPT !.owned = @ \cup {c}]

(* Mutant: a child launched by a terminating object is not told to end. *)
LaunchSends_NoTerm(r, c, after) == To(c, <<Plug>> \o after)

LaunchSends(r, c, after) ==
  To(c, <<Plug>> \o (IF r.terminating THEN <<Term>> ELSE << >>) \o after)

(* The own_t of o after it launched c, and of c. *)
Launch(o, r, c, box, after) ==
  /\ st' = [st EXCEPT ![c] = "live"]
  /\ own' = [own EXCEPT ![o] = Launched(r, c), ![c] = [Fresh EXCEPT !.owner = o]]
  /\ mbox' = And(box, LaunchSends(r, c, after))

(* process_term_req *)
Dismissed(r, c) ==
  IF r.terminating \/ c \notin r.owned THEN r
  ELSE [r EXCEPT !.owned = @ \ {c}, !.term_acks = @ + 1]

DismissSends(r, c) ==
  IF r.terminating \/ c \notin r.owned THEN Nothing ELSE To(c, <<Term>>)

(* terminate of an owned object *)
AskOwner(o) ==
  IF own[o].terminating THEN Nothing ELSE To(own[o].owner, <<TermReq(o)>>)

(* Bound: a pipe is created while the set Pipe has one that is not in use. *)
PipeLeft == \E p \in Pipe : pipes[p] = NoPipe
FreePipe == CHOOSE p \in Pipe : pipes[p] = NoPipe
NewPipe(far, sockend) ==
  [far |-> far, farend |-> "live", sockend |-> sockend, asked |-> FALSE]
-----------------------------------------------------------------------------
(* The socket: calls of the application *)

(* xs_bind *)
Bind(l) ==
  /\ ~closed /\ st[l] = "none"
  /\ Launch(Root, own[Root], l, mbox, << >>)
  /\ sent_seqnum' = [sent_seqnum EXCEPT ![l] = 1]
  /\ UNCHANGED <<ready, sessionvars, pipes, closed, inprocvars>>

(* xs_connect *)
Connect(s) ==
  /\ ~closed /\ st[s] = "none" /\ PipeLeft
  /\ pipes' = [pipes EXCEPT ![FreePipe] = NewPipe(s, "live")]
  /\ pipe' = [pipe EXCEPT ![s] = FreePipe]
  /\ Launch(Root, own[Root], s, mbox, << >>)
  /\ sent_seqnum' = [sent_seqnum EXCEPT ![s] = 1]
  /\ UNCHANGED <<ready, engine, pending, linger_timer, closed, inprocvars>>

(* xs_shutdown of an endpoint *)
Shutdown(c) ==
  /\ ~closed /\ c \in own[Root].owned
  /\ Goes(Root, Dismissed(own[Root], c), mbox, DismissSends(own[Root], c))
  /\ UNCHANGED <<sent_seqnum, ready, sessionvars, pipes, closed, inprocvars>>

Attached == {p \in Pipe : pipes[p].sockend = "live"}

(* start_reaping: terminate of the root, that is socket_base_t's           *)
(* process_term.                                                           *)
Close ==
  /\ ~closed /\ closed' = TRUE
  /\ endpoint' = FALSE
  /\ pipes' = [p \in Pipe |->
                 IF p \in Attached THEN [pipes[p] EXCEPT !.asked = TRUE] ELSE pipes[p]]
  /\ LET r == [own[Root] EXCEPT !.term_acks = @ + Cardinality(Attached)] IN
       GoesOrEnds(Root, Terminating(r), mbox, TermOwned(r))
  /\ UNCHANGED <<sent_seqnum, ready, sessionvars, inproc>>

(* A socket type turns a pipe down (pair_t, xrep_t). *)
Reject(p) ==
  /\ ~closed /\ pipes[p].sockend = "live" /\ ~pipes[p].asked
  /\ pipes' = [pipes EXCEPT ![p].asked = TRUE]
  /\ UNCHANGED <<st, own, sent_seqnum, mbox, ready, sessionvars, closed, inprocvars>>

(* process_bind: attach_pipe *)
process_bind ==
  /\ Gets(Root, "bind")
  /\ LET p == Head(mbox[Root]).pipe
         t == own[Root].terminating
         r == [own[Root] EXCEPT !.term_acks = IF t THEN @ + 1 ELSE @]
     IN /\ pipes' = [pipes EXCEPT ![p].sockend = "live", ![p].asked = @ \/ t]
        /\ GoesOrEnds(Root, Seqnum(r), Rest(Root), Nothing)
  /\ UNCHANGED <<sent_seqnum, ready, sessionvars, closed, inprocvars>>

(* The pipe p as it is, or forgotten when both its ends are gone *)
Forget(q) == IF q.farend = "gone" /\ q.sockend = "gone" THEN NoPipe ELSE q

(* socket_base_t::terminated *)
SocketPipeTerminated(p) ==
  /\ pipes[p].sockend = "live" /\ pipes[p].asked
  /\ pipes' = [pipes EXCEPT ![p] = Forget([@ EXCEPT !.sockend = "gone"])]
  /\ LET r == own[Root] IN
       IF r.terminating
       THEN GoesOrEnds(Root, [r EXCEPT !.term_acks = @ - 1], mbox, Nothing)
       ELSE UNCHANGED <<own, mbox, st>>
  /\ UNCHANGED <<sent_seqnum, ready, sessionvars, closed, inprocvars>>
-----------------------------------------------------------------------------
(* Listeners and connecters *)

(* process_plug of a listener or a connecter *)
PlugIo(o) ==
  /\ o \in Listener \cup Connecter /\ Gets(o, "plug")
  /\ ready' = ready \cup {o}
  /\ GoesOrEnds(o, Seqnum(own[o]), Rest(o), Nothing)
  /\ UNCHANGED <<sent_seqnum, sessionvars, pipes, closed, inprocvars>>

(* tcp_listener_t::in_event *)
Accept(l, s) ==
  /\ l \in ready /\ st[s] = "none"
  /\ sent_seqnum' = [sent_seqnum EXCEPT ![s] = 2]
  /\ Launch(l, own[l], s, mbox, <<Attach>>)
  /\ UNCHANGED <<ready, sessionvars, pipes, closed, inprocvars>>

(* tcp_connecter_t::out_event of a connection made *)
Connected(c) ==
  /\ c \in Connecter \cap ready
  /\ ready' = ready \ {c}
  /\ LET s == own[c].owner IN
       /\ sent_seqnum' = [sent_seqnum EXCEPT ![s] = @ + 1]
       /\ mbox' = And(And(mbox, To(s, <<Attach>>)), AskOwner(c))
  /\ UNCHANGED <<st, own, sessionvars, pipes, closed, inprocvars>>

(* process_term of a listener or a connecter *)
TermIo(o) ==
  /\ o \in Listener \cup Connecter /\ Gets(o, "term")
  /\ ready' = ready \ {o}
  /\ GoesOrEnds(o, Terminating(own[o]), Rest(o), TermOwned(own[o]))
  /\ UNCHANGED <<sent_seqnum, sessionvars, pipes, closed, inprocvars>>

process_term_req(o) ==
  /\ Gets(o, "term_req")
  /\ LET c == Head(mbox[o]).object IN
       Goes(o, Dismissed(own[o], c), Rest(o), DismissSends(own[o], c))
  /\ UNCHANGED <<sent_seqnum, ready, sessionvars, pipes, closed, inprocvars>>

process_term_ack(o) ==
  /\ Gets(o, "term_ack")
  /\ GoesOrEnds(o, [own[o] EXCEPT !.term_acks = @ - 1], Rest(o), Nothing)
  /\ UNCHANGED <<sent_seqnum, ready, sessionvars, pipes, closed, inprocvars>>
-----------------------------------------------------------------------------
(* Sessions *)

(* start_connecting *)
StartConnecting(s, r, box) ==
  \E c \in Connecter :
    /\ st[c] = "none"
    /\ Launch(s, r, c, box, << >>)
    /\ sent_seqnum' = [sent_seqnum EXCEPT ![c] = 1]

(* process_plug; the session cannot end here, its term comes later. *)
PlugSession(s) ==
  /\ Gets(s, "plug")
  /\ IF s \in Connecting
     THEN StartConnecting(s, Seqnum(own[s]), Rest(s))
     ELSE /\ GoesOrEnds(s, Seqnum(own[s]), Rest(s), Nothing)
          /\ UNCHANGED sent_seqnum
  /\ UNCHANGED <<ready, sessionvars, pipes, closed, inprocvars>>

(* process_attach *)
process_attach(s) ==
  /\ Gets(s, "attach")
  /\ engine' = engine \cup {s}
  /\ IF pipe[s] = None /\ ~own[s].terminating
     THEN /\ PipeLeft
          /\ pipe' = [pipe EXCEPT ![s] = FreePipe]
          /\ pipes' = [pipes EXCEPT ![FreePipe] = NewPipe(s, "unbound")]
          /\ sent_seqnum' = [sent_seqnum EXCEPT ![Root] = @ + 1]
          /\ GoesOrEnds(s, Seqnum(own[s]), Rest(s),
                        To(Root, <<[type |-> "bind", pipe |-> FreePipe]>>))
     ELSE /\ GoesOrEnds(s, Seqnum(own[s]), Rest(s), Nothing)
          /\ UNCHANGED <<pipe, pipes, sent_seqnum>>
  /\ UNCHANGED <<ready, pending, linger_timer, closed, inprocvars>>

(* The engine fails: detach. *)
Detach(s) ==
  /\ st[s] = "live" /\ s \in engine
  /\ engine' = engine \ {s}
  /\ IF s \in Connecting
     THEN StartConnecting(s, own[s], mbox)
     ELSE mbox' = And(mbox, AskOwner(s)) /\ UNCHANGED <<st, own, sent_seqnum>>
  /\ UNCHANGED <<ready, pipe, pending, linger_timer, pipes, closed, inprocvars>>

(* Mutant: the session does not wait for its pipe. *)
TermSession_NoWait(s) ==
  /\ Gets(s, "term")
  /\ pipes' = IF pipe[s] = None THEN pipes ELSE [pipes EXCEPT ![pipe[s]].asked = TRUE]
  /\ GoesOrEnds(s, Terminating(own[s]), Rest(s), TermOwned(own[s]))
  /\ UNCHANGED <<sent_seqnum, ready, engine, pipe, pending, linger_timer, closed,
                 inprocvars>>

(* process_term; the timer is set for a positive linger. *)
TermSession(s) ==
  /\ Gets(s, "term")
  /\ IF pipe[s] = None
     THEN /\ GoesOrEnds(s, Terminating(own[s]), Rest(s), TermOwned(own[s]))
          /\ UNCHANGED <<pending, pipes, linger_timer>>
     ELSE /\ pending' = pending \cup {s}
          /\ linger_timer' \in {linger_timer, linger_timer \cup {s}}
          /\ pipes' = [pipes EXCEPT ![pipe[s]].asked = TRUE]
          /\ Goes(s, own[s], Rest(s), Nothing)
  /\ UNCHANGED <<sent_seqnum, ready, engine, pipe, closed, inprocvars>>

(* session_base_t::terminated and proceed_with_term.  The acknowledgement  *)
(* the far end waits for is sent by the socket's end after it was bound.   *)
SessionPipeTerminated(s) ==
  /\ pipe[s] # None /\ pipes[pipe[s]].asked /\ pipes[pipe[s]].sockend # "unbound"
  /\ pipes' = [pipes EXCEPT ![pipe[s]] = Forget([@ EXCEPT !.farend = "gone"])]
  /\ pipe' = [pipe EXCEPT ![s] = None]
  /\ pending' = pending \ {s}
  /\ IF s \in pending
     THEN GoesOrEnds(s, Terminating(own[s]), mbox, TermOwned(own[s]))
     ELSE UNCHANGED <<own, mbox, st>>
  /\ UNCHANGED <<sent_seqnum, ready, engine, linger_timer, closed, inprocvars>>

InTime(s) == LateTimer \/ pipe[s] # None

(* timer_event: "xs_assert (pipe)" *)
LingerExpires(s) ==
  /\ st[s] = "live" /\ s \in linger_timer /\ InTime(s)
  /\ linger_timer' = linger_timer \ {s}
  /\ st' = IF pipe[s] = None THEN [st EXCEPT ![s] = "aborted"] ELSE st
  /\ UNCHANGED <<own, sent_seqnum, mbox, ready, engine, pipe, pending, pipes,
                 closed, inprocvars>>
-----------------------------------------------------------------------------
(* Another socket connects by inproc *)

(* Mutant: the socket is not kept from ending. *)
find_endpoint_NoSeqnum(q) ==
  /\ endpoint /\ inproc[q] = "idle"
  /\ inproc' = [inproc EXCEPT ![q] = "found"]
  /\ UNCHANGED <<st, own, sent_seqnum, mbox, ready, sessionvars, pipes, closed,
                 endpoint>>

find_endpoint(q) ==
  /\ endpoint /\ inproc[q] = "idle"
  /\ inproc' = [inproc EXCEPT ![q] = "found"]
  /\ sent_seqnum' = [sent_seqnum EXCEPT ![Root] = @ + 1]
  /\ UNCHANGED <<st, own, mbox, ready, sessionvars, pipes, closed, endpoint>>

(* The rest of connect: create the pipe and send bind. *)
InprocBind(q) ==
  /\ inproc[q] = "found" /\ PipeLeft
  /\ inproc' = [inproc EXCEPT ![q] = "bound"]
  /\ pipes' = [pipes EXCEPT ![FreePipe] = NewPipe(q, "unbound")]
  /\ mbox' = And(mbox, To(Root, <<[type |-> "bind", pipe |-> FreePipe]>>))
  /\ UNCHANGED <<st, own, sent_seqnum, ready, sessionvars, closed, endpoint>>

(* The peer closes its end, or its end ends. *)
PeerTerminates(p) ==
  /\ pipes[p].far \in Peer /\ pipes[p].farend = "live"
  /\ \/ /\ ~pipes[p].asked
        /\ pipes' = [pipes EXCEPT ![p].asked = TRUE]
     \/ /\ pipes[p].asked /\ pipes[p].sockend # "unbound"
        /\ pipes' = [pipes EXCEPT ![p] = Forget([@ EXCEPT !.farend = "gone"])]
  /\ UNCHANGED <<st, own, sent_seqnum, mbox, ready, sessionvars, closed, inprocvars>>
-----------------------------------------------------------------------------
Handle(o) ==
  \/ o = Root /\ process_bind
  \/ o \in Session /\ (PlugSession(o) \/ process_attach(o) \/ TermSession(o))
  \/ PlugIo(o) \/ TermIo(o) \/ process_term_req(o) \/ process_term_ack(o)

Step ==
  \/ \E l \in Listener : Bind(l) \/ \E s \in Transient : Accept(l, s)
  \/ \E s \in Connecting : Connect(s)
  \/ \E c \in Obj : Shutdown(c)
  \/ Close
  \/ \E p \in Pipe : Reject(p) \/ SocketPipeTerminated(p) \/ PeerTerminates(p)
  \/ \E o \in Obj : Handle(o)
  \/ \E c \in Connecter : Connected(c)
  \/ \E s \in Session : \/ Detach(s) \/ SessionPipeTerminated(s)
                        \/ LingerExpires(s)
  \/ \E q \in Peer : find_endpoint(q) \/ InprocBind(q)

Next == (\A o \in Obj : st[o] # "aborted") /\ Step

Spec == Init /\ [][Next]_vars

(* Threads process their commands, pipes asked to end do, and a peer that  *)
(* found the endpoint goes on.                                             *)
Fairness ==
  /\ \A o \in Obj : WF_vars(Handle(o))
  /\ \A p \in Pipe : WF_vars(SocketPipeTerminated(p)) /\ WF_vars(PeerTerminates(p))
  /\ \A s \in Session : WF_vars(SessionPipeTerminated(s))
  /\ \A q \in Peer : WF_vars(InprocBind(q))

FairSpec == Spec /\ Fairness
-----------------------------------------------------------------------------
(* Properties *)

(* No command is ever on its way to an object that was destroyed, and the  *)
(* objects a live one refers to (its owner, the socket) are alive.         *)
NoDeadDestination ==
  /\ \A o \in Obj : mbox[o] # << >> => st[o] = "live"
  /\ \A o \in Obj \ {Root} : st[o] = "live" => st[own[o].owner] = "live"
  /\ (\E q \in Peer : inproc[q] = "found") => st[Root] = "live"

(* The assertions of own_t and session_base_t when a command is handled or *)
(* an object destroyed: no second term, an acknowledgement is expected, a  *)
(* destroyed object has no children left and no pipe, a new engine finds   *)
(* none.  A linger timer that expires finds a pipe unless LateTimer.       *)
HandlersAssert ==
  \A o \in Obj :
    /\ st[o] # "aborted"
    /\ Gets(o, "term") => ~own[o].terminating /\ o \notin pending
    /\ Gets(o, "term_ack") => own[o].term_acks > 0
    /\ o \in Session /\ Gets(o, "attach") => o \notin engine
    /\ st[o] = "dead" => /\ own[o].owned = {}
                         /\ o \in Session => pipe[o] = None

(* The children of o that were asked to end and whose acknowledgement has  *)
(* not been processed                                                      *)
Asked(o) ==
  {c \in Obj : st[c] # "none" /\ own[c].owner = o /\ c \notin own[o].owned}
Acks(o) == Cardinality({i \in DOMAIN mbox[o] : mbox[o][i].type = "term_ack"})

(* term_acks counts exactly the acknowledgements that will come: from each *)
(* child asked to end that still lives, those in the mailbox, and for a    *)
(* closed socket from each pipe.  And the state is well typed.             *)
AcksExact ==
  /\ TypeOK
  /\ \A o \in Obj :
       st[o] = "live" =>
         own[o].term_acks =
           Cardinality({c \in Asked(o) : st[c] = "live"}) + Acks(o)
             + (IF o = Root /\ closed THEN Cardinality(Attached) ELSE 0)

(* The three together: the tree of a socket comes down in order. *)
TreeSafe == NoDeadDestination /\ HandlersAssert /\ AcksExact

(* A closed socket is eventually destroyed, with all it owns. *)
CloseCompletes ==
  closed ~> st[Root] = "dead" /\ \A o \in Obj : st[o] # "live"

=============================================================================
