------------------------------- MODULE ReqRep -------------------------------
(***************************************************************************)
(* Request-reply: REQ sockets (src/req.cpp, xreq.cpp), each with one       *)
(* connection at a time to one XREP or REP socket (module Xrep), the check *)
(* of replies in req_session_t, and connections that are lost and made     *)
(* again.  A REQ socket keeps its pipe; XREP has one per connection.       *)
(* Messages cross a connection as a whole or not at all.                   *)
(***************************************************************************)
EXTENDS Xrep

CONSTANTS Client,
          Setting,    \* records: server ("XREP" or "REP"), version (1 or 3),
                      \* name ([Client -> identities, << >> for none]), and
                      \* bounds: clients, parts (of a body), dups (replies
                      \* sent twice), conns and reqs (of a client), lossy
                      \* (connections may be lost)
          MaxConns    \* bound: connections of a client

Pipe == Client \X (1 .. MaxConns)

VARIABLES
  setting,
  receiving_reply, message_begins, request_id, prefetched_msg,   \* req_t
  state,         \* req_session_t::state
  conn, gen,     \* "up", "down"; the number of connections
  requests,      \* whole requests in the client's pipe
  half,          \* the parts of a request that is being written
  replies,       \* parts the client can read
  sent, got,     \* history: requests sent; the parts of the last reply
  x,             \* the XREP or REP socket
  todo,          \* requests the XREP user has: <<peer, labels, body>>
  hold, tosend,  \* parts of the request being received, reply being sent
  dups           \* replies sent twice by the user

reqvars == <<receiving_reply, message_begins, request_id, prefetched_msg,
             half, sent, got>>
netvars == <<state, conn, gen, requests, replies>>
uservars == <<todo, hold, tosend, dups>>
vars == <<setting, reqvars, netvars, x, uservars>>

(* All sockets exist; no connection has been made. *)
Init ==
  /\ setting \in Setting
  /\ receiving_reply = [c \in Client |-> FALSE]
  /\ message_begins = [c \in Client |-> TRUE]
  /\ request_id = [c \in Client |-> 0]
  /\ prefetched_msg = [c \in Client |-> << >>]
  /\ state = [c \in Client |-> "identity"]
  /\ conn = [c \in Client |-> "down"] /\ gen = [c \in Client |-> 0]
  /\ requests = [c \in Client |-> << >>] /\ half = [c \in Client |-> << >>]
  /\ replies = [c \in Client |-> << >>]
  /\ sent = [c \in Client |-> 0] /\ got = [c \in Client |-> << >>]
  /\ x = xrep(Pipe)
  /\ todo = {} /\ hold = << >> /\ tosend = << >> /\ dups = 0

Part(t, v, m) == [t |-> t, v |-> v, more |-> m]

Labelled(id) ==
  IF setting.version >= 3
  THEN <<Part("reqid", <<id>>, TRUE), Part("bottom", << >>, TRUE)>>
  ELSE <<Part("bottom", << >>, TRUE)>>
-----------------------------------------------------------------------------
(* The REQ socket *)

(* req_t::xsend: the labels go before the first part, and the last part    *)
(* flushes the request.  A body part is <<client, request, number>>.       *)
Send(c, more) ==
  /\ ~receiving_reply[c] /\ sent[c] < setting.reqs
  /\ LET begun == IF message_begins[c] THEN Labelled(request_id[c])
                  ELSE half[c]
         k == Len(SelectSeq(begun, LAMBDA p : p.t = "body")) + 1
         whole == Append(begun, Part("body", <<c, sent[c] + 1, k>>, more))
     IN /\ more => k < setting.parts
        /\ IF more
           THEN /\ half' = [half EXCEPT ![c] = whole]
                /\ message_begins' = [message_begins EXCEPT ![c] = FALSE]
                /\ UNCHANGED <<receiving_reply, requests, sent, got>>
           ELSE /\ half' = [half EXCEPT ![c] = << >>]
                /\ requests' = [requests EXCEPT ![c] = Append(@, whole)]
                /\ receiving_reply' = [receiving_reply EXCEPT ![c] = TRUE]
                /\ message_begins' = [message_begins EXCEPT ![c] = TRUE]
                /\ sent' = [sent EXCEPT ![c] = @ + 1]
                /\ got' = [got EXCEPT ![c] = << >>]
  /\ UNCHANGED <<setting, request_id, prefetched_msg, state, conn, gen,
                 replies, x, uservars>>

(* What xreq_t::xrecv returns, part by part: identities are dropped. *)
Readable(c) == prefetched_msg[c] \o
                 SelectSeq(replies[c], LAMBDA p : p.t # "identity")

(* Mutant: the request ID of a reply is not compared. *)
Matches_Any(c, part) ==
  IF setting.version >= 3 THEN part.t = "reqid" ELSE part.t = "bottom"

(* The test of the first part of a reply. *)
Matches(c, part) ==
  IF setting.version >= 3 THEN part.t = "reqid" /\ part.v = <<request_id[c]>>
  ELSE part.t = "bottom"

(* The position of the first body part of the reply that req_t::xrecv      *)
(* accepts, 0 when all that can be read is dropped.                        *)
Accepted(c) ==
  LET q == Readable(c)
      good == {k \in 1 .. Len(q) : Matches(c, q[k])}
  IN IF good = {} THEN 0 ELSE Min(good) + (IF setting.version >= 3 THEN 2 ELSE 1)

Rest(c, k) ==
  /\ prefetched_msg' = [prefetched_msg EXCEPT ![c] = << >>]
  /\ replies' = [replies EXCEPT ![c] =
                   SubSeq(Readable(c), k + 1, Len(Readable(c)))]

(* req_t::xrecv *)
Recv(c) ==
  /\ receiving_reply[c]
  /\ LET q == Readable(c)
         k == IF message_begins[c] THEN Accepted(c)
              ELSE IF q = << >> THEN 0 ELSE 1
     IN IF k = 0
        THEN /\ Rest(c, Len(q))
             /\ UNCHANGED <<receiving_reply, message_begins, request_id, got>>
        ELSE /\ Rest(c, k)
             /\ request_id' = IF message_begins[c] /\ setting.version >= 3
                              THEN [request_id EXCEPT ![c] = @ + 1]
                              ELSE request_id
             /\ got' = [got EXCEPT ![c] = Append(@, q[k])]
             /\ receiving_reply' = [receiving_reply EXCEPT ![c] = q[k].more]
             /\ message_begins' = [message_begins EXCEPT ![c] = ~q[k].more]
  /\ UNCHANGED <<setting, half, sent, state, conn, gen, requests, x, uservars>>

(* req_t::xhas_in: one part is prefetched. *)
HasIn(c) ==
  /\ receiving_reply[c] /\ prefetched_msg[c] = << >>
  /\ LET q == Readable(c)
     IN /\ prefetched_msg' = [prefetched_msg EXCEPT
                                ![c] = SubSeq(q, 1, Min({1, Len(q)}))]
        /\ replies' = [replies EXCEPT ![c] = SubSeq(q, 2, Len(q))]
  /\ UNCHANGED <<setting, receiving_reply, message_begins, request_id, half,
                 sent, got, state, conn, gen, requests, x, uservars>>
-----------------------------------------------------------------------------
(* Connections *)

(* A connection is made and the identities are exchanged.  The identity of *)
(* XREP takes req_session_t out of its first state.                        *)
Connect(c) ==
  /\ conn[c] = "down" /\ gen[c] < setting.conns
  /\ conn' = [conn EXCEPT ![c] = "up"]
  /\ gen' = [gen EXCEPT ![c] = @ + 1]
  /\ state' = [state EXCEPT ![c] = IF setting.version >= 3 THEN "reqid"
                                   ELSE "bottom"]
  /\ replies' = [replies EXCEPT ![c] =
                   Append(@, Part("identity", << >>, FALSE))]
  /\ x' = [xattach_pipe(x, <<c, gen'[c]>>, <<c, gen'[c]>>) EXCEPT
             !.inq[<<c, gen'[c]>>] =
               <<Part("identity", setting.name[c], FALSE)>>]
  /\ UNCHANGED <<setting, reqvars, requests, uservars>>

Current(c) == <<c, gen[c]>>

(* A request crosses the connection; XREP's pipe has not been cut. *)
Request(c) ==
  /\ conn[c] = "up" /\ requests[c] # << >> /\ x.link[Current(c)] = "up"
  /\ requests' = [requests EXCEPT ![c] = Tail(@)]
  /\ x' = [x EXCEPT !.inq[Current(c)] = @ \o Head(requests[c])]
  /\ UNCHANGED <<setting, reqvars, state, conn, gen, replies, uservars>>

(* Mutant: after a reply the session expects an identity again. *)
session_write_Identity(st, part) ==
  CASE st = "reqid" /\ part.t = "reqid" -> "bottom"
    [] st = "bottom" /\ part.t = "bottom" -> "body"
    [] st = "body" /\ part.more -> "body"
    [] st = "body" /\ ~part.more -> "identity"
    [] OTHER -> "error"

(* req_session_t::write: the state after a part, "error" for EFAULT. *)
session_write(st, part) ==
  CASE st = "reqid" /\ part.t = "reqid" -> "bottom"
    [] st = "bottom" /\ part.t = "bottom" -> "body"
    [] st = "body" /\ part.more -> "body"
    [] st = "body" /\ ~part.more -> "bottom"
    [] OTHER -> "error"

(* req_session_t::detach, and the loss of all that is on the wire. *)
Detach(c) == /\ conn' = [conn EXCEPT ![c] = "down"]
             /\ state' = [state EXCEPT ![c] = "identity"]

(* A reply crosses the connection, into the client's pipe; a part that the *)
(* session refuses ends the connection, and the reply is rolled back.      *)
Reply(c) ==
  /\ conn[c] = "up" /\ x.outq[Current(c)] # << >>
  /\ x' = [x EXCEPT !.outq[Current(c)] = Tail(@)]
  /\ LET m == Head(x.outq[Current(c)])
         st == FoldLeft(session_write, state[c], m)
     IN IF st = "error" THEN Detach(c) /\ UNCHANGED replies
        ELSE /\ state' = [state EXCEPT ![c] = st]
             /\ replies' = [replies EXCEPT ![c] = @ \o m]
             /\ UNCHANGED conn
  /\ UNCHANGED <<setting, reqvars, gen, requests, uservars>>

Lost(c) ==
  /\ conn[c] = "up" /\ gen[c] < setting.conns /\ setting.lossy
  /\ Detach(c)
  /\ UNCHANGED <<setting, reqvars, gen, requests, replies, x, uservars>>

(* XREP's pipe of a lost connection: no more is written to it, and it ends *)
(* when all was read from it (pipe_t::process_pipe_term, delimit).         *)
PipeTerm(p) ==
  /\ x.link[p] = "up" /\ (gen[p[1]] > p[2] \/ conn[p[1]] = "down")
  /\ x' = [x EXCEPT !.link[p] = "ended"]
  /\ UNCHANGED <<setting, reqvars, netvars, uservars>>

Terminated(p) ==
  /\ x.link[p] = "cut" \/ (x.link[p] = "ended" /\ x.inq[p] = << >>)
  /\ x' = xterminated(x, p)
  /\ UNCHANGED <<setting, reqvars, netvars, uservars>>

WriteActivated(p) ==
  /\ x.link[p] = "up" /\ ~x.out_active[p] /\ Len(x.outq[p]) < HWM
  /\ x' = xwrite_activated(x, p)
  /\ UNCHANGED <<setting, reqvars, netvars, uservars>>
-----------------------------------------------------------------------------
(* The user of the XREP or REP socket *)

Orders == SetToSeqs({p \in Attached(x) : x.inq[p] # << >>})

(* An XREP user collects requests and answers them in any order, some of   *)
(* them twice.                                                             *)
XrepRecv ==
  /\ setting.server = "XREP" /\ tosend = << >>
  /\ \E order \in Orders :
       LET r == xrecv(x, order)
           all == hold \o r[2]
       IN /\ r[2] # << >> \/ r[1] # x
          /\ x' = r[1]
          /\ IF r[2] # << >> /\ ~r[2][1].more
             THEN todo' = todo \cup {all} /\ hold' = << >>
             ELSE hold' = all /\ UNCHANGED todo
  /\ UNCHANGED <<setting, reqvars, netvars, tosend, dups>>

PollIn ==
  /\ ~x.sending_reply
  /\ \E order \in Orders : x' = xhas_in(x, order)
  /\ UNCHANGED <<setting, reqvars, netvars, uservars>>

(* The reply to a request: its labels and a body of n parts. *)
Answer(m, n) ==
  SelectSeq(m, LAMBDA p : p.t # "body") \o
  [k \in 1 .. n |-> Part("body", <<Last(m).v[1], Last(m).v[2], k>>, k < n)]

XrepSend ==
  /\ setting.server = "XREP"
  /\ IF tosend # << >>
     THEN /\ x' = xsend(x, Head(tosend))
          /\ tosend' = Tail(tosend)
          /\ UNCHANGED <<todo, dups>>
     ELSE \E m \in todo, n \in 1 .. setting.parts, again \in BOOLEAN :
            /\ again => dups < setting.dups
            /\ dups' = IF again THEN dups + 1 ELSE dups
            /\ todo' = IF again THEN todo ELSE todo \ {m}
            /\ x' = xsend(x, Head(Answer(m, n)))
            /\ tosend' = Tail(Answer(m, n))
  /\ UNCHANGED <<setting, reqvars, netvars, hold>>

RepRecv ==
  /\ setting.server = "REP" /\ ~x.sending_reply
  /\ \E order \in Orders :
       LET r == rep_xrecv(x, order)
       IN /\ r[2] # << >> \/ r[1] # x
          /\ x' = r[1] /\ hold' = hold \o r[2]
  /\ UNCHANGED <<setting, reqvars, netvars, todo, tosend, dups>>

RepSend(more) ==
  /\ setting.server = "REP" /\ x.sending_reply
  /\ more => Len(tosend) + 1 < setting.parts
  /\ LET part == Part("body", <<Last(hold).v[1], Last(hold).v[2],
                                Len(tosend) + 1>>, more)
     IN /\ x' = rep_xsend(x, part)
        /\ tosend' = IF more THEN Append(tosend, part) ELSE << >>
        /\ hold' = IF more THEN hold ELSE << >>
  /\ UNCHANGED <<setting, reqvars, netvars, todo, dups>>

Next ==
  \/ \E c \in setting.clients :
                       \/ \E more \in BOOLEAN : Send(c, more)
                       \/ Recv(c) \/ HasIn(c)
                       \/ Connect(c) \/ Request(c) \/ Reply(c) \/ Lost(c)
  \/ \E p \in Pipe : PipeTerm(p) \/ Terminated(p) \/ WriteActivated(p)
  \/ XrepRecv \/ XrepSend \/ PollIn \/ RepRecv
  \/ \E more \in BOOLEAN : RepSend(more)

(* I/O threads handle what is readable and make connections; the users of  *)
(* the sockets go on calling recv, and the service answers.  (Less than    *)
(* the fairness of each of these: every behaviour here is finite but for   *)
(* stuttering.)                                                            *)
Progress ==
  \/ \E c \in setting.clients : Recv(c) \/ Connect(c) \/ Request(c) \/ Reply(c)
  \/ \E p \in Pipe : PipeTerm(p) \/ Terminated(p) \/ WriteActivated(p)
  \/ XrepRecv \/ XrepSend \/ RepRecv \/ RepSend(FALSE)

Spec == Init /\ [][Next]_vars /\ WF_vars(Progress)
-----------------------------------------------------------------------------
(* Properties *)

(* "Each reply received is matched with the last issued request": what a   *)
(* REQ user receives is, part by part, the answer to the request it sent   *)
(* last, although the service answers late, twice or in another order and  *)
(* polling prefetches a part.                                              *)
ReplyMatches == \A c \in Client : \A k \in 1 .. Len(got[c]) :
  got[c][k].t = "body" /\ got[c][k].v = <<c, sent[c], k>>

(* "Each reply sent is routed to the client that issued the last request": *)
(* a pipe of XREP carries only whole replies to requests of its client,    *)
(* also when replies are dropped for a full pipe, the client is gone or    *)
(* has connected again, in the middle of a reply.                          *)
RoutedToAsker == \A p \in Pipe : \A k \in 1 .. Len(x.outq[p]) :
  LET m == x.outq[p][k]
      labels == SelectSeq(m, LAMBDA q : q.t # "body")
      body == SelectSeq(m, LAMBDA q : q.t = "body")
  IN /\ [j \in 1 .. Len(labels) |-> labels[j].t] =
          [j \in 1 .. Len(Labelled(0)) |-> Labelled(0)[j].t]
     /\ body # << >> /\ m = labels \o body
     /\ \A j \in 1 .. Len(body) : /\ body[j].v[1] = p[1] /\ body[j].v[3] = j
                                  /\ body[j].v[2] = body[1].v[2]

(* While no connection is lost, every request is answered: a REQ user that *)
(* goes on calling recv gets the reply.                                    *)
Answered == \A c \in Client :
  (receiving_reply[c] /\ ~setting.lossy) ~> ~receiving_reply[c]

(* No assertion of xrep_t fails, and the map of identities leads to        *)
(* exactly the pipes that are attached, each under one key.                *)
OutpipesExact ==
  /\ ~x.failed
  /\ Attached(x) = {p \in Pipe : x.link[p] # "none"}
  /\ \A i, j \in DOMAIN x.outpipes :
       x.outpipes[i].pipe = x.outpipes[j].pipe => i = j
  /\ x.current_out # None =>
       x.more_out /\ x.current_out \in Attached(x)
=============================================================================
