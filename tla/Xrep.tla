-------------------------------- MODULE Xrep --------------------------------
(***************************************************************************)
(* The XREP and REP sockets (src/xrep.cpp, src/rep.cpp) as functions on a  *)
(* record x with the fields of xrep_t and rep_t and with the pipes that    *)
(* are attached.  A message part is [t |-> kind, v |-> value, more |->     *)
(* BOOLEAN]; values and identities are tuples.  An outbound pipe holds     *)
(* whole messages, and the parts of the message that is being written.     *)
(* Fair queueing is the choice of `order', the active pipes of fq_t as it  *)
(* visits them; fq is the pipe of the message that is half read, which may *)
(* be gone (fq_t::more, which fq_t::terminated leaves alone).              *)
(***************************************************************************)
EXTENDS Integers, SequencesExt

CONSTANTS None,    \* no pipe
          HWM      \* bound: whole messages in an outbound pipe

(* xrep_t::xrep_t and rep_t::rep_t; link is "none" for an unused pipe. *)
xrep(Pipe) ==
  [prefetched |-> 0, prefetched_id |-> << >>, prefetched_msg |-> << >>,
   more_in |-> FALSE, current_out |-> None, more_out |-> FALSE,
   outpipes |-> << >>, sending_reply |-> FALSE, request_begins |-> TRUE,
   link |-> [p \in Pipe |-> "none"], fq |-> None,
   inq |-> [p \in Pipe |-> << >>], outq |-> [p \in Pipe |-> << >>],
   half |-> [p \in Pipe |-> << >>], out_active |-> [p \in Pipe |-> TRUE],
   failed |-> FALSE]

Attached(x) == {x.outpipes[i].pipe : i \in DOMAIN x.outpipes}

Key(x, p) == CHOOSE i \in DOMAIN x.outpipes : x.outpipes[i].pipe = p

(* xattach_pipe, with the auto-generated identity. *)
xattach_pipe(x, p, id) ==
  [x EXCEPT !.outpipes = (id :> [pipe |-> p, active |-> TRUE]) @@ @,
            !.link[p] = "up"]

(* Mutant: a message that is being sent goes on into the dead pipe. *)
xterminated_KeepOut(x, p) ==
  [x EXCEPT !.outpipes = RestrictDomain(@, LAMBDA i : i # Key(x, p)),
            !.failed = @ \/ p \notin Attached(x),
            !.half[p] = << >>, !.outq[p] = << >>, !.link[p] = "none"]

(* xterminated: what was written to the pipe is gone with it. *)
xterminated(x, p) ==
  [x EXCEPT !.outpipes = RestrictDomain(@, LAMBDA i : i # Key(x, p)),
            !.failed = @ \/ p \notin Attached(x),
            !.current_out = IF @ = p THEN None ELSE @,
            !.half[p] = << >>, !.outq[p] = << >>, !.link[p] = "none"]

(* xwrite_activated, after pipe_t::process_activate_write. *)
xwrite_activated(x, p) ==
  [x EXCEPT !.failed = @ \/ x.outpipes[Key(x, p)].active,
            !.outpipes[Key(x, p)].active = TRUE, !.out_active[p] = TRUE]

(* pipe_t::check_write *)
check_write(x, p) == /\ x.out_active[p] /\ x.link[p] = "up"
                     /\ Len(x.outq[p]) < HWM

(* pipe_t::write, and flush after the last part. *)
write(x, p, part) ==
  IF part.more THEN [x EXCEPT !.half[p] = Append(@, part)]
  ELSE [x EXCEPT !.outq[p] = Append(@, Append(x.half[p], part)),
                 !.half[p] = << >>]

(* The first part of a message: the identity of the peer. *)
Route(x, part) ==
  IF part.v \notin DOMAIN x.outpipes THEN [x EXCEPT !.more_out = TRUE]
  ELSE LET p == x.outpipes[part.v].pipe IN
    IF check_write(x, p)
    THEN [x EXCEPT !.more_out = TRUE, !.current_out = p]
    ELSE [x EXCEPT !.outpipes[part.v].active = FALSE,
                   !.out_active[p] = @ /\ x.link[p] # "up"]

(* Mutant: the pipe is kept after the last part. *)
xsend_Sticky(x, part) ==
  IF ~x.more_out
  THEN IF part.more THEN Route(x, part) ELSE x
  ELSE LET y == [x EXCEPT !.more_out = part.more]
           p == x.current_out
       IN IF p = None THEN y
          ELSE IF ~check_write(x, p) THEN [y EXCEPT !.current_out = None]
          ELSE write(y, p, part)

(* xsend: a message to an unknown or full peer is dropped. *)
xsend(x, part) ==
  IF ~x.more_out
  THEN LET y == [x EXCEPT !.failed = @ \/ x.current_out # None]
       IN IF part.more THEN Route(y, part) ELSE y
  ELSE LET y == [x EXCEPT !.more_out = part.more]
           p == x.current_out
       IN IF p = None THEN y
          ELSE IF ~check_write(x, p) THEN [y EXCEPT !.current_out = None]
          ELSE LET z == write(y, p, part)
               IN IF part.more THEN z ELSE [z EXCEPT !.current_out = None]

(* An identity received from pipe p: a new key for the pipe, none for the  *)
(* empty one, the end of the pipe (terminate (false)) for a duplicate.     *)
Rekey(x, p, id) ==
  IF id = << >> THEN x
  ELSE IF id \in DOMAIN x.outpipes
  THEN [x EXCEPT !.link[p] = "cut", !.inq[p] = << >>]
  ELSE [x EXCEPT !.failed = @ \/ x.more_in,
                 !.outpipes = (id :> [pipe |-> p, active |-> TRUE])
                                @@ RestrictDomain(@, LAMBDA i : i # Key(x, p))]

(* fq_t::recvpipe and the loop over identities: the result is the socket   *)
(* and the part with its pipe, or << >> when there is none.  A half-read   *)
(* message must go on in the first pipe visited: xs_assert (!(more &&      *)
(* !fetched)).                                                             *)
RECURSIVE recvpipe(_, _)
recvpipe(x, order) ==
  IF order = << >> THEN <<x, << >>, None>>
  ELSE LET p == Head(order)
           q == x.inq[p]
       IN IF q = << >>
          THEN recvpipe([x EXCEPT !.failed = @ \/ x.fq # None], Tail(order))
          ELSE LET y == [x EXCEPT !.inq[p] = Tail(@)] IN
            IF Head(q).t = "identity"
            THEN recvpipe(Rekey(y, p, Head(q).v), order)
            ELSE <<[y EXCEPT !.fq = IF Head(q).more THEN p ELSE None],
                   <<Head(q)>>, p>>

Peer(id) == [t |-> "peer", v |-> id, more |-> TRUE]

(* xrecv: the result is the socket and the part, << >> for EAGAIN. *)
xrecv(x, order) ==
  CASE x.prefetched = 2 ->
         <<[x EXCEPT !.prefetched = 1], <<Peer(x.prefetched_id)>>>>
    [] x.prefetched = 1 ->
         <<[x EXCEPT !.prefetched = 0, !.more_in = x.prefetched_msg.more],
           <<x.prefetched_msg>>>>
    [] OTHER ->
         LET r == recvpipe(x, IF x.fq \in Attached(x) THEN <<x.fq>> ELSE order)
             y == r[1]
         IN IF r[2] = << >> THEN <<y, << >>>>
            ELSE IF y.more_in
            THEN <<[y EXCEPT !.more_in = r[2][1].more], r[2]>>
            ELSE <<[y EXCEPT !.prefetched = 1, !.prefetched_msg = r[2][1]],
                   <<Peer(Key(y, r[3]))>>>>

(* xhas_in *)
xhas_in(x, order) ==
  IF x.more_in \/ x.prefetched > 0 THEN x
  ELSE LET r == xrecv(x, order)
       IN IF r[2] = << >> THEN r[1]
          ELSE [r[1] EXCEPT !.prefetched = 2, !.prefetched_id = r[2][1].v]
-----------------------------------------------------------------------------
(* REP: the labels of a request go to the reply pipe at once. *)

(* The element of a singleton, which binds a value to a name once. *)
The(S) == CHOOSE z \in S : TRUE

RECURSIVE Labels(_, _)
Labels(x, order) ==
  The({IF r[2] = << >> THEN r
       ELSE LET y == [xsend(r[1], r[2][1]) EXCEPT
                        !.failed = @ \/ ~r[2][1].more]
            IN IF r[2][1].t = "bottom"
               THEN <<[y EXCEPT !.request_begins = FALSE], r[2]>>
               ELSE Labels(y, order) : r \in {xrecv(x, order)}})

(* rep_t::xrecv while not sending_reply. *)
rep_xrecv(x, order) ==
  LET Body(r) == IF r[2] = << >> \/ r[2][1].more THEN r
                 ELSE <<[r[1] EXCEPT !.sending_reply = TRUE,
                                     !.request_begins = TRUE], r[2]>>
  IN IF ~x.request_begins THEN Body(xrecv(x, order))
     ELSE The({IF b[2] = << >> THEN b ELSE Body(xrecv(b[1], order)) :
                 b \in {Labels(x, order)}})

(* rep_t::xsend while sending_reply. *)
rep_xsend(x, part) ==
  [xsend(x, part) EXCEPT !.sending_reply = part.more]
=============================================================================
