------------------------------- MODULE Survey -------------------------------
(***************************************************************************)
(* The survey pattern: SURVEYOR sockets (src/surveyor.cpp, xsurveyor.cpp)  *)
(* and RESPONDENT sockets (src/respondent.cpp, xrespondent.cpp), each      *)
(* surveyor connected to each respondent.  XRESPONDENT routes as XREP does *)
(* (module Xrep), without identities.  A survey is <<survey ID, body>>; a  *)
(* respondent sees the peer before them.                                   *)
(***************************************************************************)
EXTENDS Xrep

CONSTANTS Surveyor, Respondent,
          Setting   \* records: timeout ("finite", "zero" or "default"), and
                    \* what may happen: polls of surveyors (spoll) and of
                    \* respondents (rpoll), lost connections (lossy);
                    \* peer ([Surveyor -> its ID at the respondents]); and
                    \* bounds: surveyors, respondents, surveys

Pipe == Surveyor \X Respondent

VARIABLES
  setting,
  receiving_responses, survey_id, expired, has_prefetched, prefetched,
  inq,       \* whole responses in the surveyor's pipes
  wire,      \* whole surveys in the surveyor's outbound pipes
  x,         \* the RESPONDENT sockets
  asked,     \* the survey a respondent's user is about to answer
  got,       \* history: <<response, survey_id when it was received>>
  aborted    \* surveyors whose errno_assert failed

survvars == <<receiving_responses, survey_id, expired, has_prefetched,
              prefetched, got, aborted>>
vars == <<setting, survvars, inq, wire, x, asked>>

(* All sockets exist and all connections are made. *)
Init ==
  /\ setting \in Setting
  /\ receiving_responses = [s \in Surveyor |-> FALSE]
  /\ survey_id = [s \in Surveyor |-> 0]
  /\ expired = [s \in Surveyor |-> FALSE]
  /\ has_prefetched = [s \in Surveyor |-> FALSE]
  /\ prefetched = [s \in Surveyor |-> << >>]
  /\ inq = [p \in Pipe |-> << >>] /\ wire = [p \in Pipe |-> << >>]
  /\ x = [r \in Respondent |->
            FoldSet(LAMBDA s, y : xattach_pipe(y, <<s, r>>, setting.peer[s]),
                    xrep(Pipe), setting.surveyors)]
  /\ asked = [r \in Respondent |-> << >>]
  /\ got = [s \in Surveyor |-> << >>] /\ aborted = {}
-----------------------------------------------------------------------------
(* The surveyor *)

(* dist_t::send_to_all: a full pipe does not get the survey. *)
send_to_all(s, m) ==
  wire' = [p \in Pipe |->
             IF /\ p[1] = s /\ p[2] \in setting.respondents
                /\ x[p[2]].link[p] = "up" /\ Len(wire[p]) < HWM
             THEN Append(wire[p], m) ELSE wire[p]]

(* surveyor_t::xsend.  The deadline is now + survey_timeout: with the      *)
(* default, -1, it has passed at once, and with 0 there is none.           *)
Send(s) ==
  /\ survey_id[s] < setting.surveys
  /\ survey_id' = [survey_id EXCEPT ![s] = @ + 1]
  /\ send_to_all(s, <<[t |-> "survey", v |-> <<survey_id[s] + 1>>,
                       more |-> TRUE],
                      [t |-> "body", v |-> <<s, survey_id[s] + 1>>,
                       more |-> FALSE]>>)
  /\ receiving_responses' = [receiving_responses EXCEPT ![s] = TRUE]
  /\ expired' = [expired EXCEPT ![s] = setting.timeout = "default"]
  /\ UNCHANGED <<setting, has_prefetched, prefetched, got, aborted, inq, x,
                 asked>>

Expire(s) ==
  /\ setting.timeout = "finite" /\ receiving_responses[s] /\ ~expired[s]
  /\ expired' = [expired EXCEPT ![s] = TRUE]
  /\ UNCHANGED <<setting, receiving_responses, survey_id, has_prefetched,
                 prefetched, got, aborted, inq, wire, x, asked>>

(* Mutant: the survey ID of a response is not compared. *)
ongoing_Any(s, m) == TRUE

(* The test of a response's survey ID. *)
ongoing(s, m) == m[1].v = <<survey_id[s]>>

(* surveyor_t::xrecv of the response m: its body, << >> when dropped. *)
Body(s, m) == IF ongoing(s, m) THEN <<m[2]>> ELSE << >>

(* surveyor_t::xrecv.  A response to another survey is dropped and the     *)
(* call returns EAGAIN; with nothing to read it returns EAGAIN, or         *)
(* ETIMEDOUT after the deadline.                                           *)
Recv(s) ==
  /\ receiving_responses[s]
  /\ IF has_prefetched[s]
     THEN /\ got' = [got EXCEPT ![s] =
                       Append(@, <<prefetched[s], survey_id[s]>>)]
          /\ has_prefetched' = [has_prefetched EXCEPT ![s] = FALSE]
          /\ UNCHANGED inq
     ELSE \E r \in Respondent :
            /\ inq[<<s, r>>] # << >>
            /\ LET b == Body(s, Head(inq[<<s, r>>]))
               IN got' = IF b = << >> THEN got
                         ELSE [got EXCEPT ![s] =
                                 Append(@, <<b[1], survey_id[s]>>)]
            /\ inq' = [inq EXCEPT ![<<s, r>>] = Tail(@)]
            /\ UNCHANGED has_prefetched
  /\ UNCHANGED <<setting, receiving_responses, survey_id, expired,
                 prefetched, aborted, wire, x, asked>>

(* surveyor_t::xhas_in: xrecv into `prefetched'; an error other than       *)
(* EAGAIN fails an assertion.                                              *)
HasIn(s) ==
  /\ setting.spoll /\ receiving_responses[s] /\ ~has_prefetched[s]
  /\ IF \A r \in Respondent : inq[<<s, r>>] = << >>
     THEN /\ aborted' = IF expired[s] THEN aborted \cup {s} ELSE aborted
          /\ UNCHANGED <<inq, has_prefetched, prefetched>>
     ELSE \E r \in Respondent :
            /\ inq[<<s, r>>] # << >>
            /\ LET b == Body(s, Head(inq[<<s, r>>]))
               IN /\ has_prefetched' = [has_prefetched EXCEPT
                                          ![s] = b # << >>]
                  /\ prefetched' = IF b = << >> THEN prefetched
                                   ELSE [prefetched EXCEPT ![s] = b[1]]
            /\ inq' = [inq EXCEPT ![<<s, r>>] = Tail(@)]
            /\ UNCHANGED aborted
  /\ UNCHANGED <<setting, receiving_responses, survey_id, expired, got, wire,
                 x, asked>>
-----------------------------------------------------------------------------
(* The respondent *)

(* xrespondent_t::xsend: the first part must have the size of a peer ID. *)
xrespondent_xsend(y, part) ==
  IF ~y.more_out /\ part.t \notin {"peer", "survey"} THEN y
  ELSE xsend(y, part)

(* respondent_t::xrecv: the labels of the survey go to the reply pipe and  *)
(* the last part to the user.                                              *)
RECURSIVE respondent_xrecv(_, _)
respondent_xrecv(y, order) ==
  The({IF r[2] = << >> THEN r
       ELSE IF r[2][1].more
       THEN respondent_xrecv(xrespondent_xsend(r[1], r[2][1]), order)
       ELSE <<[r[1] EXCEPT !.sending_reply = TRUE], r[2]>> :
         r \in {xrecv(y, order)}})

(* The active pipes: those that can be read, and maybe others. *)
Orders(r) ==
  LET readable == {p \in Attached(x[r]) : x[r].inq[p] # << >>}
  IN UNION {SetToSeqs(readable \cup S) :
              S \in SUBSET (Attached(x[r]) \ readable)}

RespRecv(r) ==
  /\ ~x[r].sending_reply
  /\ \E order \in Orders(r) :
       LET q == respondent_xrecv(x[r], order)
       IN /\ q[2] # << >> \/ q[1] # x[r]
          /\ x' = [x EXCEPT ![r] = q[1]]
          /\ asked' = [asked EXCEPT ![r] = q[2]]
  /\ UNCHANGED <<setting, survvars, inq, wire>>

(* xrespondent_t::xhas_in *)
RespPoll(r) ==
  /\ setting.rpoll /\ ~x[r].sending_reply
  /\ \E order \in Orders(r) : x' = [x EXCEPT ![r] = xhas_in(@, order)]
  /\ UNCHANGED <<setting, survvars, inq, wire, asked>>

(* respondent_t::xsend; the body of a response names its survey. *)
RespSend(r) ==
  /\ x[r].sending_reply
  /\ LET part == [t |-> "body", v |-> asked[r][1].v \o <<r>>, more |-> FALSE]
     IN x' = [x EXCEPT ![r] = [xrespondent_xsend(@, part) EXCEPT
                                 !.sending_reply = FALSE]]
  /\ asked' = [asked EXCEPT ![r] = << >>]
  /\ UNCHANGED <<setting, survvars, inq, wire>>
-----------------------------------------------------------------------------
(* Connections *)

Deliver(s, r) ==
  LET p == <<s, r>> IN
  /\ wire[p] # << >> /\ x[r].link[p] = "up"
  /\ wire' = [wire EXCEPT ![p] = Tail(@)]
  /\ x' = [x EXCEPT ![r].inq[p] = @ \o Head(wire[p])]
  /\ UNCHANGED <<setting, survvars, inq, asked>>

Respond(s, r) ==
  LET p == <<s, r>> IN
  /\ x[r].outq[p] # << >> /\ x[r].link[p] = "up"
  /\ x' = [x EXCEPT ![r].outq[p] = Tail(@)]
  /\ inq' = [inq EXCEPT ![p] = Append(@, Head(x[r].outq[p]))]
  /\ UNCHANGED <<setting, survvars, wire, asked>>

WriteActivated(s, r) ==
  LET p == <<s, r>> IN
  /\ x[r].link[p] = "up" /\ ~x[r].out_active[p] /\ Len(x[r].outq[p]) < HWM
  /\ x' = [x EXCEPT ![r] = xwrite_activated(@, p)]
  /\ UNCHANGED <<setting, survvars, inq, wire, asked>>

(* The connection is lost for good: the respondent's pipe cannot be read   *)
(* any more, whatever it holds (pipe_t::process_pipe_term with             *)
(* delay_on_disconnect off), the surveyor's pipes are emptied by its       *)
(* session.                                                                *)
Lost(s, r) ==
  LET p == <<s, r>> IN
  /\ setting.lossy /\ x[r].link[p] = "up"
  /\ x' = [x EXCEPT ![r].link[p] = "ended", ![r].inq[p] = << >>]
  /\ wire' = [wire EXCEPT ![p] = << >>]
  /\ UNCHANGED <<setting, survvars, inq, asked>>

Terminated(s, r) ==
  /\ x[r].link[<<s, r>>] = "ended"
  /\ x' = [x EXCEPT ![r] = xterminated(@, <<s, r>>)]
  /\ UNCHANGED <<setting, survvars, inq, wire, asked>>

Next ==
  \/ \E s \in setting.surveyors :
       \/ Send(s) \/ Expire(s) \/ Recv(s) \/ HasIn(s)
       \/ \E r \in setting.respondents :
            \/ Deliver(s, r) \/ Respond(s, r) \/ WriteActivated(s, r)
            \/ Lost(s, r) \/ Terminated(s, r)
  \/ \E r \in setting.respondents : RespRecv(r) \/ RespPoll(r) \/ RespSend(r)

Spec == Init /\ [][Next]_vars
-----------------------------------------------------------------------------
(* Properties *)

(* "All the responses received later on will be silently discarded": a     *)
(* response that the user receives belongs to the survey that is under way *)
(* at that moment, and no respondent answers a survey twice.               *)
ResponseMatches == \A s \in Surveyor :
  /\ \A k \in 1 .. Len(got[s]) :
       got[s][k][1].v[1] = s /\ got[s][k][1].v[2] = got[s][k][2]
  /\ \A j, k \in 1 .. Len(got[s]) :
       got[s][j][1].v = got[s][k][1].v => j = k

(* Responses are routed back to the surveyor that asked, labelled with the *)
(* survey they answer, also when replies are dropped or another surveyor's *)
(* connection ends between the survey and the response, and no assertion   *)
(* of xrespondent_t or fq_t fails.                                         *)
RoutedBack == \A r \in Respondent : \A p \in Pipe :
  /\ ~x[r].failed
  /\ \A k \in 1 .. Len(x[r].outq[p]) :
       LET m == x[r].outq[p][k] IN
         /\ Len(m) = 2 /\ m[2].v[1] = p[1] /\ m[1].v = <<m[2].v[2]>>

(* "errno_assert (rc == 0)" of surveyor_t::xhas_in: polling a surveyor     *)
(* never ends the process.                                                 *)
PollSafe == aborted = {}
=============================================================================
