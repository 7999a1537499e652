----------------------------- MODULE MCPatterns -----------------------------
(***************************************************************************)
(* The patterns in which answers find their way back: request-reply and    *)
(* survey, checked side by side: `which' says which of the two a behaviour *)
(* is about, and the variables of the other keep one value.                *)
(***************************************************************************)
EXTENDS Integers

CONSTANTS Checked,                              \* those of the two to check
          None, HWM,
          Client, MaxConns, ReqSetting,         \* ReqRep
          Surveyor, Respondent, SurveySetting   \* Survey

VARIABLES
  which,
  setting, x, got,                                   \* ReqRep and Survey
  receiving_reply, message_begins, request_id, prefetched_msg, state, conn,
  gen, requests, half, replies, sent, todo, hold, tosend, dups,     \* ReqRep
  receiving_responses, survey_id, expired, has_prefetched, prefetched, inq,
  wire, asked, aborted                                              \* Survey

both == <<setting, x, got>>
reqvars == <<receiving_reply, message_begins, request_id, prefetched_msg,
             state, conn, gen, requests, half, replies, sent, todo, hold,
             tosend, dups>>
survvars == <<receiving_responses, survey_id, expired, has_prefetched,
              prefetched, inq, wire, asked, aborted>>
vars == <<which, both, reqvars, survvars>>

Only(S) == {CHOOSE e \in S : TRUE}

Asking(s, v, named, cs, p, d, n, r, l) ==
  [server |-> s, version |-> v, clients |-> cs,
   name |-> [c \in Client |-> IF named THEN <<c, 0>> ELSE << >>],
   parts |-> p, dups |-> d, conns |-> n, reqs |-> r, lossy |-> l]

(* One client that reconnects; two clients; two-part messages; and         *)
(* connections that are not lost.                                          *)
Asked ==
  {Asking("XREP", 3, TRUE, Only(Client), 1, 1, 2, 2, TRUE),
   Asking("XREP", 1, FALSE, Only(Client), 2, 0, 2, 2, TRUE),
   Asking("XREP", 3, FALSE, Client, 1, 1, 1, 1, TRUE),
   Asking("REP", 1, TRUE, Only(Client), 2, 0, 2, 2, TRUE),
   Asking("REP", 1, FALSE, Client, 1, 0, 1, 2, FALSE),
   Asking("REP", 3, FALSE, Client, 1, 0, 1, 1, FALSE)}

(* Two requests of a client, with pattern version 3, over a connection     *)
(* that is not lost.                                                       *)
AskedTwice == {Asking("REP", 3, FALSE, Only(Client), 1, 0, 2, 2, FALSE)}

Surveying(t, sp, rp, l, ss, rs, n) ==
  [timeout |-> t, spoll |-> sp, rpoll |-> rp, lossy |-> l, surveyors |-> ss,
   respondents |-> rs, surveys |-> n, peer |-> [s \in Surveyor |-> <<s, 0>>]]

(* Two surveyors of one respondent that polls, or that may be lost; one    *)
(* surveyor of two respondents; polling.                                   *)
Surveyed ==
  {Surveying("finite", FALSE, FALSE, TRUE, Surveyor, Only(Respondent), 2),
   Surveying("finite", FALSE, TRUE, FALSE, Surveyor, Only(Respondent), 2),
   Surveying("zero", FALSE, TRUE, FALSE, Only(Surveyor), Respondent, 2),
   Surveying("zero", TRUE, FALSE, FALSE, Only(Surveyor), Respondent, 1)}

(* A client's identity is also the ID of a request. *)
SameIdAsked ==
  {[Asking("XREP", 3, FALSE, Client, 1, 1, 1, 1, FALSE) EXCEPT
      !.name = [c \in Client |-> IF c \in Only(Client) THEN <<0>> ELSE << >>]]}

(* A surveyor that polls and starts a second survey; one that polls with   *)
(* the default deadline; a respondent that polls and loses connections; a  *)
(* surveyor whose ID at the respondent is also the ID of a survey.         *)
Polled ==
  {Surveying("zero", TRUE, FALSE, FALSE, Only(Surveyor), Only(Respondent), 2),
   Surveying("default", TRUE, FALSE, FALSE, Only(Surveyor), Only(Respondent), 1),
   Surveying("zero", FALSE, TRUE, TRUE, Surveyor, Only(Respondent), 1),
   [Surveying("zero", FALSE, FALSE, FALSE, Surveyor, Only(Respondent), 2) EXCEPT
      !.peer = [s \in Surveyor |-> IF s \in Only(Surveyor) THEN <<2>> ELSE <<9>>]]}

R == INSTANCE ReqRep WITH Setting <- ReqSetting
S == INSTANCE Survey WITH Setting <- SurveySetting

NoReqRep ==
  /\ receiving_reply = 0 /\ message_begins = 0 /\ request_id = 0
  /\ prefetched_msg = 0 /\ state = 0 /\ conn = 0 /\ gen = 0
  /\ requests = 0 /\ half = 0 /\ replies = 0 /\ sent = 0 /\ todo = 0
  /\ hold = 0 /\ tosend = 0 /\ dups = 0

NoSurvey ==
  /\ receiving_responses = 0 /\ survey_id = 0 /\ expired = 0
  /\ has_prefetched = 0 /\ prefetched = 0 /\ inq = 0 /\ wire = 0
  /\ asked = 0 /\ aborted = 0

Init ==
  /\ which \in Checked
  /\ \/ which = "reqrep" /\ R!Init /\ NoSurvey
     \/ which = "survey" /\ S!Init /\ NoReqRep

OfReqRep(A) == which = "reqrep" /\ A /\ UNCHANGED <<which, survvars>>
OfSurvey(A) == which = "survey" /\ A /\ UNCHANGED <<which, reqvars>>

Next == OfReqRep(R!Next) \/ OfSurvey(S!Next)

(* With the fairness of ReqRep. *)
Spec == Init /\ [][Next]_vars /\ WF_vars(OfReqRep(R!Progress))
-----------------------------------------------------------------------------
(* What a user receives as an answer is the answer to what it asked last:  *)
(* the reply to the last request (ReqRep), a response to the survey under  *)
(* way, and no response twice (Survey).                                    *)
AnswerMatches == /\ which = "reqrep" => R!ReplyMatches
                 /\ which = "survey" => S!ResponseMatches

(* Answers are routed to the one who asked, whole, whatever connections    *)
(* are lost or pipes full, the identities of XREP lead to exactly the      *)
(* pipes that are attached, and no assertion of xrep_t, xrespondent_t and  *)
(* fq_t fails (ReqRep, Survey).  The identities of peers are none of the   *)
(* IDs of requests and surveys, and a respondent that polls keeps its      *)
(* connections: Survey.cfg has the other cases.                            *)
RoutedBack == /\ which = "reqrep" => R!RoutedToAsker /\ R!OutpipesExact
              /\ which = "survey" => S!RoutedBack

(* Polling a surveyor never fails an assertion (Survey). *)
PollSafe == which = "survey" => S!PollSafe

(* While no connection is lost every request is answered (ReqRep). *)
Answered ==
  \A c \in Client :
    LET Open == which = "reqrep" /\ receiving_reply[c]
    IN  Open /\ ~setting.lossy ~> ~Open
=============================================================================
