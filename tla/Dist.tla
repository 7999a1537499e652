-------------------------------- MODULE Dist --------------------------------
(***************************************************************************)
(* dist_t (src/dist.cpp), which sends every message to all matching pipes, *)
(* for XPUB, XSUB and XSURVEYOR sockets.  The array of pipes has three     *)
(* nested regions: matching, active, eligible.  Of a pipe_t the module     *)
(* keeps what a writer can see, as module Lb does.  XPUB chooses the       *)
(* matching pipes at the first part of a message (xpub_t::xsend); the      *)
(* others send every part to all active pipes.  distribute is one action   *)
(* per pipe; the references it counts are in module Msg.                   *)
(***************************************************************************)
EXTENDS PipeArray, FiniteSets

CONSTANTS Pipe,
          NULL         \* an empty slot, as terminated leaves it for a moment

VARIABLES
  matches,       \* whether messages are matched (XPUB) or sent to all
  pipes, matching, active, eligible, more,   \* dist_t
  link,          \* "none", "active", or "ended": no longer in state active
  out_active,    \* pipe_t::out_active
  full,          \* the high-water mark is reached
  pc, part, i,   \* the call in progress, its flag more and loop counter
  owners,        \* history: pipes that took this part
  begun          \* history: pipes that took the first part of the message

distvars == <<pipes, matching, active, eligible, more>>
callvars == <<pc, part, i, owners>>
vars == <<matches, distvars, link, out_active, full, callvars, begun>>

TypeOK ==
  /\ matches \in BOOLEAN
  /\ pipes \in Seq(Pipe)
  /\ matching \in 0 .. active /\ active \in 0 .. eligible
  /\ eligible \in 0 .. Len(pipes)
  /\ more \in BOOLEAN /\ part \in BOOLEAN
  /\ link \in [Pipe -> {"none", "active", "ended"}]
  /\ out_active \in [Pipe -> BOOLEAN] /\ full \in [Pipe -> BOOLEAN]
  /\ pc \in {"idle", "match", "distribute"}
  /\ i \in Nat
  /\ owners \subseteq Pipe /\ begun \subseteq Pipe

Init ==
  /\ matches \in BOOLEAN
  /\ pipes = << >> /\ matching = 0 /\ active = 0 /\ eligible = 0
  /\ more = FALSE
  /\ link = [p \in Pipe |-> "none"]
  /\ out_active = [p \in Pipe |-> TRUE] /\ full = [p \in Pipe |-> FALSE]
  /\ pc = "idle" /\ part = FALSE /\ i = 0
  /\ owners = {} /\ begun = {}
-----------------------------------------------------------------------------
(* Events of the pipes *)

(* Mutant: a pipe that comes in the middle of a message is active. *)
attach_Active(p) ==
  /\ pc = "idle" /\ link[p] = "none"
  /\ pipes' = swap(push_back(pipes, p), active, Len(pipes))
  /\ active' = active + 1 /\ eligible' = eligible + 1
  /\ link' = [link EXCEPT ![p] = "active"]
  /\ out_active' = [out_active EXCEPT ![p] = TRUE]
  /\ full' = [full EXCEPT ![p] = FALSE]
  /\ UNCHANGED <<matches, matching, more, callvars, begun>>

(* attach: in the middle of a message the pipe is only eligible. *)
attach(p) ==
  /\ pc = "idle" /\ link[p] = "none"
  /\ pipes' = swap(push_back(pipes, p), IF more THEN eligible ELSE active,
                   Len(pipes))
  /\ active' = IF more THEN active ELSE active + 1
  /\ eligible' = eligible + 1
  /\ link' = [link EXCEPT ![p] = "active"]
  /\ out_active' = [out_active EXCEPT ![p] = TRUE]
  /\ full' = [full EXCEPT ![p] = FALSE]
  /\ UNCHANGED <<matches, matching, more, callvars, begun>>

(* The pipe leaves state active: its peer asked for termination. *)
PeerEnds(p) ==
  /\ pc = "idle" /\ link[p] = "active"
  /\ link' = [link EXCEPT ![p] = "ended"]
  /\ UNCHANGED <<matches, distvars, out_active, full, callvars, begun>>

(* The hole at index j of s moves to the end of the region of size n. *)
MoveHole(s, j, n) ==
  IF j < n THEN [s EXCEPT ![j + 1] = s[n], ![n] = NULL] ELSE s

HoleAt(j, n) == IF j < n THEN n - 1 ELSE j

Shrunk(j, n) == IF j < n THEN n - 1 ELSE n

(* Mutant: the last pipe takes the place of the pipe, as in lb_t. *)
terminated_Erase(p) ==
  /\ pc = "idle" /\ link[p] = "ended"
  /\ LET j == index(pipes, p) IN
       /\ matching' = Shrunk(j, matching)
       /\ active' = Shrunk(j, active)
       /\ eligible' = Shrunk(j, eligible)
       /\ pipes' = erase(pipes, j)
  /\ link' = [link EXCEPT ![p] = "none"]
  /\ begun' = begun \ {p}
  /\ UNCHANGED <<matches, more, out_active, full, callvars>>

(* terminated: the hole the pipe leaves moves to the end of each region    *)
(* that contains it, and last of all to the end of the array.              *)
terminated(p) ==
  /\ pc = "idle" /\ link[p] = "ended"
  /\ LET j  == index(pipes, p)
         jm == HoleAt(j, matching)
         ja == HoleAt(jm, active)
         je == HoleAt(ja, eligible)
     IN  /\ pipes' = erase(MoveHole(MoveHole(MoveHole(pipes, j, matching),
                                             jm, active), ja, eligible), je)
         /\ matching' = Shrunk(j, matching)
         /\ active' = Shrunk(jm, active)
         /\ eligible' = Shrunk(ja, eligible)
  /\ link' = [link EXCEPT ![p] = "none"]
  /\ begun' = begun \ {p}
  /\ UNCHANGED <<matches, more, out_active, full, callvars>>

(* process_activate_write of a full pipe; activated, if the pipe was told  *)
(* to be full.                                                             *)
activated(p) ==
  /\ pc = "idle" /\ link[p] = "active" /\ full[p]
  /\ full' = [full EXCEPT ![p] = FALSE]
  /\ out_active' = [out_active EXCEPT ![p] = TRUE]
  /\ IF out_active[p] THEN UNCHANGED <<pipes, active, eligible>>
     ELSE LET s == swap(pipes, index(pipes, p), eligible) IN
            /\ pipes' = IF more THEN s ELSE swap(s, eligible, active)
            /\ active' = IF more THEN active ELSE active + 1
            /\ eligible' = eligible + 1
  /\ UNCHANGED <<matches, matching, more, link, callvars, begun>>
-----------------------------------------------------------------------------
(* Sending *)

(* xpub_t::xsend of the first part: the filters call match. *)
StartMatch ==
  /\ pc = "idle" /\ matches /\ ~more
  /\ pc' = "match"
  /\ UNCHANGED <<matches, distvars, link, out_active, full, part, i,
                 owners, begun>>

(* match: the pipe joins the matching ones unless it is not eligible. *)
match(p) ==
  /\ pc = "match"
  /\ Has(pipes, p)
  /\ index(pipes, p) >= matching /\ index(pipes, p) < eligible
  /\ pipes' = swap(pipes, index(pipes, p), matching)
  /\ matching' = matching + 1
  /\ UNCHANGED <<matches, active, eligible, more, link, out_active, full,
                 callvars, begun>>

(* send_to_matching; send_to_all makes all active pipes matching first.    *)
Send(more_) ==
  /\ pc = (IF matches /\ ~more THEN "match" ELSE "idle")
  /\ matching' = IF matches THEN matching ELSE active
  /\ pc' = "distribute" /\ part' = more_
  /\ i' = 0 /\ owners' = {}
  /\ begun' = IF more THEN begun ELSE First(pipes, matching')
  /\ UNCHANGED <<matches, pipes, active, eligible, more, link, out_active,
                 full>>

Writable(p) == link[p] = "active" /\ out_active[p] /\ ~full[p]

(* distribute: pipe i takes the part; the last part may fill the pipe. *)
WriteOk ==
  /\ pc = "distribute" /\ i < matching /\ Writable(At(pipes, i))
  /\ owners' = owners \cup {At(pipes, i)}
  /\ \E b \in {FALSE, ~part} : full' = [full EXCEPT ![At(pipes, i)] = b]
  /\ i' = i + 1
  /\ UNCHANGED <<matches, distvars, link, out_active, pc, part, begun>>

(* distribute: pipe i refuses the part and leaves all three regions. *)
WriteFails ==
  /\ pc = "distribute" /\ i < matching /\ ~Writable(At(pipes, i))
  /\ LET p == At(pipes, i)
         s == swap(pipes, i, matching - 1)
         t == swap(s, matching - 1, active - 1)
     IN  /\ out_active' = [out_active EXCEPT ![p] = @ /\ link[p] # "active"]
         /\ pipes' = swap(t, active - 1, eligible - 1)
         /\ begun' = begun \ {p}
  /\ matching' = matching - 1 /\ active' = active - 1 /\ eligible' = eligible - 1
  /\ UNCHANGED <<matches, more, link, full, pc, part, i, owners>>

(* Mutant: the eligible pipes are not activated after the message. *)
SendDone_NoActivate ==
  /\ pc = "distribute" /\ i = matching
  /\ more' = part
  /\ matching' = IF matches /\ ~part THEN 0 ELSE matching
  /\ pc' = "idle"
  /\ UNCHANGED <<matches, pipes, active, eligible, link, out_active, full,
                 part, i, owners, begun>>

(* The end of send_to_matching: after the last part the eligible pipes     *)
(* become active and XPUB unmatches all.                                   *)
SendDone ==
  /\ pc = "distribute" /\ i = matching
  /\ active' = IF part THEN active ELSE eligible
  /\ more' = part
  /\ matching' = IF matches /\ ~part THEN 0 ELSE matching
  /\ pc' = "idle"
  /\ UNCHANGED <<matches, pipes, eligible, link, out_active, full, part, i,
                 owners, begun>>

Next ==
  \/ \E p \in Pipe : \/ attach(p) \/ PeerEnds(p) \/ terminated(p)
                     \/ activated(p) \/ match(p)
  \/ StartMatch \/ \E more_ \in BOOLEAN : Send(more_)
  \/ WriteOk \/ WriteFails \/ SendDone

Spec == Init /\ [][Next]_vars
-----------------------------------------------------------------------------
(* Properties *)

(* No pipe is forgotten: one that could be written to, and so will get no  *)
(* write_activated, is eligible; and between messages all eligible pipes   *)
(* are active.  And the state is well typed: the three regions are nested. *)
EligibleKept ==
  /\ TypeOK
  /\ pc = "idle" =>
       /\ \A p \in Pipe : (link[p] = "active" /\ out_active[p])
                             => p \in First(pipes, eligible)
       /\ ~more => active = eligible

(* No pipe gets a message "with initial parts missing", although pipes     *)
(* come, go, fill up and are activated in the middle of the message: a     *)
(* pipe that takes a part took the first part.                             *)
WholeMessages == pc = "distribute" => owners \subseteq begun

(* And none gets a message with its last parts missing: in the middle of a *)
(* message, a pipe that took the first part and did not end is matching.   *)
NoTailLost == pc = "idle" /\ more =>
  \A p \in begun : link[p] = "active" => p \in First(pipes, matching)
=============================================================================
