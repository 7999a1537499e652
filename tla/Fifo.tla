-------------------------------- MODULE Fifo --------------------------------
(***************************************************************************)
(* What a one-way message channel promises: whole messages are published   *)
(* in order, and the reader takes the published items one by one, in that  *)
(* order, none lost, none twice.  ypipe_t (ypipe.hpp) implements it.       *)
(***************************************************************************)
EXTENDS Integers, Sequences

VARIABLES sent,   \* every item published so far, with its "more" flag
          taken   \* how many of them the reader has taken

vars == <<sent, taken>>

Init == sent = << >> /\ taken = 0

(* What becomes visible at once ends at the end of a message. *)
Publish == /\ Len(sent') > Len(sent)
           /\ SubSeq(sent', 1, Len(sent)) = sent
           /\ ~sent'[Len(sent')].more
           /\ UNCHANGED taken

Take == taken < Len(sent) /\ taken' = taken + 1 /\ UNCHANGED sent

Next == Publish \/ Take

Spec == Init /\ [][Next]_vars
=============================================================================
