------------------------------ MODULE MCSession -----------------------------
(* Instances of Session for TLC. *)
EXTENDS Session

With(c, i, d, l, p, q) ==
  [connect |-> c, identity |-> i, drop |-> d, linger |-> l, parts |-> p,
   peer_parts |-> q]

(* Connecting and accepting sessions, with and without an identity, of     *)
(* sockets that linger for some time, for ever or not at all.              *)
MCSetting ==
  {With(TRUE, FALSE, FALSE, 0, 1, 3), With(TRUE, FALSE, FALSE, -1, 2, 2),
   With(TRUE, TRUE, TRUE, 0, 1, 1), With(FALSE, FALSE, FALSE, 1, 1, 1),
   With(FALSE, FALSE, FALSE, -1, 2, 2), With(FALSE, TRUE, TRUE, 0, 1, 1)}

(* Messages of two parts and an identity; messages of three parts. *)
HalfRead == {With(TRUE, TRUE, FALSE, -1, 2, 1), With(TRUE, FALSE, FALSE, -1, 3, 1)}

(* A connecting session with a linger timer. *)
Lingering == {With(TRUE, FALSE, FALSE, 1, 1, 1)}

(* Messages of two parts, no linger. *)
NoLinger == {With(TRUE, FALSE, FALSE, 0, 2, 1)}
=============================================================================
