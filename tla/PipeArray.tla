------------------------------ MODULE PipeArray ------------------------------
(***************************************************************************)
(* array_t (src/array.hpp), the array in which fq_t, lb_t and dist_t keep  *)
(* their pipes.  An array is a sequence without duplicates; indices count  *)
(* from 0 as in the code.  The array_index each item stores is its         *)
(* position: push_back, erase and swap all keep it so.                     *)
(***************************************************************************)
EXTENDS Integers, Sequences

(* operator [] *)
At(s, i) == s[i + 1]

Has(s, x) == \E i \in DOMAIN s : s[i] = x

index(s, x) == (CHOOSE i \in DOMAIN s : s[i] = x) - 1

push_back(s, x) == Append(s, x)

swap(s, i, j) == [s EXCEPT ![i + 1] = s[j + 1], ![j + 1] = s[i + 1]]

(* erase: the last item takes the place of the erased one. *)
erase(s, i) == SubSeq([s EXCEPT ![i + 1] = s[Len(s)]], 1, Len(s) - 1)

(* The items at the indices below n *)
First(s, n) == {At(s, i) : i \in 0 .. n - 1}
=============================================================================
