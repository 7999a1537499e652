----------------------------- MODULE DistProofs -----------------------------
(***************************************************************************)
(* Proofs about module Dist, for any number of pipes.  What dist_t does to *)
(* its array is swap, push_back and the moving hole of terminated; the     *)
(* first half says what these do to the set of pipes in a region.  The     *)
(* invariant then says that the regions are what they are meant to be.     *)
(***************************************************************************)
EXTENDS Dist, TLAPS

(* No item is in the array twice. *)
OneToOne(s) == \A a, b \in 1 .. Len(s) : s[a] = s[b] => a = b
-----------------------------------------------------------------------------
(* Arrays *)

(* The region of size n holds the items at the first n positions. *)
LEMMA FirstIs ==
  ASSUME NEW s, NEW n \in Nat, NEW x
  PROVE  x \in First(s, n) <=> \E k \in 1 .. n : s[k] = x
<1>1. ASSUME x \in First(s, n) PROVE \E k \in 1 .. n : s[k] = x
  <2>1. PICK k \in 0 .. n - 1 : x = s[k + 1]
    BY <1>1 DEF First, At
  <2>2. k + 1 \in 1 .. n
    OBVIOUS
  <2> QED BY <2>1, <2>2
<1>2. ASSUME NEW k \in 1 .. n, s[k] = x PROVE x \in First(s, n)
  <2>1. k - 1 \in 0 .. n - 1 /\ (k - 1) + 1 = k
    OBVIOUS
  <2> QED BY <1>2, <2>1 DEF First, At
<1> QED BY <1>1, <1>2

(* The stored array_index leads to the item. *)
LEMMA IndexIs ==
  ASSUME NEW S, NEW s \in Seq(S), NEW x, x \in First(s, Len(s))
  PROVE  Has(s, x) /\ index(s, x) \in 0 .. Len(s) - 1 /\ s[index(s, x) + 1] = x
<1>1. Len(s) \in Nat /\ DOMAIN s = 1 .. Len(s)
  OBVIOUS
<1>2. \E k \in DOMAIN s : s[k] = x
  BY <1>1, FirstIs
<1> DEFINE c == CHOOSE k \in DOMAIN s : s[k] = x
<1>3. c \in 1 .. Len(s) /\ s[c] = x
  BY <1>1, <1>2
<1>4. index(s, x) = c - 1
  BY DEF index
<1> HIDE DEF c
<1> QED BY <1>1, <1>2, <1>3, <1>4 DEF Has

(* array_t::swap exchanges two items. *)
LEMMA SwapIs ==
  ASSUME NEW S, NEW s \in Seq(S), NEW a \in 0 .. Len(s) - 1, NEW b \in 0 .. Len(s) - 1
  PROVE  /\ swap(s, a, b) \in Seq(S) /\ Len(swap(s, a, b)) = Len(s)
         /\ \A k \in 1 .. Len(s) : swap(s, a, b)[k] = IF k = b + 1 THEN s[a + 1]
                                                     ELSE IF k = a + 1 THEN s[b + 1]
                                                     ELSE s[k]
<1>1. a + 1 \in 1 .. Len(s) /\ b + 1 \in 1 .. Len(s)
  OBVIOUS
<1> QED BY <1>1 DEF swap

(* The item at a goes to b. *)
LEMMA SwapMoves ==
  ASSUME NEW S, NEW s \in Seq(S), NEW a \in 0 .. Len(s) - 1, NEW b \in 0 .. Len(s) - 1
  PROVE  /\ swap(s, a, b) \in Seq(S) /\ Len(swap(s, a, b)) = Len(s)
         /\ swap(s, a, b)[b + 1] = s[a + 1]
<1>1. b + 1 \in 1 .. Len(s)
  OBVIOUS
<1> QED BY <1>1, SwapIs

(* A swap inside a region or outside it leaves the region's items alone. *)
LEMMA SwapKeeps ==
  ASSUME NEW S, NEW s \in Seq(S), NEW a \in 0 .. Len(s) - 1, NEW b \in 0 .. Len(s) - 1
  PROVE  /\ OneToOne(s) => OneToOne(swap(s, a, b))
         /\ \A n \in 0 .. Len(s) : (a < n <=> b < n) => First(swap(s, a, b), n) = First(s, n)
<1> DEFINE t == swap(s, a, b)
<1>1. /\ t \in Seq(S) /\ Len(t) = Len(s) /\ Len(s) \in Nat
      /\ \A k \in 1 .. Len(s) : t[k] = IF k = b + 1 THEN s[a + 1]
                                       ELSE IF k = a + 1 THEN s[b + 1] ELSE s[k]
  BY SwapIs
<1>2. a + 1 \in 1 .. Len(s) /\ b + 1 \in 1 .. Len(s)
  OBVIOUS
<1> HIDE DEF t
<1>3. OneToOne(s) => OneToOne(t)
  BY <1>1, <1>2 DEF OneToOne
<1>4. ASSUME NEW n \in 0 .. Len(s), a < n <=> b < n
      PROVE  First(t, n) = First(s, n)
  <2>1. n \in Nat /\ \A k \in 1 .. n : k \in 1 .. Len(s)
    BY <1>1
  <2>2. ASSUME NEW x, NEW k \in 1 .. n, t[k] = x PROVE \E l \in 1 .. n : s[l] = x
    <3>1. CASE k = b + 1
      <4>1. a + 1 \in 1 .. n
        BY <1>4, <2>1, <3>1
      <4> QED BY <1>1, <2>1, <2>2, <3>1, <4>1
    <3>2. CASE k # b + 1 /\ k = a + 1
      <4>1. b + 1 \in 1 .. n
        BY <1>4, <2>1, <3>2
      <4> QED BY <1>1, <2>1, <2>2, <3>2, <4>1
    <3>3. CASE k # b + 1 /\ k # a + 1
      BY <1>1, <2>1, <2>2, <3>3
    <3> QED BY <3>1, <3>2, <3>3
  <2>3. ASSUME NEW x, NEW k \in 1 .. n, s[k] = x PROVE \E l \in 1 .. n : t[l] = x
    <3>1. CASE k = b + 1
      <4>1. a + 1 \in 1 .. n /\ t[a + 1] = s[b + 1]
        BY <1>1, <1>2, <1>4, <2>1, <3>1
      <4> QED BY <2>3, <3>1, <4>1
    <3>2. CASE k = a + 1
      <4>1. b + 1 \in 1 .. n /\ t[b + 1] = s[a + 1]
        BY <1>1, <1>2, <1>4, <2>1, <3>2
      <4> QED BY <2>3, <3>2, <4>1
    <3>3. CASE k # b + 1 /\ k # a + 1
      BY <1>1, <2>1, <2>3, <3>3
    <3> QED BY <3>1, <3>2, <3>3
  <2>4. ASSUME NEW x PROVE x \in First(t, n) <=> x \in First(s, n)
    <3>1. x \in First(t, n) <=> \E k \in 1 .. n : t[k] = x
      BY <2>1, FirstIs
    <3>2. x \in First(s, n) <=> \E k \in 1 .. n : s[k] = x
      BY <2>1, FirstIs
    <3> QED BY ONLY <2>2, <2>3, <3>1, <3>2, Zenon
  <2> QED BY <2>4, Zenon
<1> QED BY <1>3, <1>4 DEF t

(* A swap with the first position behind a region takes an item into it. *)
LEMMA SwapIn ==
  ASSUME NEW S, NEW s \in Seq(S), NEW n \in 0 .. Len(s) - 1, NEW a \in n .. Len(s) - 1
  PROVE  /\ First(swap(s, a, n), n + 1) = First(s, n) \cup {s[a + 1]}
         /\ First(swap(s, n, a), n + 1) = First(s, n) \cup {s[a + 1]}
<1>1. a \in 0 .. Len(s) - 1 /\ a + 1 \in 1 .. Len(s) /\ n + 1 \in 1 .. Len(s) /\ n \in Nat
  OBVIOUS
<1>2. ASSUME NEW t, \A k \in 1 .. n : t[k] = s[k], t[n + 1] = s[a + 1]
      PROVE  First(t, n + 1) = First(s, n) \cup {s[a + 1]}
  <2>1. ASSUME NEW x PROVE x \in First(t, n + 1) <=> x \in First(s, n) \/ x = s[a + 1]
    <3>1. x \in First(t, n + 1) <=> \E k \in 1 .. n + 1 : t[k] = x
      BY <1>1, FirstIs
    <3>2. x \in First(s, n) <=> \E k \in 1 .. n : s[k] = x
      BY <1>1, FirstIs
    <3>3. \A k \in 1 .. n + 1 : k \in 1 .. n \/ k = n + 1
      BY <1>1
    <3>4. n + 1 \in 1 .. n + 1 /\ \A k \in 1 .. n : k \in 1 .. n + 1
      BY <1>1
    <3> QED BY <1>2, <3>1, <3>2, <3>3, <3>4
  <2> QED BY <2>1
<1>3. \A k \in 1 .. n : k \in 1 .. Len(s) /\ k # a + 1 /\ k # n + 1
  BY <1>1
<1>4. (\A k \in 1 .. n : swap(s, a, n)[k] = s[k]) /\ swap(s, a, n)[n + 1] = s[a + 1]
  BY <1>1, <1>3, SwapIs
<1>5. (\A k \in 1 .. n : swap(s, n, a)[k] = s[k]) /\ swap(s, n, a)[n + 1] = s[a + 1]
  BY <1>1, <1>3, SwapIs
<1> QED BY <1>2, <1>4, <1>5

(* A swap with the last position of a region, which then shrinks, takes an *)
(* item out of it.                                                         *)
LEMMA SwapOut ==
  ASSUME NEW S, NEW s \in Seq(S), OneToOne(s), NEW n \in 1 .. Len(s), NEW a \in 0 .. n - 1
  PROVE  First(swap(s, a, n - 1), n - 1) = First(s, n) \ {s[a + 1]}
<1> DEFINE t == swap(s, a, n - 1)
<1>1. /\ a \in 0 .. Len(s) - 1 /\ n - 1 \in 0 .. Len(s) - 1 /\ n \in Nat /\ n - 1 \in Nat
      /\ (n - 1) + 1 = n /\ a + 1 \in 1 .. n /\ a + 1 \in 1 .. Len(s)
      /\ \A k \in 1 .. n : k \in 1 .. Len(s)
  OBVIOUS
<1>2. \A k \in 1 .. Len(s) : t[k] = IF k = n THEN s[a + 1] ELSE IF k = a + 1 THEN s[n] ELSE s[k]
  BY <1>1, SwapIs
<1> HIDE DEF t
<1>3. ASSUME NEW k \in 1 .. n - 1
      PROVE  \E l \in 1 .. n : l # a + 1 /\ s[l] = t[k]
  <2>1. k \in 1 .. n /\ n \in 1 .. n /\ k # n
    BY <1>1
  <2> QED BY <1>1, <1>2, <2>1, Zenon
<1>4. ASSUME NEW l \in 1 .. n, l # a + 1
      PROVE  \E k \in 1 .. n - 1 : t[k] = s[l]
  <2>1. CASE l = n
    <3>1. a + 1 \in 1 .. n - 1 /\ a + 1 # n
      BY <1>1, <1>4, <2>1
    <3> QED BY <1>1, <1>2, <2>1, <3>1
  <2>2. CASE l # n
    <3>1. l \in 1 .. n - 1
      BY <1>1, <2>2
    <3> QED BY <1>1, <1>2, <1>4, <2>2, <3>1
  <2> QED BY <2>1, <2>2
<1>5. \A l \in 1 .. n : s[l] = s[a + 1] => l = a + 1
  BY <1>1 DEF OneToOne
<1>6. ASSUME NEW x PROVE x \in First(t, n - 1) <=> x \in First(s, n) /\ x # s[a + 1]
  <2>1. x \in First(t, n - 1) <=> \E k \in 1 .. n - 1 : t[k] = x
    BY <1>1, FirstIs
  <2>2. x \in First(s, n) <=> \E k \in 1 .. n : s[k] = x
    BY <1>1, FirstIs
  <2> QED BY <1>3, <1>4, <1>5, <2>1, <2>2, Zenon
<1> QED BY <1>6 DEF t

(* push_back leaves the regions alone. *)
LEMMA PushIs ==
  ASSUME NEW S, NEW s \in Seq(S), NEW x \in S
  PROVE  /\ push_back(s, x) \in Seq(S) /\ Len(push_back(s, x)) = Len(s) + 1
         /\ push_back(s, x)[Len(s) + 1] = x
         /\ \A k \in 1 .. Len(s) : push_back(s, x)[k] = s[k]
         /\ \A n \in 0 .. Len(s) : First(push_back(s, x), n) = First(s, n)
         /\ OneToOne(s) /\ x \notin First(s, Len(s)) => OneToOne(push_back(s, x))
<1> DEFINE t == push_back(s, x)
<1>1. /\ t \in Seq(S) /\ Len(t) = Len(s) + 1 /\ t[Len(s) + 1] = x /\ Len(s) \in Nat
      /\ \A k \in 1 .. Len(s) : t[k] = s[k]
  BY DEF push_back
<1> HIDE DEF t
<1>2. ASSUME NEW n \in 0 .. Len(s) PROVE First(t, n) = First(s, n)
  <2>1. n \in Nat /\ \A k \in 1 .. n : k \in 1 .. Len(s)
    BY <1>1
  <2>2. ASSUME NEW y PROVE y \in First(t, n) <=> y \in First(s, n)
    <3>1. y \in First(t, n) <=> \E k \in 1 .. n : t[k] = y
      BY <2>1, FirstIs
    <3>2. y \in First(s, n) <=> \E k \in 1 .. n : s[k] = y
      BY <2>1, FirstIs
    <3> QED BY <1>1, <2>1, <3>1, <3>2
  <2> QED BY <2>2, Zenon
<1>3. ASSUME OneToOne(s), x \notin First(s, Len(s)) PROVE OneToOne(t)
  <2>1. \A k \in 1 .. Len(s) : s[k] # x
    BY <1>1, <1>3, FirstIs
  <2>2. \A k \in 1 .. Len(t) : k \in 1 .. Len(s) \/ k = Len(s) + 1
    BY <1>1
  <2> QED BY <1>1, <1>3, <2>1, <2>2 DEF OneToOne
<1> QED BY <1>1, <1>2, <1>3 DEF t
-----------------------------------------------------------------------------
(* Arrays with a hole, as terminated has them for a moment *)

(* s is an array of members of S but for the hole at index j. *)
Hollow(s, S, j) ==
  /\ s \in Seq(S \cup {NULL}) /\ j \in 0 .. Len(s) - 1
  /\ \A k \in 1 .. Len(s) : k # j + 1 => s[k] \in S
  /\ \A k, l \in 1 .. Len(s) : k # j + 1 /\ l # j + 1 /\ s[k] = s[l] => k = l

(* The items of the region of size n, without the hole *)
But(s, n, j) == {s[k] : k \in {l \in 1 .. n : l # j + 1}}

(* The hole moves to the end of a region, or stays where it is behind it:  *)
(* the regions around keep their items, so do those in front of the hole,  *)
(* and the region without its last place holds what it held.               *)
LEMMA MoveHoleIs ==
  ASSUME NEW S, NEW s, NEW j, Hollow(s, S, j), NEW n \in 0 .. Len(s)
  PROVE  LET t == MoveHole(s, j, n)
             h == HoleAt(j, n)
         IN  /\ Hollow(t, S, h) /\ Len(t) = Len(s)
             /\ j <= h /\ Shrunk(j, n) <= h /\ Shrunk(j, n) \in 0 .. n
             /\ But(t, Shrunk(j, n), h) = But(s, n, j)
             /\ \A q \in n .. Len(s) : But(t, q, h) = But(s, q, j)
             /\ \A q \in 0 .. Len(s) : q <= j => But(t, q, h) = But(s, q, j)
<1> DEFINE t == MoveHole(s, j, n)
           h == HoleAt(j, n)
<1>1. /\ s \in Seq(S \cup {NULL}) /\ Len(s) \in Nat /\ n \in Nat /\ n <= Len(s)
      /\ j \in Nat /\ j < Len(s)
  BY DEF Hollow
<1>2. CASE ~(j < n)
  <2>1. t = s /\ h = j /\ Shrunk(j, n) = n
    BY <1>2 DEF MoveHole, HoleAt, Shrunk
  <2> QED BY <1>1, <1>2, <2>1 DEF Hollow
<1>3. CASE j < n
  <2>1. t = [s EXCEPT ![j + 1] = s[n], ![n] = NULL] /\ h = n - 1 /\ Shrunk(j, n) = n - 1
    BY <1>3 DEF MoveHole, HoleAt, Shrunk
  <2>2. /\ j + 1 \in 1 .. n /\ n \in 1 .. Len(s) /\ h + 1 = n
        /\ \A k \in 1 .. n : k \in 1 .. Len(s)
    BY <1>1, <1>3, <2>1
  <2>3. s[n] \in S \cup {NULL}
    BY <1>1, <2>2
  <2>4. /\ t \in Seq(S \cup {NULL}) /\ Len(t) = Len(s)
        /\ \A k \in 1 .. Len(s) : t[k] = IF k = n THEN NULL ELSE IF k = j + 1 THEN s[n] ELSE s[k]
    BY <1>1, <2>1, <2>2, <2>3
  <2> HIDE DEF t, h
  <2>5. Hollow(t, S, h)
    <3>1. h \in 0 .. Len(t) - 1
      BY <1>1, <2>1, <2>2, <2>4
    <3>2. \A k \in 1 .. Len(s) : k # n => /\ t[k] = s[IF k = j + 1 THEN n ELSE k]
                                         /\ t[k] \in S
      BY <1>1, <2>2, <2>4 DEF Hollow
    <3>3. \A k, l \in 1 .. Len(s) : k # n /\ l # n /\ t[k] = t[l] => k = l
      BY <1>1, <2>2, <3>2 DEF Hollow
    <3> QED BY <2>2, <2>4, <3>1, <3>2, <3>3 DEF Hollow
  <2>6. ASSUME NEW q \in n - 1 .. Len(s), NEW r \in n .. Len(s), q = r \/ (q = n - 1 /\ r = n)
        PROVE  But(t, q, h) = But(s, r, j)
    <3>1. q \in Nat /\ r \in Nat
      BY <1>1, <2>2
    <3>2. ASSUME NEW k \in 1 .. q, k # n PROVE \E l \in 1 .. r : l # j + 1 /\ s[l] = t[k]
      <4>1. k \in 1 .. Len(s) /\ k \in 1 .. r /\ n \in 1 .. r
        BY <1>1, <2>2, <2>6, <3>1
      <4>2. CASE k = j + 1
        BY <2>4, <3>2, <4>1, <4>2
      <4>3. CASE k # j + 1
        BY <2>4, <3>2, <4>1, <4>3
      <4> QED BY <4>2, <4>3
    <3>3. ASSUME NEW l \in 1 .. r, l # j + 1 PROVE \E k \in 1 .. q : k # n /\ t[k] = s[l]
      <4>1. CASE l = n
        <5>1. j + 1 \in 1 .. q /\ j + 1 # n /\ j + 1 \in 1 .. Len(s)
          BY <1>1, <2>2, <2>6, <3>1, <3>3, <4>1
        <5> QED BY <2>4, <4>1, <5>1
      <4>2. CASE l # n
        <5>1. l \in 1 .. q /\ l \in 1 .. Len(s)
          BY <1>1, <2>2, <2>6, <3>1, <4>2
        <5> QED BY <2>4, <3>3, <4>2, <5>1
      <4> QED BY <4>1, <4>2
    <3>4. But(t, q, h) = {t[k] : k \in {l \in 1 .. q : l # n}}
      BY <2>2 DEF But
    <3>5. ASSUME NEW x PROVE x \in But(t, q, h) <=> x \in But(s, r, j)
      <4>1. x \in But(t, q, h) <=> \E k \in 1 .. q : k # n /\ t[k] = x
        BY ONLY <3>4
      <4>2. x \in But(s, r, j) <=> \E l \in 1 .. r : l # j + 1 /\ s[l] = x
        BY ONLY DEF But
      <4> QED BY ONLY <3>2, <3>3, <4>1, <4>2, Zenon
    <3> QED BY ONLY <3>5, Zenon
  <2>7. ASSUME NEW q \in 0 .. Len(s), q <= j PROVE But(t, q, h) = But(s, q, j)
    <3>1. \A k \in 1 .. q : k \in 1 .. Len(s) /\ k # n /\ k # j + 1 /\ k # h + 1
      BY <1>1, <2>2, <2>7
    <3> QED BY <2>4, <3>1 DEF But
  <2>8. But(t, Shrunk(j, n), h) = But(s, n, j)
    <3>1. n - 1 \in n - 1 .. Len(s) /\ n \in n .. Len(s)
      BY <1>1, <2>2
    <3> QED BY <2>1, <2>6, <3>1, Zenon
  <2>9. ASSUME NEW q \in n .. Len(s) PROVE But(t, q, h) = But(s, q, j)
    <3>1. q \in n - 1 .. Len(s)
      BY <1>1
    <3> QED BY <2>6, <3>1
  <2>10. j <= h /\ Shrunk(j, n) <= h /\ Shrunk(j, n) \in 0 .. n
    BY <1>1, <1>3, <2>1, <2>2
  <2> QED BY <2>4, <2>5, <2>7, <2>8, <2>9, <2>10 DEF t, h
<1> QED BY <1>2, <1>3

(* The first n items of a sequence. *)
LEMMA PrefixIs ==
  ASSUME NEW S, NEW T, NEW s \in Seq(T), NEW n \in 0 .. Len(s), \A k \in 1 .. n : s[k] \in S
  PROVE  /\ SubSeq(s, 1, n) \in Seq(S) /\ Len(SubSeq(s, 1, n)) = n
         /\ \A k \in 1 .. n : SubSeq(s, 1, n)[k] = s[k]
OBVIOUS

(* erase at the hole closes it with the last item. *)
LEMMA EraseIs ==
  ASSUME NEW S, NEW s, NEW j, Hollow(s, S, j)
  PROVE  LET t == erase(s, j)
         IN  /\ t \in Seq(S) /\ Len(t) = Len(s) - 1 /\ OneToOne(t)
             /\ First(t, Len(t)) = But(s, Len(s), j)
             /\ \A q \in 0 .. j : First(t, q) = But(s, q, j)
<1> DEFINE u == [s EXCEPT ![j + 1] = s[Len(s)]]
           t == erase(s, j)
           m == Len(s) - 1
<1>1. /\ s \in Seq(S \cup {NULL}) /\ Len(s) \in Nat /\ j \in Nat /\ j + 1 \in 1 .. Len(s)
      /\ m \in Nat /\ Len(s) = m + 1 /\ Len(s) \in 1 .. Len(s)
      /\ \A k \in 1 .. m : k \in 1 .. Len(s) /\ k # Len(s)
  BY DEF Hollow
<1>2. /\ u \in Seq(S \cup {NULL}) /\ Len(u) = Len(s)
      /\ \A k \in 1 .. Len(s) : u[k] = IF k = j + 1 THEN s[Len(s)] ELSE s[k]
  BY <1>1
<1>3. t = SubSeq(u, 1, m)
  BY DEF erase
<1> HIDE DEF u, t, m
<1>4. \A k \in 1 .. m : u[k] \in S
  BY <1>1, <1>2 DEF Hollow
<1>5. m \in 0 .. Len(u)
  BY <1>1, <1>2
<1>6. t \in Seq(S) /\ Len(t) = m /\ \A k \in 1 .. m : t[k] = u[k]
  BY <1>2, <1>3, <1>4, <1>5, PrefixIs
<1>7. \A k \in 1 .. m : t[k] = IF k = j + 1 THEN s[Len(s)] ELSE s[k]
  BY <1>1, <1>2, <1>6
<1>8. OneToOne(t)
  BY <1>1, <1>6, <1>7 DEF OneToOne, Hollow
<1>9. First(t, m) = But(s, Len(s), j)
  <2>1. ASSUME NEW k \in 1 .. m PROVE \E l \in 1 .. Len(s) : l # j + 1 /\ s[l] = t[k]
    BY <1>1, <1>7
  <2>2. ASSUME NEW l \in 1 .. Len(s), l # j + 1 PROVE \E k \in 1 .. m : t[k] = s[l]
    <3>1. CASE l = Len(s)
      <4>1. j + 1 \in 1 .. m
        BY <1>1, <2>2, <3>1
      <4> QED BY <1>7, <3>1, <4>1
    <3>2. CASE l # Len(s)
      <4>1. l \in 1 .. m
        BY <1>1, <3>2
      <4> QED BY <1>7, <2>2, <4>1
    <3> QED BY <3>1, <3>2
  <2>3. \A x : x \in First(t, m) <=> \E k \in 1 .. m : t[k] = x
    BY <1>1, FirstIs
  <2> QED BY ONLY <2>1, <2>2, <2>3 DEF But
<1>10. ASSUME NEW q \in 0 .. j PROVE First(t, q) = But(s, q, j)
  <2>1. q \in Nat /\ \A k \in 1 .. q : k \in 1 .. m /\ k # j + 1
    BY <1>1
  <2>2. \A x : x \in First(t, q) <=> \E k \in 1 .. q : t[k] = x
    BY <2>1, FirstIs
  <2>3. \A k \in 1 .. q : t[k] = s[k]
    BY <1>7, <2>1
  <2> QED BY ONLY <2>1, <2>2, <2>3 DEF But
<1> QED BY <1>6, <1>8, <1>9, <1>10 DEF t, m
-----------------------------------------------------------------------------
(* The invariant *)

(* The array has each pipe that is attached, once. *)
Array ==
  /\ OneToOne(pipes)
  /\ \A p \in Pipe : p \in First(pipes, Len(pipes)) <=> link[p] # "none"

(* Of the pipes in state active exactly those that were not told to be     *)
(* full are eligible.                                                      *)
Eligible ==
  \A p \in Pipe : link[p] = "active" => (out_active[p] <=> p \in First(pipes, eligible))

(* Only in the middle of a message some eligible pipes are not active. *)
Activity == (~more => active = eligible) /\ (pc = "match" => ~more)

(* From its first part to its last, a message goes to the pipes that took  *)
(* its first part and have not refused one since or terminated.            *)
Message ==
  more \/ pc = "distribute" =>
    begun = First(pipes, matching) /\ (~matches => matching = active)

(* Those in front of i have the part. *)
Taken == pc = "distribute" => i <= matching /\ owners = First(pipes, i)

IInv == TypeOK /\ Array /\ Eligible /\ Activity /\ Message /\ Taken

(* A new dist_t has no pipes. *)
LEMMA IInvInit == Init => IInv
<1> SUFFICES ASSUME Init PROVE IInv
  OBVIOUS
<1>1. Len(pipes) = 0 /\ \A k \in 1 .. 0 : FALSE
  BY DEF Init
<1>2. \A x : x \notin First(pipes, 0)
  BY <1>1, FirstIs
<1>4. TypeOK
  <2>1. /\ pipes \in Seq(Pipe) /\ Len(pipes) = 0 /\ matches \in BOOLEAN
        /\ matching = 0 /\ active = 0 /\ eligible = 0 /\ i = 0
    BY <1>1 DEF Init
  <2>2. /\ link \in [Pipe -> {"none", "active", "ended"}]
        /\ out_active \in [Pipe -> BOOLEAN] /\ full \in [Pipe -> BOOLEAN]
    BY DEF Init
  <2>3. more \in BOOLEAN /\ part \in BOOLEAN /\ pc = "idle" /\ owners = {} /\ begun = {}
    BY Zenon DEF Init
  <2> QED BY <2>1, <2>2, <2>3 DEF TypeOK
<1>5. Array
  BY <1>1, <1>2 DEF Init, Array, OneToOne
<1> QED BY <1>2, <1>4, <1>5 DEF Init, IInv, Eligible, Activity, Message, Taken

(* The facts on sizes that every step uses. *)
LEMMA Sizes ==
  ASSUME TypeOK
  PROVE  /\ pipes \in Seq(Pipe) /\ Len(pipes) \in Nat
         /\ matching \in Nat /\ active \in Nat /\ eligible \in Nat
         /\ matching <= active /\ active <= eligible /\ eligible <= Len(pipes)
BY DEF TypeOK

(* A larger region holds a smaller one. *)
LEMMA FirstGrows ==
  ASSUME NEW s, NEW n \in Nat, NEW m \in Nat, m <= n
  PROVE  First(s, m) \subseteq First(s, n)
<1>1. \A k \in 1 .. m : k \in 1 .. n
  OBVIOUS
<1>2. ASSUME NEW x \in First(s, m) PROVE x \in First(s, n)
  BY <1>1, FirstIs
<1> QED BY <1>2

(* attach puts a pipe behind the eligible or the active ones. *)
LEMMA AttachStep ==
  ASSUME IInv, NEW p \in Pipe, attach(p)
  PROVE  IInv'
<1> DEFINE s == push_back(pipes, p)
           n == IF more THEN eligible ELSE active
<1>1. /\ TypeOK /\ Array /\ Eligible /\ Activity /\ Message /\ Taken
      /\ pc = "idle" /\ link[p] = "none" /\ pipes' = swap(s, n, Len(pipes))
      /\ active' = (IF more THEN active ELSE active + 1) /\ eligible' = eligible + 1
      /\ link' = [link EXCEPT ![p] = "active"]
      /\ out_active' = [out_active EXCEPT ![p] = TRUE]
      /\ full' = [full EXCEPT ![p] = FALSE]
      /\ UNCHANGED <<matches, matching, more, pc, part, i, owners, begun>>
  BY DEF IInv, attach, callvars
<1>2. /\ pipes \in Seq(Pipe) /\ Len(pipes) \in Nat
      /\ matching \in Nat /\ active \in Nat /\ eligible \in Nat
      /\ matching <= active /\ active <= eligible /\ eligible <= Len(pipes)
  BY <1>1, Sizes
<1>3. n = eligible
  BY <1>1 DEF Activity
<1>4. p \notin First(pipes, Len(pipes))
  BY <1>1 DEF Array
<1>5. /\ s \in Seq(Pipe) /\ Len(s) = Len(pipes) + 1 /\ s[Len(pipes) + 1] = p
      /\ \A m \in 0 .. Len(pipes) : First(s, m) = First(pipes, m)
      /\ OneToOne(s)
  BY <1>1, <1>2, <1>4, PushIs DEF Array
<1> HIDE DEF s, n
<1>6. /\ eligible \in 0 .. Len(s) - 1 /\ Len(pipes) \in eligible .. Len(s) - 1
      /\ Len(pipes) \in 0 .. Len(s) - 1
  BY <1>2, <1>5
<1>7. pipes' \in Seq(Pipe) /\ Len(pipes') = Len(s) /\ OneToOne(pipes')
  <2> DEFINE u == swap(s, eligible, Len(pipes))
  <2>1. u \in Seq(Pipe) /\ Len(u) = Len(s)
    <3>1. s \in Seq(Pipe) /\ eligible \in 0 .. Len(s) - 1 /\ Len(pipes) \in 0 .. Len(s) - 1
      BY <1>5, <1>6
    <3> QED BY ONLY <3>1, SwapIs, Zenon
  <2>2. OneToOne(u)
    BY <1>5, <1>6, SwapKeeps
  <2>3. pipes' = u
    BY <1>1, <1>3
  <2> HIDE DEF u
  <2> QED BY ONLY <2>1, <2>2, <2>3
<1>8. First(pipes', eligible + 1) = First(pipes, eligible) \cup {p}
  <2>1. First(pipes', eligible + 1) = First(s, eligible) \cup {s[Len(pipes) + 1]}
    BY <1>1, <1>3, <1>5, <1>6, SwapIn
  <2> QED BY <1>2, <1>5, <2>1
<1>9. First(pipes', matching) = First(pipes, matching)
  <2>1. matching \in 0 .. Len(s) /\ (eligible < matching <=> Len(pipes) < matching)
    BY <1>2, <1>5
  <2>2. First(pipes', matching) = First(s, matching)
    BY <1>1, <1>3, <1>5, <1>6, <2>1, SwapKeeps
  <2> QED BY <1>2, <1>5, <2>2
<1>10. First(pipes', Len(pipes')) = First(pipes, Len(pipes)) \cup {p}
  <2>1. First(pipes', Len(s)) = First(s, Len(s))
    <3>1. Len(s) \in 0 .. Len(s) /\ eligible < Len(s) /\ Len(pipes) < Len(s)
      BY <1>2, <1>5
    <3> QED BY <1>1, <1>3, <1>5, <1>6, <3>1, SwapKeeps
  <2>2. ASSUME NEW x PROVE x \in First(s, Len(s)) <=> x \in First(s, Len(pipes)) \/ x = p
    <3>1. x \in First(s, Len(s)) <=> \E k \in 1 .. Len(s) : s[k] = x
      BY <1>2, <1>5, FirstIs
    <3>2. x \in First(s, Len(pipes)) <=> \E k \in 1 .. Len(pipes) : s[k] = x
      BY <1>2, FirstIs
    <3>3. /\ \A k \in 1 .. Len(s) : k \in 1 .. Len(pipes) \/ k = Len(pipes) + 1
          /\ Len(pipes) + 1 \in 1 .. Len(s) /\ \A k \in 1 .. Len(pipes) : k \in 1 .. Len(s)
      BY <1>2, <1>5
    <3> QED BY ONLY <1>5, <3>1, <3>2, <3>3
  <2>3. First(s, Len(pipes)) = First(pipes, Len(pipes))
    BY <1>2, <1>5
  <2> QED BY <1>7, <2>1, <2>2, <2>3
<1>11. TypeOK'
  BY <1>1, <1>2, <1>5, <1>7 DEF TypeOK, Activity
<1>12. link \in [Pipe -> {"none", "active", "ended"}] /\ out_active \in [Pipe -> BOOLEAN]
  BY <1>1 DEF TypeOK
<1>13. Array'
  BY <1>1, <1>7, <1>10, <1>12 DEF Array
<1>14. Eligible'
  BY <1>1, <1>8, <1>12 DEF Eligible
<1>15. Activity'
  BY <1>1 DEF Activity
<1>16. Message'
  BY <1>1, <1>9 DEF Message
<1>17. Taken'
  BY <1>1 DEF Taken
<1> QED BY <1>11, <1>13, <1>14, <1>15, <1>16, <1>17 DEF IInv

(* The peer of a pipe ends, which dist_t does not see. *)
LEMMA PeerEndsStep ==
  ASSUME IInv, NEW p \in Pipe, PeerEnds(p)
  PROVE  IInv'
<1>1. /\ TypeOK /\ Array /\ Eligible /\ Activity /\ Message /\ Taken
      /\ link[p] = "active" /\ link' = [link EXCEPT ![p] = "ended"]
      /\ UNCHANGED <<matches, pipes, matching, active, eligible, more, out_active, full,
                     pc, part, i, owners, begun>>
  BY DEF IInv, PeerEnds, distvars, callvars
<1>2. TypeOK'
  BY <1>1 DEF TypeOK
<1>3. link \in [Pipe -> {"none", "active", "ended"}]
  BY <1>1 DEF TypeOK
<1>4. Array' /\ Eligible'
  BY <1>1, <1>3 DEF Array, Eligible
<1>5. Activity' /\ Message' /\ Taken'
  BY <1>1 DEF Activity, Message, Taken
<1> QED BY <1>2, <1>4, <1>5 DEF IInv

(* What terminated does to the array: the pipe leaves it and each region   *)
(* it was in, and no other pipe enters or leaves a region.                 *)
LEMMA TerminatedIs ==
  ASSUME IInv, NEW p \in Pipe, terminated(p)
  PROVE  /\ pipes' \in Seq(Pipe) /\ OneToOne(pipes') /\ Len(pipes') \in Nat
         /\ matching' \in Nat /\ active' \in Nat /\ eligible' \in Nat
         /\ matching' <= active' /\ active' <= eligible' /\ eligible' <= Len(pipes')
         /\ active = eligible => active' = eligible'
         /\ matching = active => matching' = active'
         /\ First(pipes', Len(pipes')) = First(pipes, Len(pipes)) \ {p}
         /\ First(pipes', matching') = First(pipes, matching) \ {p}
         /\ First(pipes', eligible') = First(pipes, eligible) \ {p}
<1> DEFINE s  == pipes
           j  == index(s, p)
           jm == HoleAt(j, matching)
           ja == HoleAt(jm, active)
           je == HoleAt(ja, eligible)
           s1 == MoveHole(s, j, matching)
           s2 == MoveHole(s1, jm, active)
           s3 == MoveHole(s2, ja, eligible)
           m  == Shrunk(j, matching)
           a  == Shrunk(jm, active)
           e  == Shrunk(ja, eligible)
<1>1. /\ TypeOK /\ Array /\ link[p] = "ended"
      /\ pipes' = erase(s3, je) /\ matching' = m /\ active' = a /\ eligible' = e
  BY DEF IInv, terminated
<1>2. /\ s \in Seq(Pipe) /\ Len(s) \in Nat
      /\ matching \in 0 .. Len(s) /\ active \in 0 .. Len(s) /\ eligible \in 0 .. Len(s)
      /\ matching <= active /\ active <= eligible /\ eligible <= Len(s)
  BY <1>1, Sizes
<1>3. j \in 0 .. Len(s) - 1 /\ s[j + 1] = p /\ OneToOne(s)
  <2>1. p \in First(s, Len(s))
    BY <1>1 DEF Array
  <2> QED BY <1>1, <1>2, <2>1, IndexIs DEF Array
<1> HIDE DEF j
<1>4. Hollow(s, Pipe, j)
  BY <1>2, <1>3 DEF Hollow, OneToOne
<1>5. ASSUME NEW n \in 0 .. Len(s) PROVE But(s, n, j) = First(s, n) \ {p}
  <2>1. n \in Nat /\ \A k \in 1 .. n : k \in 1 .. Len(s)
    BY <1>2
  <2>2. j + 1 \in 1 .. Len(s)
    BY <1>2, <1>3
  <2>3. \A k \in 1 .. n : s[k] = p <=> k = j + 1
    BY <1>3, <2>1, <2>2 DEF OneToOne
  <2>4. ASSUME NEW x PROVE x \in But(s, n, j) <=> x \in First(s, n) /\ x # p
    <3>1. x \in First(s, n) <=> \E k \in 1 .. n : s[k] = x
      BY <2>1, FirstIs
    <3>2. x \in But(s, n, j) <=> \E k \in 1 .. n : k # j + 1 /\ s[k] = x
      BY ONLY DEF But
    <3> QED BY ONLY <2>3, <3>1, <3>2
  <2> QED BY <2>4
<1>6. /\ Hollow(s1, Pipe, jm) /\ Len(s1) = Len(s)
      /\ j <= jm /\ m <= jm /\ m \in 0 .. matching
      /\ But(s1, m, jm) = But(s, matching, j)
      /\ \A q \in matching .. Len(s) : But(s1, q, jm) = But(s, q, j)
  BY <1>2, <1>4, MoveHoleIs
<1>7. /\ jm = (IF j < matching THEN matching - 1 ELSE j)
      /\ m = (IF j < matching THEN matching - 1 ELSE matching)
  BY DEF HoleAt, Shrunk
<1> HIDE DEF s1, jm, m
<1>8. /\ Hollow(s2, Pipe, ja) /\ Len(s2) = Len(s)
      /\ jm <= ja /\ a <= ja /\ a \in 0 .. active
      /\ But(s2, a, ja) = But(s1, active, jm)
      /\ \A q \in active .. Len(s) : But(s2, q, ja) = But(s1, q, jm)
      /\ \A q \in 0 .. Len(s) : q <= jm => But(s2, q, ja) = But(s1, q, jm)
  <2>1. Hollow(s1, Pipe, jm) /\ active \in 0 .. Len(s1) /\ Len(s1) = Len(s)
    BY <1>2, <1>6
  <2> QED BY ONLY <2>1, MoveHoleIs
<1>9. /\ ja = (IF jm < active THEN active - 1 ELSE jm)
      /\ a = (IF jm < active THEN active - 1 ELSE active)
  BY DEF HoleAt, Shrunk
<1> HIDE DEF s2, ja, a
<1>10. /\ Hollow(s3, Pipe, je) /\ Len(s3) = Len(s)
       /\ ja <= je /\ e <= je /\ e \in 0 .. eligible
       /\ But(s3, e, je) = But(s2, eligible, ja)
       /\ \A q \in eligible .. Len(s) : But(s3, q, je) = But(s2, q, ja)
       /\ \A q \in 0 .. Len(s) : q <= ja => But(s3, q, je) = But(s2, q, ja)
  BY <1>2, <1>8, MoveHoleIs
<1>11. e = (IF ja < eligible THEN eligible - 1 ELSE eligible)
  BY DEF Shrunk
<1> HIDE DEF s3, je, e
<1> DEFINE u == erase(s3, je)
<1>12. /\ u \in Seq(Pipe) /\ Len(u) = Len(s) - 1 /\ OneToOne(u)
       /\ First(u, Len(u)) = But(s3, Len(s), je)
       /\ \A q \in 0 .. je : First(u, q) = But(s3, q, je)
  BY <1>10, EraseIs
<1> HIDE DEF u
<1>13. /\ j \in Nat /\ jm \in Nat /\ ja \in Nat /\ m \in Nat /\ a \in Nat /\ e \in Nat
       /\ je \in Nat /\ je < Len(s)
  <2>1. je \in 0 .. Len(s) - 1
    BY <1>10 DEF Hollow
  <2> QED BY <1>2, <1>3, <1>6, <1>7, <1>8, <1>9, <1>10, <2>1
<1>14. /\ m <= a /\ a <= e /\ e <= Len(u)
       /\ active = eligible => a = e
       /\ matching = active => m = a
  BY <1>2, <1>3, <1>7, <1>9, <1>10, <1>11, <1>12, <1>13
<1>15. First(u, Len(u)) = First(s, Len(s)) \ {p}
  <2>1. /\ Len(s) \in matching .. Len(s) /\ Len(s) \in active .. Len(s)
        /\ Len(s) \in eligible .. Len(s) /\ Len(s) \in 0 .. Len(s)
    BY <1>2
  <2> QED BY ONLY <1>5, <1>6, <1>8, <1>10, <1>12, <2>1
<1>16. First(u, m) = First(s, matching) \ {p}
  <2>1. m \in 0 .. Len(s) /\ m <= jm /\ m <= ja /\ m \in 0 .. je
    BY <1>2, <1>6, <1>8, <1>10, <1>13
  <2> QED BY ONLY <1>2, <1>5, <1>6, <1>8, <1>10, <1>12, <2>1
<1>17. First(u, e) = First(s, eligible) \ {p}
  <2>1. e \in 0 .. je /\ eligible \in matching .. Len(s) /\ eligible \in active .. Len(s)
    BY <1>2, <1>10, <1>13
  <2> QED BY ONLY <1>2, <1>5, <1>6, <1>8, <1>10, <1>12, <2>1
<1>18. pipes' = u /\ Len(u) \in Nat
  BY <1>1, <1>12 DEF u
<1> QED BY <1>1, <1>12, <1>13, <1>14, <1>15, <1>16, <1>17, <1>18

(* terminated takes a pipe out of every region it is in. *)
LEMMA TerminatedStep ==
  ASSUME IInv, NEW p \in Pipe, terminated(p)
  PROVE  IInv'
<1>1. /\ TypeOK /\ Array /\ Eligible /\ Activity /\ Message /\ Taken
      /\ pc = "idle" /\ link' = [link EXCEPT ![p] = "none"] /\ begun' = begun \ {p}
      /\ UNCHANGED <<matches, more, out_active, full, pc, part, i, owners>>
  BY DEF IInv, terminated, callvars
<1>2. /\ pipes' \in Seq(Pipe) /\ OneToOne(pipes') /\ Len(pipes') \in Nat
      /\ matching' \in Nat /\ active' \in Nat /\ eligible' \in Nat
      /\ matching' <= active' /\ active' <= eligible' /\ eligible' <= Len(pipes')
      /\ active = eligible => active' = eligible'
      /\ matching = active => matching' = active'
      /\ First(pipes', Len(pipes')) = First(pipes, Len(pipes)) \ {p}
      /\ First(pipes', matching') = First(pipes, matching) \ {p}
      /\ First(pipes', eligible') = First(pipes, eligible) \ {p}
  BY TerminatedIs
<1>3. TypeOK'
  BY <1>1, <1>2 DEF TypeOK
<1>4. link \in [Pipe -> {"none", "active", "ended"}]
  BY <1>1 DEF TypeOK
<1>5. Array' /\ Eligible'
  BY <1>1, <1>2, <1>4 DEF Array, Eligible
<1>6. Activity' /\ Message' /\ Taken'
  BY <1>1, <1>2 DEF Activity, Message, Taken
<1> QED BY <1>3, <1>5, <1>6 DEF IInv

(* activated makes a pipe eligible, and active between messages. *)
LEMMA ActivatedStep ==
  ASSUME IInv, NEW p \in Pipe, activated(p)
  PROVE  IInv'
<1>1. /\ TypeOK /\ Array /\ Eligible /\ Activity /\ Message /\ Taken
      /\ pc = "idle" /\ link[p] = "active"
      /\ full' = [full EXCEPT ![p] = FALSE]
      /\ out_active' = [out_active EXCEPT ![p] = TRUE]
      /\ UNCHANGED <<matches, matching, more, link, pc, part, i, owners, begun>>
  BY DEF IInv, activated, callvars
<1>2. /\ pipes \in Seq(Pipe) /\ Len(pipes) \in Nat
      /\ matching \in Nat /\ active \in Nat /\ eligible \in Nat
      /\ matching <= active /\ active <= eligible /\ eligible <= Len(pipes)
  BY <1>1, Sizes
<1>3. link \in [Pipe -> {"none", "active", "ended"}] /\ out_active \in [Pipe -> BOOLEAN]
  BY <1>1 DEF TypeOK
<1>4. CASE out_active[p]
  <2>1. UNCHANGED <<pipes, active, eligible>>
    BY <1>4 DEF activated
  <2>2. out_active' = out_active
    BY <1>1, <1>3, <1>4
  <2>3. TypeOK'
    BY <1>1, <2>1 DEF TypeOK
  <2> QED BY <1>1, <2>1, <2>2, <2>3 DEF IInv, Array, Eligible, Activity, Message, Taken
<1>5. CASE ~out_active[p]
  <2> DEFINE j == index(pipes, p)
             s == swap(pipes, j, eligible)
  <2>1. /\ pipes' = (IF more THEN s ELSE swap(s, eligible, active))
        /\ active' = (IF more THEN active ELSE active + 1)
        /\ eligible' = eligible + 1
    BY <1>5 DEF activated
  <2>2. p \in First(pipes, Len(pipes)) /\ p \notin First(pipes, eligible) /\ OneToOne(pipes)
    BY <1>1, <1>5 DEF Array, Eligible
  <2>3. j \in 0 .. Len(pipes) - 1 /\ pipes[j + 1] = p
    BY <1>2, <2>2, IndexIs
  <2> HIDE DEF j
  <2>4. /\ j \in eligible .. Len(pipes) - 1 /\ eligible \in 0 .. Len(pipes) - 1
        /\ \A n \in 0 .. eligible : n \in 0 .. Len(pipes) /\ (j < n <=> eligible < n)
    <3>1. ~(j + 1 \in 1 .. eligible)
      BY <1>2, <2>2, <2>3, FirstIs
    <3> QED BY <1>2, <2>3, <3>1
  <2>5. s \in Seq(Pipe) /\ Len(s) = Len(pipes)
    BY <1>2, <2>3, <2>4, SwapIs
  <2>6. /\ OneToOne(s)
        /\ \A n \in 0 .. Len(pipes) : (j < n <=> eligible < n) => First(s, n) = First(pipes, n)
    BY <1>2, <2>2, <2>3, <2>4, SwapKeeps
  <2>7. First(s, eligible + 1) = First(pipes, eligible) \cup {p}
    BY <1>2, <2>3, <2>4, SwapIn
  <2> HIDE DEF s
  <2>8. /\ pipes' \in Seq(Pipe) /\ Len(pipes') = Len(pipes) /\ OneToOne(pipes')
        /\ \A n \in 0 .. Len(pipes) : First(pipes', n) = First(s, n)
    <3>1. CASE more
      BY <2>1, <2>5, <2>6, <3>1
    <3>2. CASE ~more
      <4> DEFINE u == swap(s, eligible, eligible)
      <4>1. pipes' = u
        BY <1>1, <2>1, <3>2 DEF Activity
      <4>2. eligible \in 0 .. Len(s) - 1
        BY <2>4, <2>5
      <4>3. u \in Seq(Pipe) /\ Len(u) = Len(s)
        BY <2>5, <4>2, SwapIs
      <4>4. OneToOne(u) /\ \A n \in 0 .. Len(s) : First(u, n) = First(s, n)
        BY <2>5, <2>6, <4>2, SwapKeeps
      <4> HIDE DEF u
      <4> QED BY ONLY <2>5, <4>1, <4>3, <4>4
    <3> QED BY <3>1, <3>2
  <2>9. First(pipes', eligible + 1) = First(pipes, eligible) \cup {p}
    <3>1. eligible + 1 \in 0 .. Len(pipes)
      BY <1>2, <2>4
    <3> QED BY <2>7, <2>8, <3>1
  <2>10. First(pipes', matching) = First(pipes, matching)
    <3>1. matching \in 0 .. eligible
      BY <1>2
    <3> QED BY <2>4, <2>6, <2>8, <3>1
  <2>11. First(pipes', Len(pipes')) = First(pipes, Len(pipes))
    <3>1. Len(pipes) \in 0 .. Len(pipes) /\ j < Len(pipes) /\ eligible < Len(pipes)
      BY <1>2, <2>4
    <3> QED BY <2>6, <2>8, <3>1
  <2>12. TypeOK'
    <3>1. eligible + 1 <= Len(pipes)
      BY <1>2, <2>4
    <3> QED BY <1>1, <1>2, <2>1, <2>8, <3>1 DEF TypeOK, Activity
  <2>13. Array'
    BY <1>1, <2>8, <2>11 DEF Array
  <2>14. Eligible'
    BY <1>1, <1>3, <2>1, <2>9 DEF Eligible
  <2>15. Activity'
    BY <1>1, <2>1 DEF Activity
  <2>16. Message' /\ Taken'
    BY <1>1, <2>1, <2>10 DEF Message, Taken
  <2> QED BY <2>12, <2>13, <2>14, <2>15, <2>16 DEF IInv
<1> QED BY <1>4, <1>5

(* match moves a pipe into the matching ones. *)
LEMMA MatchStep ==
  ASSUME IInv, NEW p \in Pipe, match(p)
  PROVE  IInv'
<1> DEFINE j == index(pipes, p)
           s == swap(pipes, j, matching)
<1>1. /\ TypeOK /\ Array /\ Eligible /\ Activity /\ Taken
      /\ pc = "match" /\ Has(pipes, p) /\ j >= matching /\ j < eligible
      /\ pipes' = s /\ matching' = matching + 1
      /\ UNCHANGED <<matches, active, eligible, more, link, out_active, full,
                     pc, part, i, owners, begun>>
  BY DEF IInv, match, callvars
<1>2. /\ pipes \in Seq(Pipe) /\ Len(pipes) \in Nat
      /\ matching \in Nat /\ active \in Nat /\ eligible \in Nat
      /\ matching <= active /\ active <= eligible /\ eligible <= Len(pipes)
  BY <1>1, Sizes
<1>3. active = eligible /\ ~more
  BY <1>1 DEF Activity
<1>4. j \in 0 .. Len(pipes) - 1
  <2>1. p \in First(pipes, Len(pipes))
    BY <1>1, <1>2, FirstIs DEF Has
  <2> QED BY <1>2, <2>1, IndexIs
<1> HIDE DEF j
<1>5. /\ matching \in 0 .. Len(pipes) - 1 /\ matching < eligible
      /\ eligible \in 0 .. Len(pipes) /\ Len(pipes) \in 0 .. Len(pipes)
      /\ matching < Len(pipes) /\ j < Len(pipes)
  BY <1>1, <1>2, <1>4
<1>6. s \in Seq(Pipe) /\ Len(s) = Len(pipes)
  BY <1>2, <1>4, <1>5, SwapIs, Zenon
<1>7. OneToOne(s) /\ First(s, eligible) = First(pipes, eligible)
                 /\ First(s, Len(pipes)) = First(pipes, Len(pipes))
  BY <1>1, <1>2, <1>4, <1>5, SwapKeeps DEF Array
<1> HIDE DEF s
<1>8. TypeOK'
  BY <1>1, <1>2, <1>3, <1>5, <1>6 DEF TypeOK
<1>9. Array' /\ Eligible'
  BY <1>1, <1>6, <1>7 DEF Array, Eligible
<1>10. Activity' /\ Message' /\ Taken'
  BY <1>1, <1>3 DEF Activity, Message, Taken
<1> QED BY <1>8, <1>9, <1>10 DEF IInv

(* send_to_matching begins to distribute a part. *)
LEMMA SendStep ==
  ASSUME IInv, StartMatch \/ \E more_ \in BOOLEAN : Send(more_)
  PROVE  IInv'
<1>1. TypeOK /\ Array /\ Eligible /\ Activity /\ Message /\ Taken
  BY DEF IInv
<1>2. CASE StartMatch
  BY <1>1, <1>2 DEF StartMatch, distvars, IInv, TypeOK, Array, Eligible, Activity, Message,
                    Taken
<1>3. ASSUME NEW more_ \in BOOLEAN, Send(more_) PROVE IInv'
  <2>1. /\ matching' = (IF matches THEN matching ELSE active) /\ pc' = "distribute"
        /\ part' = more_ /\ i' = 0 /\ owners' = {}
        /\ begun' = (IF more THEN begun ELSE First(pipes, matching'))
        /\ UNCHANGED <<matches, pipes, active, eligible, more, link, out_active, full>>
    BY <1>3 DEF Send
  <2>2. /\ Len(pipes) \in Nat
        /\ matching \in Nat /\ active \in Nat /\ eligible \in Nat
        /\ matching <= active /\ active <= eligible /\ eligible <= Len(pipes)
    BY <1>1, Sizes
  <2>3. matching' \in Nat /\ matching' <= active
    BY <2>1, <2>2
  <2>4. begun' = First(pipes, matching') /\ (~matches => matching' = active)
    BY <1>1, <2>1 DEF Message
  <2>5. First(pipes, matching') \subseteq Pipe
    <3>1. \A k \in 1 .. matching' : pipes[k] \in Pipe
      BY <1>1, <2>2, <2>3 DEF TypeOK
    <3> QED BY <2>3, <3>1, FirstIs
  <2>6. TypeOK'
    BY <1>1, <2>1, <2>2, <2>3, <2>4, <2>5 DEF TypeOK
  <2>7. First(pipes, 0) = {}
    <3>1. \A k \in 1 .. 0 : FALSE
      OBVIOUS
    <3>2. \A x : x \notin First(pipes, 0)
      BY <3>1, FirstIs
    <3> QED BY <3>2
  <2>8. Array' /\ Eligible' /\ Activity'
    BY <1>1, <2>1, Zenon DEF Array, Eligible, Activity
  <2>9. Message'
    BY <2>1, <2>4 DEF Message
  <2>10. Taken'
    BY <2>1, <2>3, <2>7 DEF Taken
  <2> QED BY <2>6, <2>8, <2>9, <2>10 DEF IInv
<1> QED BY <1>2, <1>3

(* A pipe takes the part. *)
LEMMA WriteOkStep ==
  ASSUME IInv, WriteOk
  PROVE  IInv'
<1> DEFINE p == pipes[i + 1]
<1>1. /\ TypeOK /\ Array /\ Eligible /\ Activity /\ Message /\ Taken
      /\ pc = "distribute" /\ i < matching
      /\ owners' = owners \cup {p} /\ i' = i + 1
      /\ UNCHANGED <<matches, pipes, matching, active, eligible, more, link, out_active,
                     pc, part, begun>>
  BY DEF IInv, WriteOk, distvars, At
<1>2. /\ pipes \in Seq(Pipe) /\ Len(pipes) \in Nat /\ i \in Nat
      /\ matching \in Nat /\ matching <= Len(pipes)
  BY <1>1, Sizes DEF TypeOK
<1>3. p \in Pipe
  BY <1>1, <1>2
<1>4. full' \in [Pipe -> BOOLEAN]
  BY <1>1, Zenon DEF TypeOK, WriteOk
<1>5. p \notin First(pipes, i) /\ First(pipes, i + 1) = First(pipes, i) \cup {p}
  <2>1. /\ i + 1 \in 1 .. Len(pipes) /\ \A k \in 1 .. i : k \in 1 .. Len(pipes) /\ k # i + 1
        /\ \A k \in 1 .. i + 1 : k \in 1 .. i \/ k = i + 1
        /\ i + 1 \in 1 .. i + 1 /\ \A k \in 1 .. i : k \in 1 .. i + 1
    BY <1>1, <1>2
  <2>2. \A x : x \in First(pipes, i) <=> \E k \in 1 .. i : pipes[k] = x
    BY <1>2, FirstIs
  <2>3. \A x : x \in First(pipes, i + 1) <=> \E k \in 1 .. i + 1 : pipes[k] = x
    BY <1>2, FirstIs
  <2>4. \A k \in 1 .. i : pipes[k] # pipes[i + 1]
    BY <1>1, <2>1 DEF Array, OneToOne
  <2>5. p \notin First(pipes, i)
    BY <2>2, <2>4
  <2>6. \A x : x \in First(pipes, i + 1) <=> x \in First(pipes, i) \/ x = p
    BY ONLY <2>1, <2>2, <2>3
  <2> QED BY <2>5, <2>6
<1> HIDE DEF p
<1>7. TypeOK'
  BY <1>1, <1>2, <1>3, <1>4 DEF TypeOK
<1>8. Array' /\ Eligible' /\ Activity' /\ Message'
  BY <1>1 DEF Array, Eligible, Activity, Message
<1>9. Taken'
  BY <1>1, <1>2, <1>5 DEF Taken
<1> QED BY <1>7, <1>8, <1>9 DEF IInv

(* A pipe that refuses the part leaves three regions. *)
LEMMA WriteFailsStep ==
  ASSUME IInv, WriteFails
  PROVE  IInv'
<1> DEFINE p == pipes[i + 1]
           s == swap(pipes, i, matching - 1)
           t == swap(s, matching - 1, active - 1)
           u == swap(t, active - 1, eligible - 1)
<1>1. /\ TypeOK /\ Array /\ Eligible /\ Activity /\ Message /\ Taken
      /\ pc = "distribute" /\ i < matching /\ ~Writable(p)
      /\ out_active' = [out_active EXCEPT ![p] = @ /\ link[p] # "active"]
      /\ pipes' = u /\ begun' = begun \ {p}
      /\ matching' = matching - 1 /\ active' = active - 1 /\ eligible' = eligible - 1
      /\ UNCHANGED <<matches, more, link, full, pc, part, i, owners>>
  BY DEF IInv, WriteFails, At
<1>2. /\ pipes \in Seq(Pipe) /\ Len(pipes) \in Nat /\ i \in Nat
      /\ matching \in Nat /\ active \in Nat /\ eligible \in Nat
      /\ i < matching /\ matching <= active /\ active <= eligible /\ eligible <= Len(pipes)
  BY <1>1, Sizes DEF TypeOK
<1>3. /\ i \in 0 .. Len(pipes) - 1 /\ matching - 1 \in 0 .. Len(pipes) - 1
      /\ active - 1 \in 0 .. Len(pipes) - 1 /\ eligible - 1 \in 0 .. Len(pipes) - 1
      /\ matching \in 1 .. Len(pipes) /\ active \in 1 .. Len(pipes) /\ eligible \in 1 .. Len(pipes)
      /\ i \in 0 .. matching - 1
  BY ONLY <1>2
<1>4. p \in Pipe /\ OneToOne(pipes)
  <2>1. i + 1 \in 1 .. Len(pipes)
    BY <1>2, <1>3
  <2>2. p \in Pipe
    BY ONLY <1>2, <2>1
  <2> QED BY <1>1, <2>2, Zenon DEF Array
(* The pipe leaves the matching pipes, and goes to the end of the active   *)
(* ones and of the eligible ones.                                          *)
<1>5. s \in Seq(Pipe) /\ Len(s) = Len(pipes) /\ s[(matching - 1) + 1] = p
  <2>1. /\ pipes \in Seq(Pipe) /\ i \in 0 .. Len(pipes) - 1
        /\ matching - 1 \in 0 .. Len(pipes) - 1
    BY <1>2, <1>3, Zenon
  <2> QED BY ONLY <2>1, SwapMoves
<1>6. /\ OneToOne(s)
      /\ \A n \in 0 .. Len(pipes) : (i < n <=> matching - 1 < n) => First(s, n) = First(pipes, n)
  BY <1>2, <1>3, <1>4, SwapKeeps
<1>7. First(s, matching - 1) = First(pipes, matching) \ {p}
  BY <1>2, <1>3, <1>4, SwapOut
<1> HIDE DEF s
<1>8. t \in Seq(Pipe) /\ Len(t) = Len(pipes) /\ t[(active - 1) + 1] = p
  <2>1. /\ (active - 1) + 1 \in 1 .. Len(pipes) /\ matching - 1 \in 0 .. Len(s) - 1
        /\ active - 1 \in 0 .. Len(s) - 1
    BY <1>2, <1>3, <1>5
  <2> QED BY <1>5, <2>1, SwapIs
<1>9. /\ OneToOne(t)
      /\ \A n \in 0 .. Len(pipes) :
           (matching - 1 < n <=> active - 1 < n) => First(t, n) = First(s, n)
  BY <1>3, <1>5, <1>6, SwapKeeps
<1> HIDE DEF t
<1>10. u \in Seq(Pipe) /\ Len(u) = Len(pipes)
  BY <1>3, <1>8, SwapIs
<1>11. /\ OneToOne(u)
       /\ \A n \in 0 .. Len(pipes) :
            (active - 1 < n <=> eligible - 1 < n) => First(u, n) = First(t, n)
  BY <1>3, <1>8, <1>9, SwapKeeps
<1>12. First(u, eligible - 1) = First(t, eligible) \ {p}
  <2>1. eligible \in 1 .. Len(t) /\ active - 1 \in 0 .. eligible - 1
    BY <1>2, <1>3, <1>8
  <2> QED BY <1>8, <1>9, <2>1, SwapOut
<1> HIDE DEF u
<1>13. First(u, matching - 1) = First(pipes, matching) \ {p}
  <2>1. /\ matching - 1 \in 0 .. Len(pipes) /\ ~(matching - 1 < matching - 1)
        /\ ~(active - 1 < matching - 1) /\ ~(eligible - 1 < matching - 1)
    BY <1>2, <1>3
  <2> QED BY <1>7, <1>9, <1>11, <2>1
<1>14. First(u, eligible - 1) = First(pipes, eligible) \ {p}
  <2>1. /\ eligible \in 0 .. Len(pipes) /\ i < eligible /\ matching - 1 < eligible
        /\ active - 1 < eligible
    BY <1>1, <1>2, <1>3
  <2> QED BY <1>6, <1>9, <1>12, <2>1
<1>15. First(u, Len(pipes)) = First(pipes, Len(pipes))
  <2>1. /\ Len(pipes) \in 0 .. Len(pipes) /\ i < Len(pipes) /\ matching - 1 < Len(pipes)
        /\ active - 1 < Len(pipes) /\ eligible - 1 < Len(pipes)
    BY <1>1, <1>2, <1>3
  <2> QED BY <1>6, <1>9, <1>11, <2>1
<1>16. First(u, i) = First(pipes, i)
  <2>1. /\ i \in 0 .. Len(pipes) /\ ~(i < i) /\ ~(matching - 1 < i)
        /\ ~(active - 1 < i) /\ ~(eligible - 1 < i)
    BY <1>1, <1>2, <1>3
  <2> QED BY <1>6, <1>9, <1>11, <2>1
<1> HIDE DEF p
<1>17. link \in [Pipe -> {"none", "active", "ended"}] /\ out_active \in [Pipe -> BOOLEAN]
  BY <1>1 DEF TypeOK
<1>18. TypeOK'
  <2>1. out_active' \in [Pipe -> BOOLEAN]
    BY <1>1, <1>17, Zenon
  <2> QED BY <1>1, <1>2, <1>3, <1>10, <2>1 DEF TypeOK
<1>19. Array'
  BY <1>1, <1>10, <1>11, <1>15 DEF Array
<1>20. Eligible'
  BY <1>1, <1>4, <1>14, <1>17, Zenon DEF Eligible
<1>21. Activity' /\ Message'
  BY <1>1, <1>2, <1>13 DEF Activity, Message
<1>22. Taken'
  BY <1>1, <1>2, <1>3, <1>16 DEF Taken
<1> QED BY <1>18, <1>19, <1>20, <1>21, <1>22 DEF IInv

(* The last part makes all eligible pipes active. *)
LEMMA SendDoneStep ==
  ASSUME IInv, SendDone
  PROVE  IInv'
<1>1. /\ TypeOK /\ Array /\ Eligible /\ Activity /\ Message /\ Taken
      /\ pc = "distribute" /\ i = matching
      /\ active' = (IF part THEN active ELSE eligible) /\ more' = part
      /\ matching' = (IF matches /\ ~part THEN 0 ELSE matching)
      /\ pc' = "idle"
      /\ UNCHANGED <<matches, pipes, eligible, link, out_active, full, part, i,
                     owners, begun>>
  BY DEF IInv, SendDone
<1>2. matching \in Nat
  BY <1>1 DEF TypeOK
<1>3. TypeOK'
  <2>1. matching' \in 0 .. active' /\ active' \in 0 .. eligible
    BY <1>1, Sizes
  <2> QED BY <1>1, <1>2, <2>1 DEF TypeOK
<1>4. Array' /\ Eligible'
  BY <1>1 DEF Array, Eligible
<1>5. Activity' /\ Message' /\ Taken'
  BY <1>1, <1>2 DEF Activity, Message, Taken
<1> QED BY <1>3, <1>4, <1>5 DEF IInv
-----------------------------------------------------------------------------
(* The regions and the counts of dist_t are right at all times. *)
THEOREM Invariance == Spec => []IInv
<1>1. ASSUME IInv, UNCHANGED vars PROVE IInv'
  BY <1>1 DEF vars, distvars, callvars, IInv, TypeOK, Array, Eligible, Activity, Message,
              Taken
<1>2. ASSUME IInv, Next PROVE IInv'
  BY <1>2, AttachStep, PeerEndsStep, TerminatedStep, ActivatedStep, MatchStep, SendStep,
     WriteOkStep, WriteFailsStep, SendDoneStep, Zenon DEF Next
<1> QED BY IInvInit, <1>1, <1>2, PTL DEF Spec

(* dist_t forgets no pipe: one that can be written to is eligible, and     *)
(* between messages the eligible pipes are active.                         *)
THEOREM NoPipeForgotten == Spec => []EligibleKept
<1>1. IInv => EligibleKept
  BY DEF IInv, Eligible, Activity, EligibleKept
<1> QED BY <1>1, Invariance, PTL

(* A pipe that takes a part of a message took all the parts before, and    *)
(* one that took the first part is sent the others, however pipes come,    *)
(* go, fill up and are activated between the parts.                        *)
THEOREM MessagesAreWhole == Spec => [](WholeMessages /\ NoTailLost)
<1>1. IInv => WholeMessages
  <2> SUFFICES ASSUME IInv, pc = "distribute" PROVE owners \subseteq begun
    BY DEF WholeMessages
  <2>1. owners = First(pipes, i) /\ begun = First(pipes, matching) /\ i <= matching
    BY DEF IInv, Taken, Message
  <2>2. i \in Nat /\ matching \in Nat
    BY Sizes DEF IInv, TypeOK
  <2> QED BY <2>1, <2>2, FirstGrows
<1>2. IInv => NoTailLost
  BY DEF IInv, Message, NoTailLost
<1> QED BY <1>1, <1>2, Invariance, PTL
=============================================================================
