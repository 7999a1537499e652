----------------------------- MODULE MsgProofs ------------------------------
(***************************************************************************)
(* Proofs about module Msg, for any finite set of message structures, any  *)
(* set of contents and any number of copies.  The account kept is that the *)
(* count of a content covers the structures that hold it and the copies    *)
(* distribute has still to write or to give back.                          *)
(***************************************************************************)
EXTENDS Msg, FiniteSetTheorems, TLAPS

(* None is a string, used where there is no structure. *)
Structures == IsFiniteSet(Msg) /\ None \notin Msg

Large == [type : {"lmsg"}, content : Content, shared : BOOLEAN]

Types ==
  /\ msg \in [Msg -> {Invalid, Empty} \cup Large]
  /\ refcnt \in [Content -> Int] /\ mem \in [Content -> {None, "live", "freed"}]
  /\ dist \in Msg \cup {None} /\ left \in Nat /\ failed \in Nat /\ bad \in BOOLEAN

(* distribute works on a large message. *)
Distribution ==
  /\ dist # None => Lmsg(dist)
  /\ dist = None => left = 0 /\ failed = 0

(* The account of c: a content that is not allocated has no references, an *)
(* allocated one has some, or rm_refs took the last ones, and their number *)
(* is the count if the content is shared and one if it is not.             *)
Fine(c) ==
  /\ mem[c] # "live" => References(c) = 0
  /\ mem[c] = "live" /\ References(c) = 0 => refcnt[c] = -1
  /\ \A m \in Msg : Refers(m) /\ msg[m].content = c =>
       References(c) = IF msg[m].shared THEN refcnt[c] ELSE 1

IInv == Structures /\ Types /\ Distribution /\ ~bad /\ \A c \in Content : Fine(c)
-----------------------------------------------------------------------------
(* Large and small structures *)
LEMMA Kinds ==
  ASSUME NEW x \in {Invalid, Empty} \cup Large
  PROVE  /\ x.type = "lmsg" <=> x \in Large
         /\ x \in Large => x.content \in Content /\ x.shared \in BOOLEAN
         /\ x.type = "0" => x \notin Large
         /\ Invalid.type # "lmsg" /\ Empty.type # "lmsg"
BY DEF Invalid, Empty, Large

(* The size of a finite set with one item more or less. *)
LEMMA SizeIs ==
  ASSUME NEW H, IsFiniteSet(H)
  PROVE  /\ Cardinality(H) \in Nat
         /\ \A k : k \in H => Cardinality(H) > 0
         /\ Cardinality(H) > 0 => \E k : k \in H
         /\ \A k : k \notin H => Cardinality(H \cup {k}) = Cardinality(H) + 1
         /\ \A k : k \in H => Cardinality(H \ {k}) = Cardinality(H) - 1
<1>1. Cardinality(H) \in Nat
  BY FS_CardinalityType
<1>2. Cardinality(H) = 0 <=> H = {}
  BY FS_EmptySet
<1>3. ASSUME NEW k, k \notin H PROVE Cardinality(H \cup {k}) = Cardinality(H) + 1
  BY <1>3, FS_AddElement
<1>4. ASSUME NEW k, k \in H PROVE Cardinality(H \ {k}) = Cardinality(H) - 1
  BY <1>4, FS_RemoveElement
<1> QED BY <1>1, <1>2, <1>3, <1>4

(* There are finitely many references, now and after a step. *)
LEMMA Finite ==
  ASSUME Structures, NEW c
  PROVE  IsFiniteSet(Held(c)) /\ IsFiniteSet(Held(c)')
<1>1. Held(c) \subseteq Msg /\ Held(c)' \subseteq Msg
  BY DEF Held
<1> QED BY <1>1, FS_Subset DEF Structures

(* There are finitely many references. *)
LEMMA ReferencesType ==
  ASSUME Structures, Types, NEW c
  PROVE  References(c) \in Nat /\ Cardinality(Held(c)) \in Nat /\ Due(c) \in Nat
<1>1. Cardinality(Held(c)) \in Nat
  BY Finite, SizeIs
<1>2. Due(c) \in Nat
  BY DEF Types, Due
<1> QED BY <1>1, <1>2 DEF References

(* A structure that refers to a content is counted, so that the content is *)
(* allocated.                                                              *)
LEMMA Counted ==
  ASSUME IInv, NEW m \in Msg, Refers(m)
  PROVE  /\ msg[m] \in Large /\ msg[m].content \in Content
         /\ References(msg[m].content) > 0 /\ mem[msg[m].content] = "live"
         /\ References(msg[m].content) = IF msg[m].shared THEN refcnt[msg[m].content] ELSE 1
<1> DEFINE c == msg[m].content
<1>1. msg[m] \in Large /\ c \in Content
  BY Kinds DEF IInv, Types, Refers, Lmsg
<1>2. Structures /\ Types /\ Fine(c)
  BY <1>1 DEF IInv
<1>3. Cardinality(Held(c)) \in Nat /\ Due(c) \in Nat
  BY <1>2, ReferencesType
<1>4. CASE m # dist
  <2>1. m \in Held(c)
    BY <1>4 DEF Held, Refers
  <2>2. Cardinality(Held(c)) > 0
    BY <1>2, <2>1, Finite, SizeIs
  <2> QED BY <1>1, <1>2, <1>3, <2>2 DEF References, Fine
<1>5. CASE m = dist
  <2>1. Due(c) > 0
    BY <1>2, <1>5 DEF Due, Refers, Structures
  <2> QED BY <1>1, <1>2, <1>3, <2>1 DEF References, Fine
<1> QED BY <1>4, <1>5

(* The account of c is kept when nothing of it changes, and who refers to  *)
(* c has the flag of one that did.                                         *)
LEMMA KeepFine ==
  ASSUME NEW c \in Content, Fine(c),
         References(c)' = References(c), mem'[c] = mem[c], refcnt'[c] = refcnt[c],
         \A m \in Msg : (Refers(m) /\ msg[m].content = c)' =>
           \E k \in Msg : Refers(k) /\ msg[k].content = c /\ msg[k].shared = msg'[m].shared
  PROVE  Fine(c)'
BY DEF Fine

(* No content is allocated at first. *)
LEMMA IInvInit == Structures /\ Init => IInv
<1> SUFFICES ASSUME Structures, Init PROVE IInv
  OBVIOUS
<1>1. Types /\ Distribution /\ ~bad
  <2>1. msg \in [Msg -> {Invalid, Empty} \cup Large]
    BY DEF Init
  <2>2. refcnt \in [Content -> Int] /\ mem \in [Content -> {None, "live", "freed"}]
    BY DEF Init
  <2>3. dist = None /\ left = 0 /\ failed = 0 /\ bad = FALSE
    BY DEF Init
  <2>4. Types
    BY <2>1, <2>2, <2>3, Zenon DEF Types
  <2> QED BY <2>3, <2>4 DEF Distribution
<1>2. \A m \in Msg : ~Lmsg(m)
  BY DEF Init, Lmsg, Invalid
<1>3. ASSUME NEW c \in Content PROVE Fine(c)
  <2>1. Held(c) = {} /\ Due(c) = 0
    BY <1>2 DEF Held, Due, Init
  <2>2. References(c) = 0
    BY <2>1, FS_EmptySet DEF References
  <2> QED BY <1>2, <2>2 DEF Fine, Refers, Init, None
<1> QED BY <1>1, <1>3 DEF IInv
-----------------------------------------------------------------------------
(* Steps *)

(* The structure m, not the one being distributed, becomes x. *)
LEMMA Replace ==
  ASSUME Structures, Types, NEW m \in Msg, NEW x \in {Invalid, Empty} \cup Large,
         msg' = [msg EXCEPT ![m] = x], dist' = dist, m # dist, NEW d
  PROVE  /\ Held(d)' = (Held(d) \ {m}) \cup (IF x.type = "lmsg" /\ x.content = d THEN {m} ELSE {})
         /\ left' + failed' = left + failed => Due(d)' = Due(d)
         /\ \A k \in Msg : msg'[k] = IF k = m THEN x ELSE msg[k]
         /\ msg' \in [Msg -> {Invalid, Empty} \cup Large]
         /\ dist # None => msg'[dist] = msg[dist]
<1>1. msg \in [Msg -> {Invalid, Empty} \cup Large] /\ dist \in Msg \cup {None}
  BY DEF Types
<1>2. \A k \in Msg : msg'[k] = IF k = m THEN x ELSE msg[k]
  BY <1>1
<1>3. Held(d)' = (Held(d) \ {m}) \cup (IF x.type = "lmsg" /\ x.content = d THEN {m} ELSE {})
  BY <1>2 DEF Held, Lmsg
<1>4. dist # None => msg'[dist] = msg[dist]
  BY <1>1, <1>2
<1> QED BY <1>1, <1>2, <1>3, <1>4 DEF Due

(* close of a large message takes one reference off, and frees the content *)
(* with the last.                                                          *)
LEMMA DropIs ==
  ASSUME IInv, NEW m \in Msg, m # dist, Lmsg(m), Drop(msg[m])
  PROVE  LET c == msg[m].content
         IN  /\ c \in Content /\ References(c) \in Nat \ {0} /\ mem[c] = "live"
             /\ refcnt' = [refcnt EXCEPT ![c] = References(c) - 1]
             /\ mem' = IF References(c) = 1 THEN [mem EXCEPT ![c] = "freed"] ELSE mem
             /\ bad' = bad
<1> DEFINE c == msg[m].content
           n == IF msg[m].shared THEN refcnt[c] - 1 ELSE 0
<1>1. Refers(m)
  BY DEF Refers
<1>2. /\ c \in Content /\ References(c) > 0 /\ mem[c] = "live"
      /\ References(c) = IF msg[m].shared THEN refcnt[c] ELSE 1
  BY <1>1, Counted
<1>3. References(c) \in Nat
  BY ReferencesType DEF IInv
<1>4. n = References(c) - 1
  BY <1>2, <1>3
<1>5. /\ refcnt' = [refcnt EXCEPT ![c] = n]
      /\ mem' = (IF n = 0 THEN [mem EXCEPT ![c] = "freed"] ELSE mem)
      /\ bad' = (bad \/ mem[c] # "live")
  BY DEF Drop, Lmsg
<1>6. bad \in BOOLEAN
  BY DEF IInv, Types
<1> HIDE DEF n, c
<1>7. n = 0 <=> References(c) = 1
  BY <1>3, <1>4
<1>8. bad' = bad
  BY <1>2, <1>5, <1>6
<1>9. /\ c \in Content /\ References(c) \in Nat \ {0} /\ mem[c] = "live"
      /\ refcnt' = [refcnt EXCEPT ![c] = References(c) - 1]
      /\ mem' = IF References(c) = 1 THEN [mem EXCEPT ![c] = "freed"] ELSE mem
  BY <1>2, <1>3, <1>4, <1>5, <1>7
<1> QED BY <1>8, <1>9 DEF c

(* The account after one reference was taken off: the content is freed, or *)
(* it was shared and those left agree with the count.                      *)
LEMMA FineAfterDrop ==
  ASSUME NEW c \in Content, Structures, Fine(c), mem[c] = "live",
         References(c) \in Nat \ {0}, References(c)' = References(c) - 1,
         refcnt'[c] = References(c) - 1,
         mem'[c] = (IF References(c) = 1 THEN "freed" ELSE mem[c]),
         \A m \in Msg : (Refers(m) /\ msg[m].content = c)' =>
           /\ References(c)' > 0
           /\ \E k \in Msg : Refers(k) /\ msg[k].content = c /\ msg[k].shared = msg'[m].shared
  PROVE  Fine(c)'
BY DEF Fine

(* A reference after the step is counted. *)
LEMMA CountedNext ==
  ASSUME Structures, NEW c, NEW m \in Msg, Refers(m)', msg'[m].content = c,
         left' \in Nat, failed' \in Nat
  PROVE  References(c)' > 0
<1>1. IsFiniteSet(Held(c)') /\ Cardinality(Held(c)') \in Nat /\ Due(c)' \in Nat
  <2>1. IsFiniteSet(Held(c)')
    BY Finite
  <2>2. Due(c)' \in Nat
    <3>1. \A a, b \in Nat : a + b \in Nat
      BY ONLY TRUE
    <3>2. left' + failed' \in Nat /\ 0 \in Nat
      BY <3>1, Zenon
    <3>3. Due(c)' = left' + failed' \/ Due(c)' = 0
      BY Zenon DEF Due
    <3> QED BY ONLY <3>2, <3>3
  <2> QED BY <2>1, <2>2, SizeIs
<1>2. CASE m # dist'
  <2>1. m \in Held(c)'
    BY <1>2 DEF Held, Refers
  <2>2. Cardinality(Held(c)') > 0
    BY <1>1, <2>1, SizeIs
  <2> QED BY <1>1, <2>2 DEF References
<1>3. CASE m = dist'
  <2>1. Due(c)' > 0
    BY <1>3, Zenon DEF Due, Refers, Structures
  <2> QED BY <1>1, <2>1 DEF References
<1> QED BY <1>2, <1>3

(* init and init_size begin a message, the latter with new content. *)
LEMMA InitMessage ==
  ASSUME IInv, NEW m \in Msg, init(m) \/ init_size(m)
  PROVE  IInv'
<1>1. Structures /\ Types /\ Distribution /\ ~bad /\ \A c \in Content : Fine(c)
  BY DEF IInv
<1>2. /\ ~Lmsg(m) /\ ~check(m) /\ m # dist
      /\ UNCHANGED <<refcnt, dist, left, failed, bad>>
  BY <1>1 DEF init, init_size, check, Lmsg, Distribution, Structures
<1>3. CASE init(m)
  <2>1. msg' = [msg EXCEPT ![m] = Empty] /\ mem' = mem
    BY <1>3 DEF init
  <2>2. Empty \in {Invalid, Empty} \cup Large /\ Empty.type # "lmsg"
    BY DEF Empty
  <2>3. /\ \A k \in Msg : msg'[k] = IF k = m THEN Empty ELSE msg[k]
        /\ msg' \in [Msg -> {Invalid, Empty} \cup Large]
        /\ dist # None => msg'[dist] = msg[dist]
    BY <1>1, <1>2, <2>1, <2>2, Replace, Zenon
  <2>4. ASSUME NEW d \in Content PROVE Fine(d)'
    <3>1. Held(d)' = Held(d) /\ Due(d)' = Due(d)
      <4>1. m \notin Held(d)
        BY <1>2 DEF Held
      <4>2. Held(d)' = (Held(d) \ {m}) \cup {} /\ Due(d)' = Due(d)
        BY <1>1, <1>2, <2>1, <2>2, Replace, Zenon
      <4> QED BY <4>1, <4>2
    <3>2. \A k \in Msg : Refers(k)' => k # m /\ Refers(k) /\ msg'[k] = msg[k]
      BY <1>2, <2>2, <2>3 DEF Refers, Lmsg
    <3> QED BY <1>1, <1>2, <2>1, <3>1, <3>2, KeepFine DEF References
  <2>5. Types' /\ Distribution'
    BY <1>1, <1>2, <2>1, <2>3 DEF Types, Distribution, Lmsg
  <2> QED BY <1>1, <1>2, <2>4, <2>5 DEF IInv, Structures
<1>4. CASE init_size(m)
  <2>1. PICK c \in Content :
          /\ mem[c] = None /\ mem' = [mem EXCEPT ![c] = "live"]
          /\ msg' = [msg EXCEPT ![m] = [type |-> "lmsg", content |-> c, shared |-> FALSE]]
    BY <1>4, Zenon DEF init_size
  <2> DEFINE x == [type |-> "lmsg", content |-> c, shared |-> FALSE]
  <2>2. x \in {Invalid, Empty} \cup Large /\ x.type = "lmsg" /\ x.content = c /\ x.shared = FALSE
    BY DEF Large
  <2> HIDE DEF x
  <2>3. /\ \A k \in Msg : msg'[k] = IF k = m THEN x ELSE msg[k]
        /\ msg' \in [Msg -> {Invalid, Empty} \cup Large]
        /\ dist # None => msg'[dist] = msg[dist]
    BY <1>1, <1>2, <2>1, <2>2, Replace, Zenon DEF x
  <2>4. mem \in [Content -> {None, "live", "freed"}] /\ None # "live"
    BY <1>1 DEF Types, None
  <2>5. ASSUME NEW d \in Content PROVE Fine(d)'
    <3>1. /\ Held(d)' = (Held(d) \ {m}) \cup (IF x.type = "lmsg" /\ x.content = d THEN {m} ELSE {})
          /\ Due(d)' = Due(d)
      BY <1>1, <1>2, <2>1, <2>2, Replace, Zenon DEF x
    <3>2. m \notin Held(d)
      BY <1>2 DEF Held
    <3>3. CASE d = c
      <4>1. Held(d)' = Held(d) \cup {m}
        BY <2>2, <3>1, <3>2, <3>3
      <4>2. References(d) = 0 /\ Cardinality(Held(d)) \in Nat /\ Due(d) \in Nat
        BY <1>1, <2>1, <2>4, <3>3, ReferencesType DEF Fine
      <4>3. Cardinality(Held(d)') = Cardinality(Held(d)) + 1
        BY <1>1, <3>2, <4>1, Finite, SizeIs
      <4>4. References(d)' = 1
        BY <3>1, <4>2, <4>3 DEF References
      <4>5. ASSUME NEW k \in Msg, (Refers(k) /\ msg[k].content = d)' PROVE ~msg'[k].shared
        <5>1. CASE k = m
          BY <2>2, <2>3, <5>1
        <5>2. CASE k # m
          <6>1. Refers(k) /\ msg[k].content = d
            BY <1>2, <2>3, <4>5, <5>2 DEF Refers, Lmsg
          <6> QED BY <2>1, <2>4, <3>3, <6>1, Counted
        <5> QED BY <5>1, <5>2
      <4>6. mem'[d] = "live"
        BY <2>1, <2>4, <3>3
      <4> QED BY <4>4, <4>5, <4>6 DEF Fine
    <3>4. CASE d # c
      <4>1. Held(d)' = Held(d)
        BY <2>2, <3>1, <3>2, <3>4
      <4>2. \A k \in Msg : (Refers(k) /\ msg[k].content = d)' => Refers(k) /\ msg'[k] = msg[k]
        BY <1>2, <2>2, <2>3, <3>4 DEF Refers, Lmsg
      <4>3. mem'[d] = mem[d]
        BY <2>1, <2>4, <3>4
      <4> QED BY <1>1, <1>2, <3>1, <4>1, <4>2, <4>3, KeepFine DEF References
    <3> QED BY <3>3, <3>4
  <2>6. Types' /\ Distribution'
    BY <1>1, <1>2, <2>1, <2>3 DEF Types, Distribution, Lmsg
  <2> QED BY <1>1, <1>2, <2>5, <2>6 DEF IInv, Structures
<1> QED BY <1>3, <1>4

(* close frees the content with the last reference. *)
LEMMA CloseStep ==
  ASSUME IInv, NEW m \in Msg, close(m)
  PROVE  IInv'
<1>1. Structures /\ Types /\ Distribution /\ ~bad /\ \A c \in Content : Fine(c)
  BY DEF IInv
<1>2. /\ m # dist /\ Drop(msg[m]) /\ msg' = [msg EXCEPT ![m] = Invalid]
      /\ UNCHANGED <<dist, left, failed>>
  BY DEF close
<1>3. Invalid \in {Invalid, Empty} \cup Large /\ Invalid.type # "lmsg"
  BY DEF Invalid
<1>4. /\ \A k \in Msg : msg'[k] = IF k = m THEN Invalid ELSE msg[k]
      /\ msg' \in [Msg -> {Invalid, Empty} \cup Large]
      /\ dist # None => msg'[dist] = msg[dist]
  BY <1>1, <1>2, <1>3, Replace, Zenon
<1>5. ASSUME NEW d PROVE Held(d)' = Held(d) \ {m} /\ Due(d)' = Due(d)
  <2>1. Held(d)' = (Held(d) \ {m}) \cup {} /\ Due(d)' = Due(d)
    BY <1>1, <1>2, <1>3, Replace, Zenon
  <2> QED BY <2>1
<1>6. \A k \in Msg : Refers(k)' => k # m /\ Refers(k) /\ msg'[k] = msg[k]
  BY <1>2, <1>3, <1>4 DEF Refers, Lmsg
<1>7. /\ refcnt \in [Content -> Int] /\ mem \in [Content -> {None, "live", "freed"}]
      /\ left' \in Nat /\ failed' \in Nat
  BY <1>1, <1>2 DEF Types
<1>8. CASE ~Lmsg(m)
  <2>1. UNCHANGED <<refcnt, mem, bad>>
    BY <1>2, <1>8 DEF Drop, Lmsg
  <2>2. ASSUME NEW d \in Content PROVE Fine(d)'
    <3>1. Held(d)' = Held(d)
      BY <1>5, <1>8 DEF Held
    <3> QED BY <1>1, <1>2, <1>5, <1>6, <2>1, <3>1, KeepFine DEF References
  <2>3. Types' /\ Distribution'
    BY <1>1, <1>2, <1>4, <2>1 DEF Types, Distribution, Lmsg
  <2> QED BY <1>1, <2>1, <2>2, <2>3 DEF IInv, Structures
<1>9. CASE Lmsg(m)
  <2> DEFINE c == msg[m].content
  <2>1. /\ c \in Content /\ References(c) \in Nat \ {0} /\ mem[c] = "live"
        /\ refcnt' = [refcnt EXCEPT ![c] = References(c) - 1]
        /\ mem' = IF References(c) = 1 THEN [mem EXCEPT ![c] = "freed"] ELSE mem
        /\ bad' = bad
    BY <1>2, <1>9, DropIs
  <2>2. \A d : m \in Held(d) <=> d = c
    BY <1>2, <1>9 DEF Held
  <2> HIDE DEF c
  <2>3. ASSUME NEW d \in Content PROVE Fine(d)'
    <3>1. CASE d = c
      <4>1. Cardinality(Held(d)') = Cardinality(Held(d)) - 1 /\ Cardinality(Held(d)) \in Nat
        BY <1>1, <1>5, <2>2, <3>1, Finite, SizeIs
      <4>2. References(d)' = References(d) - 1
        BY <1>1, <1>5, <4>1, ReferencesType DEF References
      <4>3. ASSUME NEW k \in Msg, (Refers(k) /\ msg[k].content = d)'
            PROVE  /\ References(d)' > 0
                   /\ Refers(k) /\ msg[k].content = d /\ msg[k].shared = msg'[k].shared
        BY <1>1, <1>6, <1>7, <4>3, CountedNext
      <4>4. /\ refcnt'[d] = References(d) - 1
            /\ mem'[d] = (IF References(d) = 1 THEN "freed" ELSE mem[d])
        BY <1>7, <2>1, <3>1
      <4> QED BY <1>1, <1>2, <2>1, <3>1, <4>2, <4>3, <4>4, FineAfterDrop
    <3>2. CASE d # c
      <4>1. Held(d)' = Held(d)
        BY <1>5, <2>2, <3>2
      <4>2. refcnt'[d] = refcnt[d] /\ mem'[d] = mem[d]
        BY <1>7, <2>1, <3>2
      <4> QED BY <1>1, <1>2, <1>5, <1>6, <4>1, <4>2, KeepFine DEF References
    <3> QED BY <3>1, <3>2
  <2>4. refcnt' \in [Content -> Int] /\ mem' \in [Content -> {None, "live", "freed"}]
    BY <1>7, <2>1
  <2>5. Types' /\ Distribution'
    BY <1>1, <1>2, <1>4, <2>1, <2>4 DEF Types, Distribution, Lmsg
  <2> QED BY <1>1, <2>1, <2>3, <2>5 DEF IInv, Structures
<1> QED BY <1>8, <1>9

(* distribute gives a copy to a pipe. *)
LEMMA PushStep ==
  ASSUME IInv, NEW m \in Msg, Push(m)
  PROVE  IInv'
<1>1. Structures /\ Types /\ Distribution /\ ~bad /\ \A c \in Content : Fine(c)
  BY DEF IInv
<1>2. /\ dist # None /\ left > 0 /\ ~check(m) /\ msg' = [msg EXCEPT ![m] = msg[dist]]
      /\ left' = left - 1 /\ UNCHANGED <<refcnt, mem, dist, failed, bad>>
  BY DEF Push
<1>3. /\ dist \in Msg /\ Lmsg(dist) /\ m # dist /\ ~Lmsg(m) /\ left \in Nat /\ failed \in Nat
      /\ msg[dist] \in {Invalid, Empty} \cup Large /\ Refers(dist)
  BY <1>1, <1>2 DEF Types, Distribution, check, Lmsg, Refers
<1> DEFINE c == msg[dist].content
<1>4. /\ \A k \in Msg : msg'[k] = IF k = m THEN msg[dist] ELSE msg[k]
      /\ msg' \in [Msg -> {Invalid, Empty} \cup Large]
      /\ msg'[dist] = msg[dist]
  BY <1>1, <1>2, <1>3, Replace, Zenon
<1>5. ASSUME NEW d \in Content
      PROVE  References(d)' = References(d)
  <2>1. m \notin Held(d)
    BY <1>3 DEF Held
  <2>2. Held(d)' = (Held(d) \ {m}) \cup (IF c = d THEN {m} ELSE {})
    BY <1>1, <1>2, <1>3, Replace, Zenon DEF Lmsg
  <2>3. Cardinality(Held(d)) \in Nat
    BY <1>1, ReferencesType
  <2>4. CASE c = d
    <3>1. Cardinality(Held(d)') = Cardinality(Held(d)) + 1
      <4>1. Held(d)' = Held(d) \cup {m}
        BY <2>1, <2>2, <2>4
      <4> QED BY <1>1, <2>1, <4>1, Finite, SizeIs
    <3>2. Due(d) = left + failed /\ Due(d)' = (left - 1) + failed
      BY <1>2, <1>4, <2>4 DEF Due
    <3> QED BY <1>3, <2>3, <3>1, <3>2 DEF References
  <2>5. CASE c # d
    <3>1. Held(d)' = Held(d)
      BY <2>1, <2>2, <2>5
    <3>2. Due(d) = 0 /\ Due(d)' = 0
      BY <1>2, <1>4, <2>5 DEF Due
    <3> QED BY <3>1, <3>2 DEF References
  <2> QED BY <2>4, <2>5
<1>6. ASSUME NEW d \in Content PROVE Fine(d)'
  <2>1. ASSUME NEW k \in Msg, (Refers(k) /\ msg[k].content = d)'
        PROVE  \E l \in Msg : Refers(l) /\ msg[l].content = d /\ msg[l].shared = msg'[k].shared
    <3>1. CASE k = m \/ k = dist
      <4>1. msg'[k] = msg[dist]
        BY <1>4, <3>1
      <4> QED BY <1>3, <2>1, <4>1
    <3>2. CASE k # m /\ k # dist
      <4>1. Refers(k) /\ msg'[k] = msg[k]
        BY <1>2, <1>4, <2>1, <3>2 DEF Refers, Lmsg
      <4> QED BY <2>1, <4>1
    <3> QED BY <3>1, <3>2
  <2> QED BY <1>1, <1>2, <1>5, <2>1, KeepFine
<1>7. Types' /\ Distribution'
  <2>1. left' \in Nat
    BY <1>2, <1>3
  <2> QED BY <1>1, <1>2, <1>3, <1>4, <2>1 DEF Types, Distribution, Lmsg
<1> QED BY <1>1, <1>2, <1>6, <1>7 DEF IInv, Structures

(* A pipe refuses a copy. *)
LEMMA PushFailsStep ==
  ASSUME IInv, PushFails
  PROVE  IInv'
<1>1. Structures /\ Types /\ Distribution /\ ~bad /\ \A c \in Content : Fine(c)
  BY DEF IInv
<1>2. /\ dist # None /\ left > 0 /\ left' = left - 1 /\ failed' = failed + 1
      /\ UNCHANGED <<msg, refcnt, mem, dist, bad>> /\ left \in Nat /\ failed \in Nat
  BY <1>1 DEF PushFails, Types
<1>3. left' + failed' = left + failed /\ left' \in Nat /\ failed' \in Nat
  BY <1>2
<1>4. ASSUME NEW d \in Content PROVE Fine(d)'
  <2>1. Held(d)' = Held(d) /\ Due(d)' = Due(d)
    BY <1>2, <1>3 DEF Held, Due, Lmsg
  <2>2. \A k \in Msg : Refers(k)' <=> Refers(k)
    BY <1>2, <1>3 DEF Refers, Lmsg
  <2> QED BY <1>1, <1>2, <2>1, <2>2, KeepFine DEF References
<1>5. Types' /\ Distribution'
  BY <1>1, <1>2, <1>3 DEF Types, Distribution, Lmsg
<1> QED BY <1>1, <1>2, <1>4, <1>5 DEF IInv, Structures

(* Two structures that refer to one content both know that it is shared. *)
LEMMA TwoRefer ==
  ASSUME IInv, NEW m \in Msg, NEW k \in Msg, m # k, m # dist, Refers(m), Refers(k),
         msg[k].content = msg[m].content
  PROVE  msg[m].shared /\ msg[k].shared
<1> DEFINE c == msg[m].content
<1>1. Structures /\ Types
  BY DEF IInv
<1>2. m \in Held(c) /\ IsFiniteSet(Held(c))
  BY <1>1, Finite, Zenon DEF Held, Refers
<1>3. Cardinality(Held(c)) \in Nat /\ Due(c) \in Nat
  BY <1>1, ReferencesType
<1>4. References(c) > 1
  <2>1. CASE k # dist
    <3>1. k \in Held(c) \ {m}
      BY <2>1 DEF Held, Refers
    <3>2. IsFiniteSet(Held(c) \ {m}) /\ Cardinality(Held(c) \ {m}) = Cardinality(Held(c)) - 1
      BY <1>2, FS_RemoveElement
    <3>3. Cardinality(Held(c) \ {m}) > 0
      BY <3>1, <3>2, SizeIs
    <3> QED BY <1>3, <3>2, <3>3 DEF References
  <2>2. CASE k = dist
    <3>1. Due(c) > 0
      BY <1>1, <2>2 DEF Due, Refers, Structures
    <3>2. Cardinality(Held(c)) > 0
      BY <1>2, SizeIs
    <3> QED BY <1>3, <3>1, <3>2 DEF References
  <2> QED BY <2>1, <2>2
<1>5. /\ References(c) = IF msg[m].shared THEN refcnt[c] ELSE 1
      /\ References(c) = IF msg[k].shared THEN refcnt[c] ELSE 1
  BY Counted
<1> QED BY <1>4, <1>5

(* copy takes one more reference. *)
LEMMA CopyStep ==
  ASSUME IInv, NEW m \in Msg, NEW src \in Msg, copy(m, src)
  PROVE  IInv'
<1>1. Structures /\ Types /\ Distribution /\ ~bad /\ \A c \in Content : Fine(c)
  BY DEF IInv
<1>2. /\ m # src /\ ~Lmsg(m) /\ m # dist /\ src # dist
      /\ UNCHANGED <<mem, dist, left, failed>>
  BY DEF copy
<1>3. /\ msg \in [Msg -> {Invalid, Empty} \cup Large] /\ refcnt \in [Content -> Int]
      /\ dist \in Msg \cup {None} /\ left \in Nat /\ failed \in Nat
  BY <1>1 DEF Types
<1>4. CASE ~Lmsg(src)
  <2>1. msg' = [msg EXCEPT ![m] = msg[src]] /\ UNCHANGED <<refcnt, bad>>
    BY <1>4 DEF copy
  <2>2. \A k \in Msg : msg'[k] = IF k = m THEN msg[src] ELSE msg[k]
    BY <1>3, <2>1
  <2>3. dist # None => msg'[dist] = msg[dist]
    BY <1>2, <1>3, <2>2
  <2>4. \A k \in Msg : Refers(k)' => Refers(k) /\ msg'[k] = msg[k]
    BY <1>2, <1>4, <2>2 DEF Refers, Lmsg
  <2>5. ASSUME NEW d \in Content PROVE Fine(d)'
    <3>1. Held(d)' = Held(d)
      BY <1>2, <1>4, <2>2 DEF Held, Lmsg
    <3>2. Due(d)' = Due(d)
      BY <1>2, <2>3 DEF Due
    <3> QED BY <1>1, <1>2, <2>1, <2>4, <3>1, <3>2, KeepFine DEF References
  <2>6. msg' \in [Msg -> {Invalid, Empty} \cup Large]
    BY <1>3, <2>1
  <2>7. Types' /\ Distribution'
    BY <1>1, <1>2, <2>1, <2>3, <2>6 DEF Types, Distribution, Lmsg
  <2> QED BY <1>1, <2>1, <2>5, <2>7 DEF IInv, Structures
<1>5. CASE Lmsg(src)
  <2> DEFINE c == msg[src].content
             y == [msg[src] EXCEPT !.shared = TRUE]
  <2>1. /\ refcnt' = [refcnt EXCEPT ![c] = Share(refcnt[c], msg[src])]
        /\ bad' = (bad \/ mem[c] # "live")
        /\ msg' = [msg EXCEPT ![m] = y, ![src].shared = TRUE]
    BY <1>5 DEF copy
  <2>2. /\ c \in Content /\ mem[c] = "live" /\ msg[src] \in Large /\ Refers(src)
        /\ References(c) = IF msg[src].shared THEN refcnt[c] ELSE 1
    <3>1. Refers(src)
      BY <1>2, <1>5 DEF Refers
    <3> QED BY <3>1, Counted
  <2>3. y \in Large /\ y.type = "lmsg" /\ y.content = c /\ y.shared = TRUE
    BY <2>2, Zenon DEF Large
  <2>4. \A k \in Msg : msg'[k] = IF k = m \/ k = src THEN y ELSE msg[k]
    BY <1>2, <1>3, <2>1, Zenon
  <2> HIDE DEF y
  <2>5. dist # None => msg'[dist] = msg[dist]
    BY <1>2, <1>3, <2>4
  <2>6. References(c) \in Nat /\ refcnt'[c] = References(c) + 1
    <3>1. References(c) \in Nat
      BY <1>1, ReferencesType
    <3>2. refcnt'[c] = Share(refcnt[c], msg[src])
      BY <1>3, <2>1, <2>2
    <3> QED BY <2>2, <3>1, <3>2 DEF Share
  <2>7. \A d : src \in Held(d) <=> d = c
    BY <1>2, <1>5 DEF Held
  <2> HIDE DEF c
  <2>8. ASSUME NEW d \in Content PROVE Fine(d)'
    <3>1. Due(d)' = Due(d) /\ m \notin Held(d)
      BY <1>2, <2>5 DEF Due, Held
    <3>2. CASE d = c
      <4>1. Held(d)' = Held(d) \cup {m}
        BY <1>2, <2>3, <2>4, <2>7, <3>2 DEF Held, Lmsg
      <4>2. Cardinality(Held(d)') = Cardinality(Held(d)) + 1 /\ Cardinality(Held(d)) \in Nat
        BY <1>1, <3>1, <4>1, Finite, SizeIs
      <4>3. References(d)' = References(d) + 1
        BY <1>1, <3>1, <4>2, ReferencesType DEF References
      <4>4. ASSUME NEW k \in Msg, (Refers(k) /\ msg[k].content = d)' PROVE msg'[k].shared
        <5>1. CASE k = m \/ k = src
          BY <2>3, <2>4, <5>1
        <5>2. CASE k # m /\ k # src
          <6>1. msg'[k] = msg[k] /\ Refers(k) /\ msg[k].content = msg[src].content
            BY <1>2, <2>4, <3>2, <4>4, <5>2 DEF Refers, Lmsg, c
          <6> QED BY <1>2, <2>2, <5>2, <6>1, TwoRefer
        <5> QED BY <5>1, <5>2
      <4> QED BY <1>2, <2>2, <2>6, <3>2, <4>3, <4>4 DEF Fine
    <3>3. CASE d # c
      <4>1. Held(d)' = Held(d)
        BY <1>2, <2>3, <2>4, <2>7, <3>3 DEF Held, Lmsg
      <4>2. \A k \in Msg : (Refers(k) /\ msg[k].content = d)' => Refers(k) /\ msg'[k] = msg[k]
        BY <1>2, <2>3, <2>4, <3>3 DEF Refers, Lmsg
      <4>3. refcnt'[d] = refcnt[d]
        BY <1>3, <2>1, <3>3
      <4> QED BY <1>1, <1>2, <3>1, <4>1, <4>2, <4>3, KeepFine DEF References
    <3> QED BY <3>2, <3>3
  <2>9. msg' \in [Msg -> {Invalid, Empty} \cup Large]
    <3>1. msg' = [k \in Msg |-> msg'[k]]
      BY <1>3, <2>1, Zenon
    <3>2. \A k \in Msg : msg'[k] \in {Invalid, Empty} \cup Large
      BY <1>3, <2>3, <2>4
    <3> QED BY ONLY <3>1, <3>2
  <2>10. refcnt' \in [Content -> Int]
    BY <1>3, <2>1, <2>2 DEF Share
  <2>11. bad' = bad
    BY <1>1, <2>1, <2>2 DEF Types, c
  <2>12. Types' /\ Distribution'
    BY <1>1, <1>2, <2>5, <2>9, <2>10, <2>11 DEF Types, Distribution, Lmsg
  <2> QED BY <1>1, <2>8, <2>11, <2>12 DEF IInv, Structures
<1> QED BY <1>4, <1>5

(* move hands the reference over. *)
LEMMA MoveStep ==
  ASSUME IInv, NEW m \in Msg, NEW src \in Msg, move(m, src)
  PROVE  IInv'
<1> DEFINE x == msg[src]
<1>1. Structures /\ Types /\ Distribution /\ ~bad /\ \A c \in Content : Fine(c)
  BY DEF IInv
<1>2. /\ m # src /\ m # dist /\ src # dist /\ Drop(msg[m])
      /\ msg' = [msg EXCEPT ![m] = x, ![src] = Empty]
      /\ UNCHANGED <<dist, left, failed>>
  BY DEF move
<1>3. /\ msg \in [Msg -> {Invalid, Empty} \cup Large] /\ refcnt \in [Content -> Int]
      /\ mem \in [Content -> {None, "live", "freed"}]
      /\ dist \in Msg \cup {None} /\ left' \in Nat /\ failed' \in Nat
  BY <1>1, <1>2 DEF Types
<1>4. /\ \A k \in Msg : msg'[k] = IF k = src THEN Empty ELSE IF k = m THEN x ELSE msg[k]
      /\ msg' \in [Msg -> {Invalid, Empty} \cup Large]
  BY <1>2, <1>3
<1>5. Empty.type # "lmsg"
  BY DEF Empty
<1>6. dist # None => msg'[dist] = msg[dist]
  BY <1>2, <1>3, <1>4
<1>7. ASSUME NEW k \in Msg, Refers(k)'
      PROVE  \E l \in Msg : Refers(l) /\ msg[l] = msg'[k]
  <2>1. CASE k = m
    <3>1. Refers(src) /\ msg'[k] = msg[src]
      BY <1>2, <1>4, <1>7, <2>1 DEF Refers, Lmsg
    <3> QED BY <3>1
  <2>2. CASE k # m
    <3>1. Refers(k) /\ msg'[k] = msg[k]
      BY <1>2, <1>4, <1>5, <1>7, <2>2 DEF Refers, Lmsg
    <3> QED BY <3>1
  <2> QED BY <2>1, <2>2
(* The content of the source keeps its number of references, that of the   *)
(* target loses one.                                                       *)
<1>8. ASSUME NEW d
      PROVE  /\ Due(d)' = Due(d)
             /\ Cardinality(Held(d)) \in Nat
             /\ Cardinality(Held(d)') = IF m \in Held(d) THEN Cardinality(Held(d)) - 1
                                                         ELSE Cardinality(Held(d))
  <2> DEFINE H == Held(d)
  <2>1. Due(d)' = Due(d)
    BY <1>2, <1>6 DEF Due
  <2>2. IsFiniteSet(H) /\ Cardinality(H) \in Nat
    BY <1>1, Finite, SizeIs
  <2>3. src \in H <=> x.type = "lmsg" /\ x.content = d
    BY <1>2 DEF Held, Lmsg
  <2>4. Held(d)' = (H \ {m, src}) \cup (IF src \in H THEN {m} ELSE {})
    <3>1. \A k \in Msg : k \in Held(d)' <=>
            (k = m /\ src \in H) \/ (k # m /\ k # src /\ k \in H)
      BY <1>2, <1>4, <1>5, <2>3 DEF Held, Lmsg
    <3>2. Held(d)' \subseteq Msg /\ H \subseteq Msg
      BY DEF Held
    <3> QED BY <3>1, <3>2
  <2> HIDE DEF H
  <2>5. CASE src \in H /\ m \in H
    <3>1. Held(d)' = H \ {src}
      BY <1>2, <2>4, <2>5
    <3> QED BY <2>1, <2>2, <2>5, <3>1, SizeIs DEF H
  <2>6. CASE src \in H /\ m \notin H
    <3>1. Held(d)' = (H \ {src}) \cup {m} /\ m \notin H \ {src}
      BY <2>4, <2>6
    <3>2. IsFiniteSet(H \ {src}) /\ Cardinality(H \ {src}) = Cardinality(H) - 1
      BY <2>2, <2>6, FS_RemoveElement
    <3>3. Cardinality(Held(d)') = Cardinality(H \ {src}) + 1
      BY <3>1, <3>2, FS_AddElement
    <3> QED BY <2>1, <2>2, <2>6, <3>2, <3>3 DEF H
  <2>7. CASE src \notin H /\ m \in H
    <3>1. Held(d)' = H \ {m}
      BY <2>4, <2>7
    <3> QED BY <2>1, <2>2, <2>7, <3>1, SizeIs DEF H
  <2>8. CASE src \notin H /\ m \notin H
    <3>1. Held(d)' = H
      BY <2>4, <2>8
    <3> QED BY <2>1, <2>2, <2>8, <3>1 DEF H
  <2> QED BY <2>5, <2>6, <2>7, <2>8
<1>9. CASE ~Lmsg(m)
  <2>1. UNCHANGED <<refcnt, mem, bad>>
    BY <1>2, <1>9 DEF Drop, Lmsg
  <2>2. ASSUME NEW d \in Content PROVE Fine(d)'
    <3>1. m \notin Held(d)
      BY <1>9 DEF Held
    <3>2. References(d)' = References(d)
      BY <1>8, <3>1 DEF References
    <3> QED BY <1>1, <1>2, <1>7, <2>1, <3>2, KeepFine, ZenonT(40)
  <2>3. Types' /\ Distribution'
    BY <1>1, <1>2, <1>4, <1>6, <2>1 DEF Types, Distribution, Lmsg
  <2> QED BY <1>1, <2>1, <2>2, <2>3 DEF IInv, Structures
<1>10. CASE Lmsg(m)
  <2> DEFINE c == msg[m].content
  <2>1. /\ c \in Content /\ References(c) \in Nat \ {0} /\ mem[c] = "live"
        /\ refcnt' = [refcnt EXCEPT ![c] = References(c) - 1]
        /\ mem' = IF References(c) = 1 THEN [mem EXCEPT ![c] = "freed"] ELSE mem
        /\ bad' = bad
    BY <1>2, <1>10, DropIs
  <2>2. \A d : m \in Held(d) <=> d = c
    BY <1>2, <1>10 DEF Held
  <2> HIDE DEF c
  <2>3. ASSUME NEW d \in Content PROVE Fine(d)'
    <3>1. CASE d = c
      <4>1. References(d)' = References(d) - 1
        <5>1. Cardinality(Held(d)') = Cardinality(Held(d)) - 1 /\ Due(d)' = Due(d)
          BY <1>8, <2>2, <3>1
        <5> QED BY <1>1, <5>1, ReferencesType DEF References
      <4>2. ASSUME NEW k \in Msg, (Refers(k) /\ msg[k].content = d)'
            PROVE  /\ References(d)' > 0
                   /\ \E l \in Msg : /\ Refers(l) /\ msg[l].content = d
                                     /\ msg[l].shared = msg'[k].shared
        BY <1>1, <1>3, <1>7, <4>2, CountedNext
      <4>3. /\ refcnt'[d] = References(d) - 1
            /\ mem'[d] = (IF References(d) = 1 THEN "freed" ELSE mem[d])
        BY <1>3, <2>1, <3>1
      <4> QED BY <1>1, <1>2, <2>1, <3>1, <4>1, <4>2, <4>3, FineAfterDrop, Zenon
    <3>2. CASE d # c
      <4>1. References(d)' = References(d)
        BY <1>8, <2>2, <3>2 DEF References
      <4>2. refcnt'[d] = refcnt[d] /\ mem'[d] = mem[d]
        BY <1>3, <2>1, <3>2
      <4>3. \A k \in Msg : (Refers(k) /\ msg[k].content = d)' =>
              \E l \in Msg : Refers(l) /\ msg[l].content = d /\ msg[l].shared = msg'[k].shared
        BY <1>7
      <4> QED BY <1>1, <1>2, <4>1, <4>2, <4>3, KeepFine, Zenon
    <3> QED BY <3>1, <3>2
  <2>4. refcnt' \in [Content -> Int] /\ mem' \in [Content -> {None, "live", "freed"}]
    BY <1>3, <2>1
  <2>5. Types' /\ Distribution'
    BY <1>1, <1>2, <1>4, <1>6, <2>1, <2>4 DEF Types, Distribution, Lmsg
  <2> QED BY <1>1, <2>1, <2>3, <2>5 DEF IInv, Structures
<1> QED BY <1>9, <1>10

(* add_refs takes a reference for each pipe. *)
LEMMA AddRefsStep ==
  ASSUME IInv, NEW m \in Msg, NEW n \in 1 .. Cardinality(Msg) - 1, add_refs(m, n)
  PROVE  IInv'
<1> DEFINE x == msg[m]
           y == [x EXCEPT !.shared = x.shared \/ n > 1]
<1>1. Structures /\ Types /\ Distribution /\ ~bad /\ \A d \in Content : Fine(d)
  BY DEF IInv
<1>2. /\ dist = None /\ Lmsg(m) /\ dist' = m /\ left' = n /\ failed' = 0
      /\ refcnt' = [refcnt EXCEPT ![x.content] = IF n = 1 THEN @
                                         ELSE IF x.shared THEN @ + n - 1 ELSE n]
      /\ msg' = [msg EXCEPT ![m].shared = x.shared \/ n > 1]
      /\ UNCHANGED <<mem, bad>>
  BY DEF add_refs
<1>3. /\ msg \in [Msg -> {Invalid, Empty} \cup Large] /\ refcnt \in [Content -> Int]
      /\ m # None /\ left = 0 /\ failed = 0
  BY <1>1, <1>2 DEF Types, Structures, Distribution
<1>4. n \in Nat /\ n > 0
  BY <1>1, FS_CardinalityType DEF Structures
<1>5. PICK c \in Content :
      /\ c = x.content /\ Refers(m) /\ x \in Large /\ mem[c] = "live"
      /\ References(c) = IF x.shared THEN refcnt[c] ELSE 1
  <2>1. Refers(m)
    BY <1>2, <1>3 DEF Refers
  <2> QED BY <2>1, Counted
<1>6. y \in Large /\ y.type = "lmsg" /\ y.content = c /\ y.shared = (x.shared \/ n > 1)
  BY <1>5, Zenon DEF Large
<1>7. /\ \A k \in Msg : msg'[k] = IF k = m THEN y ELSE msg[k]
      /\ msg' \in [Msg -> {Invalid, Empty} \cup Large]
  <2>1. msg' = [msg EXCEPT ![m] = y]
    BY <1>2, <1>3
  <2> QED BY <1>3, <1>6, <2>1
<1>8. \A k \in Msg : Refers(k)' => Refers(k) /\ (k # m => msg'[k] = msg[k])
  <2>1. \A k \in Msg : Lmsg(k)' => Lmsg(k)
    BY <1>2, <1>7 DEF Lmsg
  <2>2. \A k \in Msg : k # dist
    BY <1>1, <1>2 DEF Structures
  <2> QED BY <1>7, <2>1, <2>2 DEF Refers
<1>9. \A d : m \in Held(d) <=> d = c
  BY <1>2, <1>3, <1>5 DEF Held
<1>10. ASSUME NEW d PROVE Held(d)' = Held(d) \ {m} /\ Due(d) = 0 /\ Due(d)' = IF d = c THEN n ELSE 0
  <2>1. Held(d)' = Held(d) \ {m}
    <3>1. \A k \in Msg : k # dist
      BY <1>1, <1>2 DEF Structures
    <3>2. \A k \in Msg : k # m => msg'[k] = msg[k]
      BY <1>7
    <3> QED BY <1>2, <3>1, <3>2 DEF Held, Lmsg
  <2>2. Due(d) = 0
    BY <1>2 DEF Due
  <2>3. Due(d)' = IF d = c THEN n ELSE 0
    <3>1. dist' # None /\ msg'[dist'].content = c /\ left' + failed' = n
      BY <1>2, <1>3, <1>4, <1>6, <1>7
    <3> QED BY <3>1 DEF Due
  <2> QED BY <2>1, <2>2, <2>3
<1> HIDE DEF x, y
<1>11. References(c) \in Nat /\ References(c)' = References(c) + n - 1
  <2>1. Cardinality(Held(c)') = Cardinality(Held(c)) - 1 /\ Cardinality(Held(c)) \in Nat
    <3>1. m \in Held(c) /\ Held(c)' = Held(c) \ {m}
      BY <1>9, <1>10
    <3> QED BY <1>1, <3>1, Finite, SizeIs
  <2>2. Due(c) = 0 /\ Due(c)' = n
    BY <1>10
  <2> QED BY <1>4, <2>1, <2>2 DEF References
<1>12. ASSUME NEW d \in Content PROVE Fine(d)'
  <2>1. CASE d # c
    <3>1. References(d)' = References(d)
      <4>1. Held(d)' = Held(d) /\ Due(d)' = Due(d)
        BY <1>9, <1>10, <2>1
      <4> QED BY <4>1 DEF References
    <3>2. \A k \in Msg : (Refers(k) /\ msg[k].content = d)' => Refers(k) /\ msg'[k] = msg[k]
      BY <1>6, <1>7, <1>8, <2>1
    <3>3. refcnt'[d] = refcnt[d]
      BY <1>2, <1>3, <1>5, <2>1
    <3> QED BY <1>1, <1>2, <3>1, <3>2, <3>3, KeepFine, Zenon
  <2>2. CASE d = c /\ n = 1
    <3>1. References(d)' = References(d) /\ refcnt'[d] = refcnt[d]
      BY <1>2, <1>3, <1>5, <1>11, <2>2
    <3>2. ASSUME NEW k \in Msg, (Refers(k) /\ msg[k].content = d)'
          PROVE  Refers(k) /\ msg[k].content = d /\ msg[k].shared = msg'[k].shared
      <4>1. CASE k = m
        <5>1. msg'[k] = y /\ msg[k] = x /\ x.content = d /\ x.shared \in BOOLEAN
          BY <1>5, <1>7, <2>2, <4>1 DEF x, Large
        <5>2. y.shared = x.shared
          BY <1>6, <2>2, <5>1
        <5> QED BY <1>8, <3>2, <5>1, <5>2
      <4>2. CASE k # m
        BY <1>8, <3>2, <4>2
      <4> QED BY <4>1, <4>2
    <3> QED BY <1>1, <1>2, <3>1, <3>2, KeepFine
  <2>3. CASE d = c /\ n > 1
    <3>1. refcnt'[d] = References(d)'
      <4>1. refcnt'[c] = IF x.shared THEN refcnt[c] + n - 1 ELSE n
        BY <1>2, <1>3, <1>4, <1>5, <2>3
      <4>2. refcnt[c] \in Int
        BY <1>3, <1>5
      <4> QED BY <1>4, <1>5, <1>11, <2>3, <4>1, <4>2
    <3>2. ASSUME NEW k \in Msg, (Refers(k) /\ msg[k].content = d)' PROVE msg'[k].shared
      <4>1. CASE k = m
        BY <1>6, <1>7, <2>3, <4>1, Zenon
      <4>2. CASE k # m
        <5>1. Refers(k) /\ msg'[k] = msg[k] /\ msg[k].content = msg[m].content
          BY <1>5, <1>8, <2>3, <3>2, <4>2 DEF x
        <5> QED BY <1>2, <1>3, <1>5, <4>2, <5>1, TwoRefer
      <4> QED BY <4>1, <4>2
    <3>3. References(d)' > 0
      BY <1>4, <1>11, <2>3
    <3> QED BY <1>2, <1>5, <2>3, <3>1, <3>2, <3>3 DEF Fine
  <2> QED BY <1>4, <2>1, <2>2, <2>3
<1>13. refcnt' \in [Content -> Int]
  BY <1>2, <1>3, <1>4, <1>5
<1>14. Types' /\ Distribution'
  <2>1. Lmsg(dist)'
    BY <1>2, <1>6, <1>7 DEF Lmsg
  <2> QED BY <1>1, <1>2, <1>3, <1>4, <1>7, <1>13, <2>1 DEF Types, Distribution
<1> QED BY <1>1, <1>2, <1>12, <1>14 DEF IInv, Structures

(* rm_refs gives back those of the pipes that refused. *)
LEMMA RmRefsStep ==
  ASSUME IInv, rm_refs
  PROVE  IInv'
<1> DEFINE x == msg[dist]
<1>1. Structures /\ Types /\ Distribution /\ ~bad /\ \A d \in Content : Fine(d)
  BY DEF IInv
<1>2. /\ dist # None /\ left = 0 /\ msg' = [msg EXCEPT ![dist] = Empty]
      /\ dist' = None /\ left' = 0 /\ failed' = 0
  BY DEF rm_refs
<1>3. /\ msg \in [Msg -> {Invalid, Empty} \cup Large] /\ refcnt \in [Content -> Int]
      /\ mem \in [Content -> {None, "live", "freed"}] /\ failed \in Nat
      /\ dist \in Msg /\ Lmsg(dist)
  BY <1>1, <1>2 DEF Types, Distribution
<1>4. PICK c \in Content : c = x.content
  BY <1>3, Kinds DEF Lmsg
<1>5. /\ \A k \in Msg : msg'[k] = IF k = dist THEN Empty ELSE msg[k]
      /\ msg' \in [Msg -> {Invalid, Empty} \cup Large] /\ Empty.type # "lmsg"
  BY <1>2, <1>3 DEF Empty
<1>6. \A k \in Msg : Refers(k)' => k # dist /\ Refers(k) /\ msg'[k] = msg[k]
  BY <1>2, <1>5 DEF Refers, Lmsg
<1>7. ASSUME NEW d PROVE Held(d)' = Held(d) /\ Due(d)' = 0
  <2>1. \A k \in Msg : k # None
    BY <1>1 DEF Structures
  <2> QED BY <1>2, <1>5, <2>1 DEF Held, Due, Lmsg
<1>8. ASSUME NEW d PROVE Due(d) = IF d = c THEN failed ELSE 0
  BY <1>2, <1>3, <1>4 DEF Due
<1>9. ASSUME NEW d
      PROVE  /\ References(d) \in Nat /\ References(d)' \in Nat
             /\ References(d)' = References(d) - Due(d)
  <2>1. Cardinality(Held(d)) \in Nat /\ Due(d) \in Nat /\ References(d) \in Nat
    BY <1>1, ReferencesType
  <2> QED BY <1>7, <2>1 DEF References
<1>10. ASSUME NEW d \in Content, Due(d) = 0, refcnt'[d] = refcnt[d], mem'[d] = mem[d] PROVE Fine(d)'
  BY <1>1, <1>2, <1>6, <1>9, <1>10, KeepFine
<1>11. CASE failed = 0
  <2>1. UNCHANGED <<refcnt, mem, bad>>
    BY <1>11 DEF rm_refs
  <2>2. \A d \in Content : Fine(d)'
    BY <1>8, <1>10, <1>11, <2>1
  <2>3. Types' /\ Distribution'
    BY <1>1, <1>2, <1>5, <2>1 DEF Types, Distribution, Lmsg
  <2> QED BY <1>1, <2>1, <2>2, <2>3 DEF IInv, Structures
<1>12. CASE failed # 0
  <2>1. /\ Refers(dist) /\ mem[c] = "live"
        /\ References(c) = IF x.shared THEN refcnt[c] ELSE 1
    <3>1. Refers(dist)
      BY <1>2, <1>3, <1>12 DEF Refers
    <3> QED BY <1>1, <1>3, <1>4, <1>12, <3>1, Counted DEF Distribution
  <2>2. Due(c) = failed /\ References(c) \in Nat /\ References(c)' \in Nat
        /\ References(c)' = References(c) - failed
    BY <1>8, <1>9
  <2>3. ASSUME NEW k \in Msg, (Refers(k) /\ msg[k].content = c)'
        PROVE  References(c)' > 0 /\ x.shared /\ msg'[k].shared
    <3>1. References(c)' > 0
      BY <1>1, <1>2, <2>3, CountedNext
    <3>2. k # dist /\ Refers(k) /\ msg'[k] = msg[k] /\ msg[k].content = c
      BY <1>6, <2>3
    <3>3. msg[k].shared /\ msg[dist].shared
      BY <1>3, <1>4, <2>1, <3>2, TwoRefer
    <3> QED BY <3>1, <3>2, <3>3
  <2>4. /\ bad' = bad /\ refcnt' \in [Content -> Int]
        /\ mem' \in [Content -> {None, "live", "freed"}]
        /\ \A d \in Content : d # c => refcnt'[d] = refcnt[d] /\ mem'[d] = mem[d]
        /\ ~x.shared => mem'[c] = "freed"
        /\ x.shared => /\ mem'[c] = mem[c]
                       /\ References(c)' > 0 => refcnt'[c] = References(c)'
                       /\ References(c)' = 0 => refcnt'[c] = -1
    <3>1. bad = FALSE
      BY <1>1 DEF Types
    <3>2. CASE ~x.shared
      <4>1. /\ refcnt' = [refcnt EXCEPT ![c] = 0] /\ mem' = [mem EXCEPT ![c] = "freed"]
            /\ bad' = (bad \/ mem[c] # "live")
        BY <1>3, <1>4, <1>12, <3>2 DEF rm_refs, Drop, Lmsg
      <4>2. bad' = bad
        BY ONLY <2>1, <3>1, <4>1, Zenon
      <4>3. \A d \in Content : d # c => refcnt'[d] = refcnt[d] /\ mem'[d] = mem[d]
        BY ONLY <1>3, <4>1
      <4>4. /\ refcnt' \in [Content -> Int] /\ mem' \in [Content -> {None, "live", "freed"}]
            /\ mem'[c] = "freed"
        BY ONLY <1>3, <4>1
      <4> QED BY ONLY <3>2, <4>2, <4>3, <4>4
    <3>3. CASE x.shared
      <4> DEFINE n == refcnt[c] - failed
      <4>1. /\ refcnt' = [refcnt EXCEPT ![c] = IF n = 0 THEN n - 1 ELSE n] /\ mem' = mem
            /\ bad' = (bad \/ mem[c] # "live")
        BY <1>4, <1>12, <3>3 DEF rm_refs
      <4>2. n = References(c)' /\ n \in Int
        BY <2>1, <2>2, <3>3
      <4> HIDE DEF n
      <4>3. bad' = bad
        BY ONLY <2>1, <3>1, <4>1, Zenon
      <4>4. \A d \in Content : d # c => refcnt'[d] = refcnt[d] /\ mem'[d] = mem[d]
        BY ONLY <1>3, <4>1
      <4>5. /\ refcnt' \in [Content -> Int] /\ mem' \in [Content -> {None, "live", "freed"}]
            /\ mem'[c] = mem[c] /\ (n # 0 => refcnt'[c] = n)
            /\ n = 0 => refcnt'[c] = -1
        BY ONLY <1>3, <4>1, <4>2
      <4>6. /\ References(c)' > 0 => refcnt'[c] = References(c)'
            /\ References(c)' = 0 => refcnt'[c] = -1
        BY ONLY <4>2, <4>5
      <4> QED BY ONLY <3>3, <4>3, <4>4, <4>5, <4>6
    <3> QED BY <3>2, <3>3
  <2>5. ASSUME NEW d \in Content PROVE Fine(d)'
    <3>1. CASE d # c
      BY <1>8, <1>10, <2>4, <3>1
    <3>2. CASE d = c
      <4>1. \A k \in Msg : (Refers(k) /\ msg[k].content = d)' =>
              References(d)' = IF msg'[k].shared THEN refcnt'[d] ELSE 1
        BY <2>3, <2>4, <3>2
      <4>2. mem'[d] # "live" => References(d)' = 0
        <5>1. CASE x.shared
          BY <2>1, <2>4, <3>2, <5>1
        <5>2. CASE ~x.shared
          BY <1>3, <1>12, <2>1, <2>2, <3>2, <5>2
        <5> QED BY <5>1, <5>2
      <4>3. mem'[d] = "live" /\ References(d)' = 0 => refcnt'[d] = -1
        BY <2>4, <3>2
      <4> QED BY <4>1, <4>2, <4>3 DEF Fine
    <3> QED BY <3>1, <3>2
  <2>6. Types' /\ Distribution'
    BY <1>1, <1>2, <1>5, <2>4 DEF Types, Distribution, Lmsg
  <2> QED BY <1>1, <2>4, <2>5, <2>6 DEF IInv, Structures
<1> QED BY <1>11, <1>12
-----------------------------------------------------------------------------
(* The account of every content is right at all times. *)
THEOREM Invariance == Structures /\ Spec => []IInv
<1>1. ASSUME IInv, UNCHANGED vars PROVE IInv'
  <2>1. UNCHANGED <<msg, refcnt, mem, dist, left, failed, bad>>
    BY <1>1 DEF vars
  <2>2. ASSUME NEW c \in Content PROVE Fine(c)'
    <3>1. Fine(c)
      BY <1>1 DEF IInv
    <3> QED BY <2>1, <3>1 DEF Fine, References, Held, Due, Refers, Lmsg
  <2>3. Structures /\ Types' /\ Distribution' /\ ~bad'
    BY <1>1, <2>1 DEF IInv, Types, Distribution, Lmsg
  <2> QED BY <2>2, <2>3 DEF IInv, Structures
<1>2. ASSUME IInv, Next PROVE IInv'
  BY <1>2, InitMessage, CloseStep, PushStep, MoveStep, CopyStep, AddRefsStep, PushFailsStep,
     RmRefsStep DEF Next
<1> QED BY IInvInit, <1>1, <1>2, PTL DEF Spec

(* msg_t's counting is right however threads copy, move, close and         *)
(* distribute: the count is the number of references, no content is used   *)
(* or freed after it was freed, and it is freed with the last reference    *)
(* unless rm_refs gave that back.                                          *)
THEOREM CountsAreExact == Structures /\ Spec => []CountExact
<1>1. IInv => CountExact
  <2> SUFFICES ASSUME IInv, NEW c \in Content
               PROVE  /\ References(c) > 0 => mem[c] = "live"
                      /\ \A m \in Msg : Refers(m) /\ msg[m].content = c =>
                           References(c) = IF msg[m].shared THEN refcnt[c] ELSE 1
                      /\ References(c) = 0 /\ mem[c] = "live" => refcnt[c] = -1
    BY DEF CountExact, IInv
  <2>1. References(c) \in Nat /\ Fine(c)
    BY ReferencesType DEF IInv
  <2> QED BY <2>1 DEF Fine
<1> QED BY <1>1, Invariance, PTL
=============================================================================
