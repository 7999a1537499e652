----------------------------- MODULE TopicFilter ----------------------------
(***************************************************************************)
(* The topic filter plug-in (src/topic_filter.cpp): a map from topics, a   *)
(* sequence of characters such as "a.*.b", to the vector of subscribers.   *)
(***************************************************************************)
EXTENDS Integers, SequencesExt

(* Bytes are their codes, 0 .. 255. *)
Nul == 0
Dot == 46
Star == 42

(* The topic is read through const char*, which is signed on x86. *)
Signed(b) == IF b > 127 THEN b - 256 ELSE b

(* it->first.c_str (): what follows a NUL in a topic is not seen. *)
c_str(s) ==
  SubSeq(s, 1, Min({k \in 0 .. Len(s) : k = Len(s) \/ s[k + 1] = Nul}))

(* The end of the run of bytes of s from i on that are no dot and no NUL. *)
ElementEnd(s, i) ==
  Min({k \in i .. Len(s) + 1 : k = Len(s) + 1 \/ s[k] \in {Nul, Dot}})

(* topic_match, from the start of an element of the topic at i and of the  *)
(* data at j: a star takes an element of the data, a literal its own       *)
(* length, and then both must have a dot or the topic must be at its end.  *)
topic_match(topic, data) ==
  LET star(i)     == topic[i] = Star
      topicAt(i)  == IF star(i) THEN i + 1 ELSE ElementEnd(topic, i)
      dataAt(i, j) == IF star(i) THEN ElementEnd(data, j)
                      ELSE j + topicAt(i) - i
      literal(i, j) == /\ dataAt(i, j) - 1 <= Len(data)
                       /\ \A k \in 0 .. topicAt(i) - i - 1 :
                            Signed(topic[i + k]) = data[j + k]
      DotAt(s, i) == i <= Len(s) /\ s[i] = Dot
      from[i \in 1 .. Len(topic) + 1, j \in 1 .. Len(data) + 1] ==
        \/ i > Len(topic)
        \/ /\ star(i) \/ literal(i, j)
           /\ \/ topicAt(i) > Len(topic)
              \/ /\ DotAt(topic, topicAt(i)) /\ DotAt(data, dataAt(i, j))
                 /\ from[topicAt(i) + 1, dataAt(i, j) + 1]
  IN from[1, 1]
-----------------------------------------------------------------------------
(* pf_create, sf_create: an empty map. *)
tf_create == << >>

(* pf_subscribe: a subscriber is listed once for each subscription. *)
tf_subscribe(t, s, topic) ==
  [x \in DOMAIN t \cup {topic} |->
     IF x # topic THEN t[x]
     ELSE Append(IF x \in DOMAIN t THEN t[x] ELSE << >>, s)]

tf_has(t, s, topic) == topic \in DOMAIN t /\ Contains(t[topic], s)

NonEmpty(t) == RestrictValues(t, LAMBDA v : v # << >>)

(* pf_unsubscribe: one entry goes; the call fails if there is none. *)
tf_unsubscribe(t, s, topic) ==
  IF ~tf_has(t, s, topic) THEN t
  ELSE NonEmpty([t EXCEPT ![topic] = RemoveFirst(@, s)])

(* Mutant: i is not stepped back after an erase. *)
tf_unsubscribe_all_First(t, s) ==
  NonEmpty([x \in DOMAIN t |-> RemoveFirst(t[x], s)])

(* pf_unsubscribe_all: every entry of the subscriber goes. *)
tf_unsubscribe_all(t, s) == NonEmpty([x \in DOMAIN t |-> Remove(t[x], s)])

tf_pf_match(t, data) ==
  UNION {ToSet(t[x]) : x \in {y \in DOMAIN t : topic_match(c_str(y), data)}}

tf_sf_match(t, data) == \E x \in DOMAIN t : topic_match(c_str(x), data)
=============================================================================
