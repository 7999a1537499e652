------------------------------- MODULE Filters ------------------------------
(***************************************************************************)
(* The filter plug-ins as their callers use them, beside the bag of        *)
(* subscriptions they stand for.  kind says who the caller is: XPUB with   *)
(* the prefix ("pf") or the topic filter ("tf"), where a subscriber is a   *)
(* pipe, which subscribes at most once to a prefix (xsub_t::xsend forwards *)
(* only the first of equal subscriptions), or SUB with the prefix filter   *)
(* ("sf"), where all subscriptions are those of the user.                  *)
(***************************************************************************)
EXTENDS PrefixFilter, TopicFilter

CONSTANTS Kind, Sub, User,     \* pipes; the one subscriber of SUB
          Prefix, Topic, Data, \* what can be subscribed to and be sent
          MaxSubs              \* bound: subscriptions at the same time

VARIABLES kind, pf, tf,
          subs,  \* the bag of <<prefix or topic, subscriber>>
          told   \* the prefixes reported as subscribed to the user of XPUB
                 \* or the peers of SUB

vars == <<kind, pf, tf, subs, told>>

Subscriber == IF kind = "sf" THEN {User} ELSE Sub

Init ==
  /\ kind \in Kind
  /\ pf = pf_create /\ tf = tf_create
  /\ subs = EmptyBag /\ told = {}

Room(x) ==
  /\ BagCardinality(subs) < MaxSubs
  /\ kind = "sf" \/ ~BagIn(x, subs)

(* pf_subscribe and sf_subscribe; the first subscription is reported. *)
Subscribe(p, s) ==
  /\ kind # "tf" /\ Room(<<p, s>>)
  /\ pf' = pfx_add(pf, p, s)
  /\ told' = IF pfx_add_first(pf, p) THEN told \cup {p} ELSE told
  /\ subs' = BagAdd(subs, <<p, s>>)
  /\ UNCHANGED <<kind, tf>>

(* pf_unsubscribe and sf_unsubscribe.  SUB's user may unsubscribe from     *)
(* what they never subscribed to; a pipe does not.  XSUB drops the report  *)
(* of an unsubscription it does not know.                                  *)
Unsubscribe(p, s) ==
  /\ kind # "tf"
  /\ kind = "sf" \/ BagIn(<<p, s>>, subs)
  /\ pf' = pfx_rm(pf, p, s)
  /\ told' = IF pfx_rm_last(pf, p, s) THEN told \ {p} ELSE told
  /\ subs' = BagRemove(subs, <<p, s>>)
  /\ UNCHANGED <<kind, tf>>

WithoutSub(s) == RestrictDomain(subs, LAMBDA x : x[2] # s)

(* pf_unsubscribe_all: the pipe has terminated. *)
UnsubscribeAll(s) ==
  /\ kind = "pf"
  /\ pf' = pfx_rm_all(pf, s)
  /\ told' = told \ pfx_rm_all_last(pf, s)
  /\ subs' = WithoutSub(s)
  /\ UNCHANGED <<kind, tf>>

TopicSubscribe(x, s) ==
  /\ kind = "tf" /\ BagCardinality(subs) < MaxSubs
  /\ tf' = tf_subscribe(tf, s, x)
  /\ subs' = BagAdd(subs, <<x, s>>)
  /\ UNCHANGED <<kind, pf, told>>

TopicUnsubscribe(x, s) ==
  /\ kind = "tf"
  /\ tf' = tf_unsubscribe(tf, s, x)
  /\ subs' = BagRemove(subs, <<x, s>>)
  /\ UNCHANGED <<kind, pf, told>>

TopicUnsubscribeAll(s) ==
  /\ kind = "tf"
  /\ tf' = tf_unsubscribe_all(tf, s)
  /\ subs' = WithoutSub(s)
  /\ UNCHANGED <<kind, pf, told>>

Next ==
  \E s \in Subscriber :
    \/ \E p \in Prefix : Subscribe(p, s) \/ Unsubscribe(p, s)
    \/ UnsubscribeAll(s)
    \/ \E x \in Topic : TopicSubscribe(x, s) \/ TopicUnsubscribe(x, s)
    \/ TopicUnsubscribeAll(s)

Spec == Init /\ [][Next]_vars
-----------------------------------------------------------------------------
(* Properties *)

Elements(s) ==
  LET dots == {0, Len(s) + 1} \cup {k \in 1 .. Len(s) : s[k] = Dot}
      ends == SetToSortSeq(dots, <)
  IN [e \in 1 .. Len(ends) - 1 |-> SubSeq(s, ends[e] + 1, ends[e + 1] - 1)]

(* What a topic means: it is matched element by element, a star stands for *)
(* any element, and the last element need only be the start of one.  Two   *)
(* limits are the code's own: a topic ends at its first NUL, and a star    *)
(* that is not last takes no element with a NUL in it.                     *)
TopicMatches(topic, data) ==
  LET T == Elements(c_str(topic))  D == Elements(data)  n == Len(T)
  IN /\ n <= Len(D)
     /\ \A e \in 1 .. n :
          \/ T[e] = <<Star>> /\ (e = n \/ ~Contains(D[e], Nul))
          \/ /\ T[e] # << >> => T[e][1] # Star
             /\ IF e = n THEN IsPrefix(T[e], D[e]) ELSE T[e] = D[e]

(* The topics topic_filter.cpp:58 compares as meant: another byte is       *)
(* negative in the topic and positive in the data, so that a topic with    *)
(* one matches nothing.                                                    *)
SevenBit(topic) == \A k \in DOMAIN c_str(topic) : topic[k] < 128

Wanting(data) == {x[2] : x \in {y \in BagToSet(subs) :
  IF kind = "tf" THEN SevenBit(y[1]) /\ TopicMatches(y[1], data)
  ELSE IsPrefix(y[1], data)}}

(* Whatever subscriptions came and went, in whatever order the tables of   *)
(* the trie grew and shrank, a message matches exactly the subscribers     *)
(* that have a subscription for it (pf_match, sf_match, topic_match); a    *)
(* topic counts as one for it if it has only 7-bit bytes and TopicMatches. *)
MatchExact == \A data \in Data :
  IF kind = "tf"
  THEN /\ tf_pf_match(tf, data) = Wanting(data)
       /\ tf_sf_match(tf, data) = (Wanting(data) # {})
  ELSE /\ pf_match(pf, data) = Wanting(data)
       /\ sf_match(pf, data) = (Wanting(data) # {})

(* The filter tells its socket of the first subscription to a prefix and   *)
(* of the end of the last one, and so peers know exactly the prefixes that *)
(* somebody wants, also after a pipe with several of them is gone.         *)
UpstreamExact ==
  kind # "tf" => told = {x[1] : x \in BagToSet(subs)}

(* The assertions of the trie hold whenever they are met: a table has live *)
(* nodes in its first and last slot and counts them, no node is redundant, *)
(* and none has been lost outside of a table.                              *)
TrieTight ==
  /\ << >> \in DOMAIN pf
  /\ \A q \in DOMAIN pf :
       /\ pf[q].live_nodes = Cardinality(Next_(pf, q))
       /\ pf[q].count > 0 =>
            {pf[q].min, pf[q].min + pf[q].count - 1} \subseteq Next_(pf, q)
       /\ q # << >> => /\ ~pfx_is_redundant(pf[q])
                       /\ Front(q) \in DOMAIN pf
                       /\ HasNext(pf, Front(q), Last(q))
=============================================================================
