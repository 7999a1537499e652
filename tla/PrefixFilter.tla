---------------------------- MODULE PrefixFilter ----------------------------
(***************************************************************************)
(* The prefix filter (src/prefix_filter.cpp), the default plug-in with     *)
(* which PUB and SUB sockets match subscriptions.  A trie is a function    *)
(* from paths (the characters read so far) to nodes.  A node keeps a bag   *)
(* of subscribers and the window min .. min + count - 1 of the characters  *)
(* its table has a slot for (count = 1 is the single-node form).  A slot   *)
(* is taken when the longer path is in the trie, and a node whose slot is  *)
(* outside of the window can no longer be reached.                         *)
(***************************************************************************)
EXTENDS Integers, Bags, BagsExt, SequencesExt

pfx_init == [subscribers |-> EmptyBag, min |-> 0, count |-> 0,
             live_nodes |-> 0]

pfx_is_redundant(node) == node.subscribers = EmptyBag /\ node.live_nodes = 0

(* pf_create, sf_create: a lone root. *)
pf_create == << >> :> pfx_init

InTable(node, c) == node.min <= c /\ c < node.min + node.count

HasNext(t, q, c) == InTable(t[q], c) /\ Append(q, c) \in DOMAIN t

(* The characters of the taken slots of node q. *)
Next_(t, q) == {c \in t[q].min .. t[q].min + t[q].count - 1 :
                  HasNext(t, q, c)}

Cut(prefix, k) == SubSeq(prefix, 1, k)
-----------------------------------------------------------------------------
(* pfx_add *)

(* Mutant: the table grows upwards by one slot too few. *)
Extend_Short(node, c) ==
  IF InTable(node, c) THEN node
  ELSE IF node.count = 0 THEN [node EXCEPT !.min = c, !.count = 1]
  ELSE IF node.min < c THEN [node EXCEPT !.count = c - node.min]
  ELSE [node EXCEPT !.min = c, !.count = node.min + node.count - c]

(* The window is stretched to c; the first character starts it. *)
Extend(node, c) ==
  IF InTable(node, c) THEN node
  ELSE IF node.count = 0 THEN [node EXCEPT !.min = c, !.count = 1]
  ELSE IF node.min < c THEN [node EXCEPT !.count = c - node.min + 1]
  ELSE [node EXCEPT !.min = c, !.count = node.min + node.count - c]

pfx_add(t, prefix, s) ==
  LET path     == {Cut(prefix, k) : k \in 0 .. Len(prefix)}
      old(q)   == IF q \in DOMAIN t THEN t[q] ELSE pfx_init
      char(q)  == prefix[Len(q) + 1]
      fresh(q) == Append(q, char(q)) \notin DOMAIN t
      grown(q) == [Extend(old(q), char(q)) EXCEPT
                     !.live_nodes = IF fresh(q) THEN @ + 1 ELSE @]
  IN [q \in DOMAIN t \cup path |->
        IF q = prefix THEN [old(q) EXCEPT !.subscribers = BagAdd(@, s)]
        ELSE IF q \in path THEN grown(q) ELSE t[q]]

(* The result of pfx_add: the prefix had no subscriber. *)
pfx_add_first(t, prefix) ==
  prefix \in DOMAIN t => t[prefix].subscribers = EmptyBag
-----------------------------------------------------------------------------
(* pfx_rm *)

Reaches(t, prefix) ==
  \A k \in 1 .. Len(prefix) : HasNext(t, Cut(prefix, k - 1), prefix[k])

(* Mutant: the table is not compacted from the left. *)
Compact_Left(node, c, taken) ==
  IF node.count = 1 \/ node.live_nodes = 1
  THEN [node EXCEPT !.count = 0, !.live_nodes = @ - 1]
  ELSE IF node.live_nodes = 2
  THEN [node EXCEPT !.min = Min(taken), !.count = 1, !.live_nodes = 1]
  ELSE IF c = node.min
  THEN [node EXCEPT !.count = @ - (Min(taken) - node.min),
                    !.live_nodes = @ - 1]
  ELSE [node EXCEPT !.live_nodes = @ - 1]

(* Node without its slot c; taken are the slots left.  A table shrinks     *)
(* from the side it lost a slot at, and keeps holes in the middle.         *)
Compact(node, c, taken) ==
  IF node.count = 1 \/ node.live_nodes = 1
  THEN [node EXCEPT !.count = 0, !.live_nodes = @ - 1]
  ELSE IF node.live_nodes = 2
  THEN [node EXCEPT !.min = Min(taken), !.count = 1, !.live_nodes = 1]
  ELSE IF c = node.min
  THEN [node EXCEPT !.min = Min(taken),
                    !.count = @ - (Min(taken) - node.min),
                    !.live_nodes = @ - 1]
  ELSE IF c = node.min + node.count - 1
  THEN [node EXCEPT !.count = Max(taken) - node.min + 1,
                    !.live_nodes = @ - 1]
  ELSE [node EXCEPT !.live_nodes = @ - 1]

(* The return of pfx_rm from node q: a redundant node is deleted. *)
Prune(t, q) ==
  IF ~pfx_is_redundant(t[q]) THEN t
  ELSE LET rest == RestrictDomain(t, LAMBDA x : x # q)
       IN [rest EXCEPT ![Front(q)] =
             Compact(@, Last(q), Next_(rest, Front(q)))]

Unref(node, s) == [node EXCEPT !.subscribers = BagRemove(@, s)]

pfx_rm(t, prefix, s) ==
  IF ~Reaches(t, prefix) THEN t
  ELSE FoldLeft(Prune, [t EXCEPT ![prefix] = Unref(@, s)],
                [k \in 1 .. Len(prefix) |-> Cut(prefix, Len(prefix) - k + 1)])

(* Mutant: reported when this subscriber is gone, whoever else remains. *)
pfx_rm_last_Mine(t, prefix, s) ==
  Reaches(t, prefix) /\ ~BagIn(s, Unref(t[prefix], s).subscribers)

(* The result of pfx_rm: the node has no subscriber now, also when it had  *)
(* none before.                                                            *)
pfx_rm_last(t, prefix, s) ==
  Reaches(t, prefix) /\ Unref(t[prefix], s).subscribers = EmptyBag
-----------------------------------------------------------------------------
(* pfx_rm_all *)

(* Node q after the recursion into its slots; rest is the trie without     *)
(* the redundant nodes below q.  The bounds start crossed, as in the code. *)
Squeeze(rest, q, dead) ==
  LET node  == rest[q]
      taken == Next_(rest, q)
      live  == node.live_nodes - Cardinality(dead)
      lo    == Min(taken \cup {node.min + node.count - 1})
      hi    == Max(taken \cup {node.min})
  IN IF node.count = 0 THEN node
     ELSE IF live = 0 THEN [node EXCEPT !.count = 0, !.live_nodes = 0]
     ELSE [node EXCEPT !.min = lo, !.count = hi - lo + 1,
                       !.live_nodes = live]

(* All nodes of one depth return: they drop their redundant subnodes. *)
Level(t, depth) ==
  LET dead(q) == {c \in Next_(t, q) : pfx_is_redundant(t[Append(q, c)])}
      gone    == UNION {{Append(q, c) : c \in dead(q)} :
                          q \in {x \in DOMAIN t : Len(x) = depth}}
      rest    == RestrictDomain(t, LAMBDA x : x \notin gone)
  IN [q \in DOMAIN rest |->
        IF Len(q) = depth THEN Squeeze(rest, q, dead(q)) ELSE rest[q]]

(* The reference count of the subscriber drops by one at every node. *)
pfx_rm_all(t, s) ==
  LET depth == Max({Len(q) : q \in DOMAIN t})
  IN FoldLeft(Level, [q \in DOMAIN t |-> Unref(t[q], s)],
              [k \in 1 .. depth + 1 |-> depth - k + 1])

(* The prefixes for which pfx_rm_all calls xs_filter_unsubscribed. *)
pfx_rm_all_last(t, s) ==
  {q \in DOMAIN t : /\ t[q].subscribers # EmptyBag
                    /\ Unref(t[q], s).subscribers = EmptyBag}
-----------------------------------------------------------------------------
(* Matching *)

(* The nodes that pf_match and sf_match visit. *)
Visited(t, data) == {q \in Prefixes(data) : Reaches(t, q)}

pf_match(t, data) ==
  UNION {BagToSet(t[q].subscribers) : q \in Visited(t, data)}

sf_match(t, data) ==
  \E q \in Visited(t, data) : t[q].subscribers # EmptyBag
=============================================================================
