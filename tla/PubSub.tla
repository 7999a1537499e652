------------------------------- MODULE PubSub -------------------------------
(***************************************************************************)
(* Publish-subscribe: one XPUB socket (src/xpub.cpp, pub.cpp), subscriber  *)
(* sockets (src/xsub.cpp, sub.cpp) and the connections between them, which *)
(* may be lost and made again.  A socket that connects keeps its pipe      *)
(* over connections; on the side that binds every connection has a pipe of *)
(* its own.  A filter is the bag of <<topic, pipe>> it stands for: module  *)
(* Filters shows that the plug-ins keep one.  Messages have one or two     *)
(* parts and become readable as a whole (pipe_t::flush).                   *)
(***************************************************************************)
EXTENDS Integers, Bags, BagsExt, SequencesExt

CONSTANTS Sock,        \* the subscriber sockets
          Topic,       \* prefixes, sequences of characters
          Setting,     \* records: connects ("sub" or "pub"), type ("SUB"
                       \* or "XSUB"), filter ("prefix" or "topic"), and
                       \* bounds: the sockets, topics, number of messages,
                       \* commands in outq, in a pipe and pending (queue)
          MaxSubs,     \* bound: equal subscriptions of a socket
          MaxConns     \* bound: connections made by a socket

Pipe == Sock \X (1 .. MaxConns)    \* of the XPUB socket

VARIABLES
  setting,
  sf,             \* sub_t::filters, the bag of the user's subscriptions
  subscriptions,  \* xsub_t::subscriptions, a bag of topics
  outq,           \* commands in the subscriber's pipe and on the wire
  conn,           \* "up", "down", or "hiccup": xhiccuped is still to run
  gen,            \* the number of connections, and the current pipe of XPUB
  inq, link,      \* XPUB's pipes: commands to read; "none", "live", "ended"
  filter,         \* xpub_t::filters, a bag of <<topic, pipe>>
  pending,        \* xpub_t::pending
  told,           \* what XPUB's user has received, a bag of topics
  npub, inbox,    \* messages published; parts to read at a subscriber
  has_message, message, more,   \* sub_t
  got             \* history: the parts the user received

pubvars == <<inq, link, filter, pending, told>>
datavars == <<npub, inbox, has_message, message, more, got>>
vars == <<setting, sf, subscriptions, outq, conn, gen, pubvars, datavars>>

Current(s) == <<s, IF setting.connects = "pub" THEN 1 ELSE gen[s]>>

(* All sockets exist and none is connected. *)
Init ==
  /\ setting \in Setting
  /\ sf = [s \in Sock |-> EmptyBag]
  /\ subscriptions = [s \in Sock |-> EmptyBag]
  /\ outq = [s \in Sock |-> << >>]
  /\ conn = [s \in Sock |-> "down"] /\ gen = [s \in Sock |-> 0]
  /\ inq = [p \in Pipe |-> << >>] /\ link = [p \in Pipe |-> "none"]
  /\ filter = EmptyBag /\ pending = << >> /\ told = EmptyBag
  /\ npub = 0 /\ inbox = [s \in Sock |-> << >>]
  /\ has_message = [s \in Sock |-> FALSE] /\ more = [s \in Sock |-> FALSE]
  /\ message = [s \in Sock |-> << >>] /\ got = [s \in Sock |-> << >>]
-----------------------------------------------------------------------------
(* The subscriber *)

(* Whether the subscriber has a pipe that keeps what is written to it: the *)
(* one that connects has from the start, but not between the loss of the   *)
(* connection and xhiccuped.                                               *)
Attached(s) == IF setting.connects = "sub" THEN conn[s] # "hiccup"
               ELSE conn[s] = "up"

(* dist_t::send_to_all, with the default of no limit for subscriptions. *)
send_to_all(s, cmd) ==
  /\ Len(outq[s]) < setting.queue
  /\ outq' = IF Attached(s) THEN [outq EXCEPT ![s] = Append(@, cmd)]
             ELSE outq

(* xsub_t::xsend: only the first of equal subscriptions and the end of the *)
(* last one are forwarded; unknown unsubscriptions are dropped.            *)
xsend(s, cmd, x) ==
  IF cmd = "subscribe"
  THEN /\ subscriptions' = [subscriptions EXCEPT ![s] = BagAdd(@, x)]
       /\ IF BagIn(x, subscriptions[s]) THEN UNCHANGED outq
          ELSE send_to_all(s, <<cmd, x>>)
  ELSE /\ subscriptions' = [subscriptions EXCEPT ![s] = BagRemove(@, x)]
       /\ IF CopiesIn(x, subscriptions[s]) # 1 THEN UNCHANGED outq
          ELSE send_to_all(s, <<cmd, x>>)

UserSub(s, x) == CopiesIn(x, sf[s])

Bounded(s, x) == UserSub(s, x) < MaxSubs
                 /\ CopiesIn(x, subscriptions[s]) < MaxSubs

(* xsub_t::xsend called by the user of an XSUB socket. *)
XSubSend(s, cmd, x) ==
  /\ setting.type = "XSUB"
  /\ cmd = "subscribe" => Bounded(s, x)
  /\ xsend(s, cmd, x)
  /\ UNCHANGED <<setting, sf, conn, gen, pubvars, datavars>>

(* sub_t::filter_subscribed and filter_unsubscribed, which the filter      *)
(* calls back: the command goes through XSUB's xsend.                      *)
Forward(s, cmd, x) == xsend(s, cmd, x)

(* sub_t::xsetsockopt (XS_SUBSCRIBE): the prefix filter passes on the      *)
(* first of equal subscriptions, the topic filter all.                     *)
Subscribe(s, x) ==
  /\ setting.type = "SUB" /\ Bounded(s, x)
  /\ sf' = [sf EXCEPT ![s] = BagAdd(@, x)]
  /\ IF setting.filter = "topic" \/ UserSub(s, x) = 0
     THEN Forward(s, "subscribe", x) ELSE UNCHANGED <<subscriptions, outq>>
  /\ UNCHANGED <<setting, conn, gen, pubvars, datavars>>

(* sub_t::xsetsockopt (XS_UNSUBSCRIBE) of an existing subscription: the    *)
(* topic filter never calls xs_filter_unsubscribed.                        *)
Unsubscribe(s, x) ==
  /\ setting.type = "SUB" /\ UserSub(s, x) > 0
  /\ sf' = [sf EXCEPT ![s] = BagRemove(@, x)]
  /\ IF setting.filter = "prefix" /\ UserSub(s, x) = 1
     THEN Forward(s, "unsubscribe", x) ELSE UNCHANGED <<subscriptions, outq>>
  /\ UNCHANGED <<setting, conn, gen, pubvars, datavars>>

(* The cached subscriptions, in the order of the map. *)
Cached(s) ==
  LET topics == SetToSortSeq(BagToSet(subscriptions[s]),
                             LAMBDA a, b : Len(a) < Len(b))
  IN [k \in 1 .. Len(topics) |-> <<"subscribe", topics[k]>>]
-----------------------------------------------------------------------------
(* Connections *)

(* The connection is made.  The side that binds gets a new pipe; XSUB      *)
(* sends the cached subscriptions to it (xsub_t::xattach_pipe).  XPUB's    *)
(* pipe is attached with nothing to read yet (xpub_t::xattach_pipe).       *)
Connect(s) ==
  /\ conn[s] = "down" /\ gen[s] < MaxConns
  /\ conn' = [conn EXCEPT ![s] = "up"]
  /\ gen' = [gen EXCEPT ![s] = @ + 1]
  /\ link' = [link EXCEPT ![<<s, IF setting.connects = "pub" THEN 1
                                 ELSE gen'[s]>>] = "live"]
  /\ outq' = IF setting.connects = "pub" THEN [outq EXCEPT ![s] = Cached(s)]
             ELSE outq
  /\ UNCHANGED <<setting, sf, subscriptions, inq, filter, pending, told,
                 datavars>>

(* A command crosses the wire and is written to XPUB's pipe. *)
Transfer(s) ==
  /\ conn[s] = "up" /\ outq[s] # << >>
  /\ Len(inq[Current(s)]) < setting.queue
  /\ outq' = [outq EXCEPT ![s] = Tail(@)]
  /\ inq' = [inq EXCEPT ![Current(s)] = Append(@, Head(outq[s]))]
  /\ UNCHANGED <<setting, sf, subscriptions, conn, gen, link, filter,
                 pending, told, datavars>>

(* The connection is lost (session_base_t::detach at both ends).  What was *)
(* not read from the wire is lost; a binding side's pipe ends; a           *)
(* connecting XSUB's pipe hiccups.                                         *)
Lost(s) ==
  /\ conn[s] = "up"
  /\ conn' = [conn EXCEPT ![s] = IF setting.connects = "sub" THEN "hiccup"
                                 ELSE "down"]
  /\ outq' = [outq EXCEPT ![s] = << >>]
  /\ link' = IF setting.connects = "pub" THEN link
             ELSE [link EXCEPT ![Current(s)] = "ended"]
  /\ UNCHANGED <<setting, sf, subscriptions, gen, inq, filter, pending, told,
                 datavars>>

(* Mutant: the subscriptions are not sent again. *)
xhiccuped_Silent(s) ==
  /\ conn[s] = "hiccup"
  /\ conn' = [conn EXCEPT ![s] = "down"]
  /\ UNCHANGED <<setting, sf, subscriptions, outq, gen, pubvars, datavars>>

(* xsub_t::xhiccuped: the cached subscriptions go into the new pipe. *)
xhiccuped(s) ==
  /\ conn[s] = "hiccup"
  /\ conn' = [conn EXCEPT ![s] = "down"]
  /\ outq' = [outq EXCEPT ![s] = Cached(s)]
  /\ UNCHANGED <<setting, sf, subscriptions, gen, pubvars, datavars>>
-----------------------------------------------------------------------------
(* The publisher *)

Subscribers(B, x) == {e \in BagToSet(B) : e[1] = x}

(* The result of pf_subscribe and pf_unsubscribe, as xpub_t reads it.  The *)
(* topic filter passes on xs_filter_subscribed's error, which is true, and *)
(* returns 0 for every unsubscription it knows.                            *)
Unique(cmd, x, after) ==
  IF setting.filter = "topic" THEN cmd = "subscribe"
  ELSE IF cmd = "subscribe" THEN Subscribers(filter, x) = {}
  ELSE Subscribers(after, x) = {}

(* xpub_t::xread_activated takes one command; it goes on until the pipe    *)
(* is empty, and the next one may only arrive meanwhile.                   *)
xread_activated(p) ==
  /\ inq[p] # << >> /\ Len(pending) < setting.queue
  /\ LET cmd == Head(inq[p])[1]
         x == Head(inq[p])[2]
         after == IF cmd = "subscribe" THEN BagAdd(filter, <<x, p>>)
                  ELSE BagRemove(filter, <<x, p>>)
     IN /\ filter' = after
        /\ pending' = IF Unique(cmd, x, after)
                      THEN Append(pending, <<cmd, x>>) ELSE pending
  /\ inq' = [inq EXCEPT ![p] = Tail(@)]
  /\ UNCHANGED <<setting, sf, subscriptions, outq, conn, gen, link, told,
                 datavars>>

(* pf_unsubscribe_all: the topic filter drops every entry of the pipe, the *)
(* prefix filter takes one from each reference count.                      *)
unsubscribe_all(p) ==
  IF setting.filter = "topic" THEN RestrictDomain(filter, LAMBDA e : e[2] # p)
  ELSE filter (-) SetToBag({e \in BagToSet(filter) : e[2] = p})

(* xpub_t::filter_unsubscribed, for each of the topics. *)
filter_unsubscribed(topics) ==
  LET unsubs == SetToSortSeq(topics, LAMBDA a, b : Len(a) < Len(b))
  IN [k \in 1 .. Len(unsubs) |-> <<"unsubscribe", unsubs[k]>>]

(* Mutant: the user is not told of the topics a pipe leaves behind. *)
xterminated_Quiet(p) ==
  /\ link[p] = "ended" /\ inq[p] = << >>
  /\ link' = [link EXCEPT ![p] = "none"]
  /\ filter' = unsubscribe_all(p)
  /\ UNCHANGED <<setting, sf, subscriptions, outq, conn, gen, inq, pending,
                 told, datavars>>

(* xpub_t::xterminated, after the last command has been read; the prefix   *)
(* filter reports the topics that are left without subscribers.            *)
xterminated(p) ==
  /\ link[p] = "ended" /\ inq[p] = << >>
  /\ link' = [link EXCEPT ![p] = "none"]
  /\ filter' = unsubscribe_all(p)
  /\ LET dropped == {e[1] : e \in BagToSet(filter)}
                      \ {e[1] : e \in BagToSet(filter')}
     IN pending' = IF setting.filter = "topic" THEN pending
                   ELSE pending \o filter_unsubscribed(dropped)
  /\ UNCHANGED <<setting, sf, subscriptions, outq, conn, gen, inq, told,
                 datavars>>

(* The pipe of a connecting XPUB ends: its endpoint is shut down. *)
Shutdown(s) ==
  /\ setting.connects = "pub" /\ conn[s] = "down" /\ gen[s] = MaxConns
  /\ link[<<s, 1>>] = "live"
  /\ link' = [link EXCEPT ![<<s, 1>>] = "ended"]
  /\ UNCHANGED <<setting, sf, subscriptions, outq, conn, gen, inq, filter,
                 pending, told, datavars>>

Account(B, cmd) == IF cmd[1] = "subscribe" THEN BagAdd(B, cmd[2])
                   ELSE BagRemove(B, cmd[2])

(* xpub_t::xrecv: the user passes the command on to an XSUB socket. *)
xpub_xrecv ==
  /\ pending # << >>
  /\ told' = Account(told, Head(pending))
  /\ pending' = Tail(pending)
  /\ UNCHANGED <<setting, sf, subscriptions, outq, conn, gen, inq, link,
                 filter, datavars>>

Matching(x) == {e[2] : e \in {y \in BagToSet(filter) : IsPrefix(y[1], x)}}

Parts(x, n) == [k \in 1 .. n |-> [topic |-> x, id |-> npub, part |-> k,
                                  more |-> k < n]]

(* xpub_t::xsend of a message of n parts; the connected subscribers with a *)
(* matching pipe get it.                                                   *)
Publish(x, n) ==
  /\ npub < setting.msgs
  /\ npub' = npub + 1
  /\ inbox' = [s \in Sock |->
                 IF conn[s] = "up" /\ Current(s) \in Matching(x)
                 THEN inbox[s] \o Parts(x, n) ELSE inbox[s]]
  /\ UNCHANGED <<setting, sf, subscriptions, outq, conn, gen, pubvars,
                 has_message, message, more, got>>
-----------------------------------------------------------------------------
(* Receiving *)

(* sub_t::match; XSUB does not filter. *)
match(s, x) == setting.type = "SUB" =>
                 \E t \in BagToSet(sf[s]) : IsPrefix(t, x)

(* The first message of the inbox that matches; those before are dropped.  *)
Skip(s) ==
  LET good == {k \in 1 .. Len(inbox[s]) : /\ inbox[s][k].part = 1
                                          /\ match(s, inbox[s][k].topic)}
  IN IF good = {} THEN << >>
     ELSE SubSeq(inbox[s], Min(good), Len(inbox[s]))

Take(s, queue) ==
  /\ got' = [got EXCEPT ![s] = Append(@, Head(queue))]
  /\ more' = [more EXCEPT ![s] = Head(queue).more]
  /\ inbox' = [inbox EXCEPT ![s] = Tail(queue)]

(* sub_t::xrecv, and xsub_t::xrecv without a filter. *)
xrecv(s) ==
  /\ IF has_message[s]
     THEN /\ got' = [got EXCEPT ![s] = Append(@, message[s])]
          /\ more' = [more EXCEPT ![s] = message[s].more]
          /\ has_message' = [has_message EXCEPT ![s] = FALSE]
          /\ UNCHANGED inbox
     ELSE /\ UNCHANGED has_message
          /\ LET queue == IF more[s] THEN inbox[s] ELSE Skip(s)
             IN IF queue # << >> THEN Take(s, queue)
                ELSE inbox' = [inbox EXCEPT ![s] = << >>]
                     /\ UNCHANGED <<got, more>>
  /\ UNCHANGED <<setting, sf, subscriptions, outq, conn, gen, pubvars, npub,
                 message>>

(* Mutant: has_in also runs in the middle of a message. *)
xhas_in_Middle(s) ==
  /\ setting.type = "SUB" /\ ~has_message[s]
  /\ LET queue == Skip(s)
     IN IF queue = << >>
        THEN inbox' = [inbox EXCEPT ![s] = << >>]
             /\ UNCHANGED <<has_message, message>>
        ELSE /\ message' = [message EXCEPT ![s] = Head(queue)]
             /\ has_message' = [has_message EXCEPT ![s] = TRUE]
             /\ inbox' = [inbox EXCEPT ![s] = Tail(queue)]
  /\ UNCHANGED <<setting, sf, subscriptions, outq, conn, gen, pubvars, npub,
                 more, got>>

(* sub_t::xhas_in: a matching message is taken from the pipe and kept. *)
xhas_in(s) ==
  /\ setting.type = "SUB" /\ ~more[s] /\ ~has_message[s]
  /\ LET queue == Skip(s)
     IN IF queue = << >>
        THEN inbox' = [inbox EXCEPT ![s] = << >>]
             /\ UNCHANGED <<has_message, message>>
        ELSE /\ message' = [message EXCEPT ![s] = Head(queue)]
             /\ has_message' = [has_message EXCEPT ![s] = TRUE]
             /\ inbox' = [inbox EXCEPT ![s] = Tail(queue)]
  /\ UNCHANGED <<setting, sf, subscriptions, outq, conn, gen, pubvars, npub,
                 more, got>>

Next ==
  \/ \E s \in setting.socks :
       \/ \E x \in setting.topics :
                           \/ Subscribe(s, x) \/ Unsubscribe(s, x)
                           \/ \E c \in {"subscribe", "unsubscribe"} :
                                XSubSend(s, c, x)
       \/ Connect(s) \/ Transfer(s) \/ Lost(s) \/ xhiccuped(s)
       \/ Shutdown(s) \/ xrecv(s) \/ xhas_in(s)
  \/ \E p \in Pipe : xread_activated(p) \/ xterminated(p)
  \/ xpub_xrecv
  \/ \E x \in setting.topics, n \in 1 .. 2 : Publish(x, n)

Spec == Init /\ [][Next]_vars
-----------------------------------------------------------------------------
(* Properties *)

Known(p) == {e[1] : e \in {y \in BagToSet(filter) : y[2] = p}}

Apply(known, cmd) == IF cmd[1] = "subscribe" THEN known \cup {cmd[2]}
                     ELSE known \ {cmd[2]}

(* Subscriptions are never lost and never linger: what XPUB knows of a     *)
(* connection, with the commands that are on their way to it, is exactly   *)
(* what the XSUB socket is subscribed to, however subscriptions, lost      *)
(* connections and resent subscriptions interleave.  (Where XPUB connects, *)
(* only for the first connection: see NoDeadPipe.)                         *)
InSync == \A s \in Sock :
  conn[s] = "up" /\ (setting.connects = "sub" \/ gen[s] = 1) =>
    FoldLeft(Apply, Known(Current(s)), inq[Current(s)] \o outq[s])
      = BagToSet(subscriptions[s])

(* The user of XPUB is told of every subscription once and of its end: the *)
(* commands received and pending give exactly the topics that some pipe is *)
(* subscribed to, with one copy each, also when pipes terminate.           *)
UpstreamExact == setting.filter = "prefix" =>
  FoldLeft(Account, told, pending)
    = SetToBag({e[1] : e \in BagToSet(filter)})

(* A subscriber's user sees whole messages only, in the order they were    *)
(* sent, although messages are skipped, subscriptions change in the middle *)
(* of a message and has_in takes messages ahead of recv.                   *)
WholeToUser == \A s \in Sock : \A k \in 1 .. Len(got[s]) :
  LET this == got[s][k] IN
    IF k = 1 THEN this.part = 1
    ELSE LET prev == got[s][k - 1] IN
      IF prev.more THEN this.id = prev.id /\ this.part = prev.part + 1
      ELSE this.part = 1 /\ this.id > prev.id

(* "Remove the pipe from all the filters" (xpub_t::xterminated): a filter  *)
(* never keeps a pipe that has terminated, and so xsend never marks one as *)
(* matching.                                                               *)
NoDeadPipe == \A e \in BagToSet(filter) : link[e[2]] # "none"
=============================================================================
