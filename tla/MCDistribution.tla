--------------------------- MODULE MCDistribution ---------------------------
(***************************************************************************)
(* Publish-subscribe: the subscriptions between XPUB, XSUB and SUB, the    *)
(* filters that match messages with them, the distributor that sends a     *)
(* message to the matching pipes and the message content they share.  The  *)
(* four are checked side by side: `which' says which of them a behaviour   *)
(* is about, and the variables the others use keep one value.              *)
(***************************************************************************)
EXTENDS Integers

CONSTANTS Checked,                              \* those of the four to check
          DistPipe, NULL,                       \* Dist
          Sock, MaxSubs, MaxConns, PubSetting,  \* PubSub
          Kind, Sub, User, MaxFilterSubs,       \* Filters
          Msg, Content                          \* Msg

VARIABLES
  which,
  more, link,      \* Dist and PubSub
  told,            \* PubSub and Filters
  matches, pipes, matching, active, eligible, out_active, full, pc, part, i,
  owners, begun,                                                    \* Dist
  setting, sf, subscriptions, outq, conn, gen, inq, filter, pending, npub,
  inbox, has_message, message, got,                                 \* PubSub
  kind, pf, tf, subs,                                               \* Filters
  msg, refcnt, mem, dist, left, failed, bad                                 \* Msg

distvars == <<matches, pipes, matching, active, eligible, out_active, full,
              pc, part, i, owners, begun>>
pubvars == <<setting, sf, subscriptions, outq, conn, gen, inq, filter,
             pending, npub, inbox, has_message, message, got>>
filtervars == <<kind, pf, tf, subs>>
msgvars == <<msg, refcnt, mem, dist, left, failed, bad>>
stream == <<more, link>>

Char == 0 .. 3
FPrefix == {<< >>} \cup {<<c>> : c \in Char} \cup {<<1, c>> : c \in Char}
a == 97
b == 98
Dot == 46
Star == 42
High == 200
FTopic == {<<a, 0, b>>, <<High>>, <<a, Dot, Star>>, <<Star, Dot, b>>}
FData == FPrefix \cup {<<1, 2, 0>>} \cup
  {<<a>>, <<a, b>>, <<a, Dot, b>>, <<b, Dot, b, a>>, <<a, Dot>>, <<Dot, b>>,
   <<High>>, <<a, 0, Dot, b>>, <<a, Dot, 0>>}

Short == <<1>>
Long == <<1, 2>>
PubTopic == {Short, Long}
One == CHOOSE s \in Sock : TRUE

With(c, t, f, ss, xs, m, q) ==
  [connects |-> c, type |-> t, filter |-> f, socks |-> ss, topics |-> xs,
   msgs |-> m, queue |-> q]

(* Two subscribers of one topic; one subscriber of two topics; the topic   *)
(* filter; one subscriber that also receives messages; XPUB connecting.    *)
Published ==
  {With("sub", "XSUB", "prefix", Sock, {Short}, 0, 1),
   With("sub", "XSUB", "prefix", {One}, PubTopic, 0, 1),
   With("sub", "SUB", "topic", {One}, {Short}, 1, 2),
   With("sub", "SUB", "prefix", {One}, {Short}, 2, 1),
   With("sub", "SUB", "prefix", {One}, PubTopic, 1, 1),
   With("pub", "SUB", "prefix", {One}, PubTopic, 0, 1)}

(* XPUB connects to one subscriber and sends. *)
PubConnects == {With("pub", "SUB", "prefix", {One}, {Short}, 1, 2)}

D == INSTANCE Dist WITH Pipe <- DistPipe
P == INSTANCE PubSub WITH Topic <- PubTopic, Setting <- PubSetting
F == INSTANCE Filters WITH Prefix <- FPrefix, Topic <- FTopic, Data <- FData,
                           MaxSubs <- MaxFilterSubs
M == INSTANCE Msg

NoDist ==
  /\ matches = 0 /\ pipes = 0 /\ matching = 0 /\ active = 0
  /\ eligible = 0 /\ out_active = 0 /\ full = 0 /\ pc = 0 /\ part = 0
  /\ i = 0 /\ owners = 0 /\ begun = 0

NoPubSub ==
  /\ setting = 0 /\ sf = 0 /\ subscriptions = 0 /\ outq = 0 /\ conn = 0
  /\ gen = 0 /\ inq = 0 /\ filter = 0 /\ pending = 0 /\ npub = 0
  /\ inbox = 0 /\ has_message = 0 /\ message = 0 /\ got = 0

NoFilters ==
  /\ kind = 0 /\ pf = 0 /\ tf = 0 /\ subs = 0

NoMsg ==
  /\ msg = 0 /\ refcnt = 0 /\ mem = 0 /\ dist = 0 /\ left = 0 /\ failed = 0
  /\ bad = 0

NoStream ==
  /\ more = 0 /\ link = 0

Init ==
  /\ which \in Checked
  /\ \/ /\ which = "dist" /\ D!Init
        /\ told = 0 /\ NoPubSub /\ NoFilters /\ NoMsg
     \/ /\ which = "pubsub" /\ P!Init
        /\ NoDist /\ NoFilters /\ NoMsg
     \/ /\ which = "filters" /\ F!Init
        /\ NoStream /\ NoDist /\ NoPubSub /\ NoMsg
     \/ /\ which = "msg" /\ M!Init
        /\ NoStream /\ told = 0 /\ NoDist /\ NoPubSub /\ NoFilters

Next ==
  \/ /\ which = "dist" /\ D!Next
     /\ UNCHANGED <<which, told, pubvars, filtervars, msgvars>>
  \/ /\ which = "pubsub" /\ P!Next
     /\ UNCHANGED <<which, distvars, filtervars, msgvars>>
  \/ /\ which = "filters" /\ F!Next
     /\ UNCHANGED <<which, stream, distvars, pubvars, msgvars>>
  \/ /\ which = "msg" /\ M!Next
     /\ UNCHANGED <<which, stream, told, distvars, pubvars, filtervars>>

Spec == Init /\ [][Next]_<<which, stream, told, distvars, pubvars, filtervars,
                           msgvars>>
-----------------------------------------------------------------------------
(* No pipe is forgotten by the distributor (Dist). *)
EligibleKept == which = "dist" => D!EligibleKept

(* No pipe gets a message with its first or its last parts missing (Dist). *)
WholeMessages == which = "dist" => D!WholeMessages /\ D!NoTailLost

(* The count of a shared content is the number of its references, also     *)
(* while distribute writes copies, pipes refuse them and other threads     *)
(* close theirs, and no content is used after it was freed (Msg).          *)
RefsExact == which = "msg" => M!CountExact

(* What XPUB knows of a connection, with the commands on their way, is     *)
(* what the other side is subscribed to, whatever is lost (PubSub).        *)
InSync == which = "pubsub" => P!InSync

(* Those who are told of subscriptions know exactly the prefixes somebody  *)
(* wants, also when pipes terminate (PubSub, Filters).                     *)
UpstreamExact == /\ which = "pubsub" => P!UpstreamExact
                 /\ which = "filters" => F!UpstreamExact

(* A subscriber's user sees whole messages only, in order (PubSub). *)
WholeToUser == which = "pubsub" => P!WholeToUser

(* A message matches exactly the subscribers that want it, and the trie    *)
(* has no redundant node and no empty slot at the ends of a table          *)
(* (Filters).                                                              *)
MatchExact == which = "filters" => F!MatchExact /\ F!TrieTight

(* "Remove the pipe from all the filters": no filter refers to a pipe that *)
(* has terminated (PubSub).                                                *)
NoDeadPipe == which = "pubsub" => P!NoDeadPipe
=============================================================================
