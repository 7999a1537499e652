--------------------------------- MODULE Msg ---------------------------------
(***************************************************************************)
(* Messages (src/msg.cpp): message structures, which are copied around as  *)
(* plain data, and the reference-counted contents of large ones.  The      *)
(* structures are the user's and those in pipes; threads use them at the   *)
(* same time, also while dist_t::distribute (src/dist.cpp) writes copies   *)
(* of a message into pipes.                                                *)
(***************************************************************************)
EXTENDS Integers, FiniteSets

CONSTANTS
  Msg,         \* message structures
  Content      \* contents that can be allocated; bound

VARIABLES
  msg,         \* structure -> [type, content, shared]; type 0 is invalid
  refcnt,      \* content -> atomic_counter_t
  mem,         \* content -> "none", "live", "freed"
  dist,        \* the structure that distribute works on, or None
  left, failed,\* copies it has still to write, those that failed
  bad          \* a content was used or freed after it was freed

vars == <<msg, refcnt, mem, dist, left, failed, bad>>

None == "none"
Invalid == [type |-> "0", content |-> None, shared |-> FALSE]
Empty == [type |-> "vsm", content |-> None, shared |-> FALSE]
check(m) == msg[m].type # "0"
Lmsg(m) == msg[m].type = "lmsg"

Init ==
  /\ msg = [m \in Msg |-> Invalid]
  /\ refcnt = [c \in Content |-> 0] /\ mem = [c \in Content |-> None]
  /\ dist = None /\ left = 0 /\ failed = 0 /\ bad = FALSE
-----------------------------------------------------------------------------
(* msg_t::close of a structure x: the count and the memory afterwards. *)
Drop(x) ==
  IF x.type # "lmsg" THEN UNCHANGED <<refcnt, mem, bad>>
  ELSE LET c == x.content
           n == IF x.shared THEN refcnt[c] - 1 ELSE 0
       IN /\ refcnt' = [refcnt EXCEPT ![c] = n]
          /\ mem' = IF n = 0 THEN [mem EXCEPT ![c] = "freed"] ELSE mem
          /\ bad' = (bad \/ mem[c] # "live")

(* init, init_size of a small message *)
init(m) ==
  /\ ~check(m)
  /\ msg' = [msg EXCEPT ![m] = Empty]
  /\ UNCHANGED <<refcnt, mem, dist, left, failed, bad>>

(* init_size of a large message, init_data; the count is not used yet. *)
init_size(m) == \E c \in Content :
  /\ ~check(m) /\ mem[c] = None
  /\ msg' = [msg EXCEPT ![m] = [type |-> "lmsg", content |-> c,
                                shared |-> FALSE]]
  /\ mem' = [mem EXCEPT ![c] = "live"]
  /\ UNCHANGED <<refcnt, dist, left, failed, bad>>

close(m) ==
  /\ check(m) /\ m # dist
  /\ Drop(msg[m])
  /\ msg' = [msg EXCEPT ![m] = Invalid]
  /\ UNCHANGED <<dist, left, failed>>

(* move: what the target held is dropped, the source becomes empty. *)
move(m, src) ==
  /\ check(m) /\ check(src) /\ m # src /\ dist \notin {m, src}
  /\ Drop(msg[m])
  /\ msg' = [msg EXCEPT ![m] = msg[src], ![src] = Empty]
  /\ UNCHANGED <<dist, left, failed>>

(* Mutant: a shared message gets no further reference. *)
Share_Once(n, x) == IF x.shared THEN n ELSE 2

(* copy: one more reference, or the first two. *)
Share(n, x) == IF x.shared THEN n + 1 ELSE 2

(* copy into a structure that holds no content. *)
copy(m, src) ==
  /\ check(m) /\ check(src) /\ m # src /\ ~Lmsg(m) /\ dist \notin {m, src}
  /\ IF Lmsg(src)
     THEN /\ refcnt' = [refcnt EXCEPT ![msg[src].content] =
                          Share(@, msg[src])]
          /\ bad' = (bad \/ mem[msg[src].content] # "live")
          /\ msg' = [msg EXCEPT ![m] = [msg[src] EXCEPT !.shared = TRUE],
                                ![src].shared = TRUE]
     ELSE /\ msg' = [msg EXCEPT ![m] = msg[src]]
          /\ UNCHANGED <<refcnt, bad>>
  /\ UNCHANGED <<mem, dist, left, failed>>
-----------------------------------------------------------------------------
(* distribute a large message to n pipes *)

(* add_refs (n - 1) *)
add_refs(m, n) ==
  /\ dist = None /\ Lmsg(m)
  /\ LET x == msg[m]
         shared == x.shared \/ n > 1
     IN /\ refcnt' = [refcnt EXCEPT ![x.content] =
                        IF n = 1 THEN @ ELSE IF x.shared THEN @ + n - 1 ELSE n]
        /\ msg' = [msg EXCEPT ![m].shared = shared]
  /\ dist' = m /\ left' = n /\ failed' = 0
  /\ UNCHANGED <<mem, bad>>

(* A copy goes into a pipe. *)
Push(m) ==
  /\ dist # None /\ left > 0 /\ ~check(m)
  /\ msg' = [msg EXCEPT ![m] = msg[dist]]
  /\ left' = left - 1
  /\ UNCHANGED <<refcnt, mem, dist, failed, bad>>

(* A full pipe refuses its copy. *)
PushFails ==
  /\ dist # None /\ left > 0
  /\ left' = left - 1 /\ failed' = failed + 1
  /\ UNCHANGED <<msg, refcnt, mem, dist, bad>>

(* rm_refs (failed), and the original is forgotten.  When the count drops  *)
(* to zero, close counts down once more.                                   *)
rm_refs ==
  /\ dist # None /\ left = 0
  /\ LET x == msg[dist] IN
       IF failed = 0 THEN UNCHANGED <<refcnt, mem, bad>>
       ELSE IF ~x.shared THEN Drop(x)
       ELSE LET n == refcnt[x.content] - failed
            IN /\ refcnt' = [refcnt EXCEPT ![x.content] =
                               IF n = 0 THEN n - 1 ELSE n]
               /\ bad' = (bad \/ mem[x.content] # "live")
               /\ UNCHANGED mem
  /\ msg' = [msg EXCEPT ![dist] = Empty]
  /\ dist' = None /\ left' = 0 /\ failed' = 0

Next ==
  \/ \E m \in Msg : init(m) \/ init_size(m) \/ close(m) \/ Push(m)
  \/ \E m, src \in Msg : move(m, src) \/ copy(m, src)
  \/ \E m \in Msg, n \in 1 .. Cardinality(Msg) - 1 : add_refs(m, n)
  \/ PushFails \/ rm_refs

Spec == Init /\ [][Next]_vars
-----------------------------------------------------------------------------
(* Properties *)

(* m stands for a reference.  The structure that is distributed stands for *)
(* those of the copies still to be written and of those that failed.       *)
Refers(m) == Lmsg(m) /\ (m = dist => left + failed > 0)

(* The structures that hold c, and the references of the distributed one *)
Held(c) == {m \in Msg : Lmsg(m) /\ msg[m].content = c /\ m # dist}
Due(c) == IF dist # None /\ msg[dist].content = c THEN left + failed ELSE 0
References(c) == Cardinality(Held(c)) + Due(c)

(* The count of a content is the number of its references, those that      *)
(* distribute has still to write or to give back included, and as long as  *)
(* there are any no thread frees it; nothing is used or freed after that.  *)
(* A content without references was freed, but for one case: rm_refs gave  *)
(* back the last of them, and its close counted down to -1.                *)
CountExact ==
  /\ ~bad
  /\ \A c \in Content :
       /\ References(c) > 0 => mem[c] = "live"
       /\ \A m \in Msg : Refers(m) /\ msg[m].content = c =>
            References(c) = IF msg[m].shared THEN refcnt[c] ELSE 1
       /\ References(c) = 0 /\ mem[c] = "live" => refcnt[c] = -1

(* "If the number of references drops to 0, the message is closed": a      *)
(* content that no structure refers to has been freed.                     *)
NoLeak == \A c \in Content : mem[c] = "live" => References(c) > 0
=============================================================================
