------------------------------- MODULE Ypipe --------------------------------
(***************************************************************************)
(* ypipe_t, the lock-free single-writer single-reader queue every message  *)
(* and every inter-thread command travels through (src/ypipe.hpp on top of *)
(* src/yqueue.hpp).                                                        *)
(*                                                                         *)
(* The queue's cells are numbered in the order yqueue_t hands them out, so *)
(* a pointer to a cell is its number and NULL is Null.  buf holds every    *)
(* item ever written and not taken back by unwrite; the cell with number n *)
(* is buf[n + 1], and queue.back () is cell Len(buf).  One action is one   *)
(* access to the shared pointer c together with the thread-local work      *)
(* around it; flush, which may access c twice, is two actions.             *)
(*                                                                         *)
(* The two users of ypipe_t, mailbox_t and pipe_t, stop reading when       *)
(* check_read returns false and start again when the writer, told so by    *)
(* flush, wakes them up.  asleep and owed are the two halves of that       *)
(* agreement; after the writer is gone (closed) the reader only drains.    *)
(***************************************************************************)
EXTENDS Integers, Sequences

CONSTANTS Value,    \* payloads
          MaxItems  \* bound on the number of items written

ASSUME MaxItemsAssumption == MaxItems \in Nat

VARIABLES
  buf,     \* the cells' contents, by cell number
  front,   \* number of queue.front ()
  w,       \* first unflushed cell (writer only)
  f,       \* first cell flush will not publish (writer only)
  r,       \* first cell not prefetched by the reader (reader only)
  c,       \* the shared pointer: last published cell, or Null
  wpc,     \* "set" between the two accesses of flush to c
  asleep,  \* the last check_read returned false and nobody woke the reader
  owed,    \* flush returned false and the reader was not woken yet
  closed   \* the writer is gone and the reader drains the queue

vars == <<buf, front, w, f, r, c, wpc, asleep, owed, closed>>

Null == -1

Item == [val : Value, more : BOOLEAN]

TypeOK ==
  /\ buf \in Seq(Item)
  /\ front \in 0 .. MaxItems /\ w \in 0 .. MaxItems /\ f \in 0 .. MaxItems
  /\ r \in 0 .. MaxItems \cup {Null} /\ c \in 0 .. MaxItems \cup {Null}
  /\ wpc \in {"idle", "set"}
  /\ asleep \in BOOLEAN /\ owed \in BOOLEAN /\ closed \in BOOLEAN

Back == Len(buf)

(* The constructor: one terminator cell, to which every pointer refers. *)
Init ==
  /\ buf = << >>
  /\ front = 0 /\ w = 0 /\ f = 0 /\ r = 0 /\ c = 0
  /\ wpc = "idle"
  /\ asleep = FALSE /\ owed = FALSE /\ closed = FALSE
-----------------------------------------------------------------------------
(* The writer *)

Writing == wpc = "idle" /\ ~closed

(* Mutant: f moves with every item. *)
Write_Incomplete(v, incomplete) ==
  /\ Writing /\ Back < MaxItems
  /\ buf' = Append(buf, [val |-> v, more |-> incomplete])
  /\ f' = Back + 1
  /\ UNCHANGED <<front, w, r, c, wpc, asleep, owed, closed>>

(* write (value_, incomplete_): f moves only at the end of a message. *)
Write(v, incomplete) ==
  /\ Writing /\ Back < MaxItems
  /\ buf' = Append(buf, [val |-> v, more |-> incomplete])
  /\ f' = IF incomplete THEN f ELSE Back + 1
  /\ UNCHANGED <<front, w, r, c, wpc, asleep, owed, closed>>

(* Mutant: an item of a finished message may be taken back. *)
Unwrite_Finished ==
  /\ Writing
  /\ Back > 0
  /\ buf' = SubSeq(buf, 1, Back - 1)
  /\ UNCHANGED <<front, w, f, r, c, wpc, asleep, owed, closed>>

(* unwrite (value_): take back an item of an unfinished message. *)
Unwrite ==
  /\ Writing
  /\ f # Back
  /\ buf' = SubSeq(buf, 1, Back - 1)
  /\ UNCHANGED <<front, w, f, r, c, wpc, asleep, owed, closed>>

(* flush (), the compare-and-swap of c from w to f.  When it finds another *)
(* value flush goes on to the plain store.                                 *)
FlushCas ==
  /\ Writing
  /\ w # f
  /\ IF c = w
     THEN c' = f /\ w' = f /\ wpc' = wpc
     ELSE wpc' = "set" /\ UNCHANGED <<c, w>>
  /\ UNCHANGED <<buf, front, f, r, asleep, owed, closed>>

(* Mutant: flush returns true after the plain store. *)
FlushSet_NoWake ==
  /\ wpc = "set"
  /\ c' = f /\ w' = f
  /\ wpc' = "idle"
  /\ UNCHANGED <<buf, front, f, r, asleep, owed, closed>>

(* flush (), the plain store: it returns false and the caller owes the     *)
(* reader a wake-up.                                                       *)
FlushSet ==
  /\ wpc = "set"
  /\ c' = f /\ w' = f
  /\ wpc' = "idle"
  /\ owed' = TRUE
  /\ UNCHANGED <<buf, front, f, r, asleep, closed>>

(* The caller of flush wakes the reader: signaler_send, or activate_read. *)
Wake ==
  /\ owed
  /\ owed' = FALSE /\ asleep' = FALSE
  /\ UNCHANGED <<buf, front, w, f, r, c, wpc, closed>>

(* The writer stops using the pipe (pipe_t drops its outpipe). *)
Close ==
  /\ Writing
  /\ closed' = TRUE
  /\ UNCHANGED <<buf, front, w, f, r, c, wpc, asleep, owed>>
-----------------------------------------------------------------------------
(* The reader *)

Prefetched == front # r /\ r # Null

Reading == ~asleep \/ closed

(* Mutant: c is only read. *)
Prefetch_NoSwap == r' = c /\ c' = c

(* The compare-and-swap of check_read: c goes from front to Null when      *)
(* nothing was published beyond front, and r gets the old value of c.      *)
Prefetch ==
  /\ r' = c
  /\ c' = IF c = front THEN Null ELSE c

(* Mutant: the reader goes on reading. *)
CheckReadEmpty_Awake ==
  /\ Reading /\ ~Prefetched
  /\ c = front \/ c = Null
  /\ Prefetch
  /\ UNCHANGED <<buf, front, w, f, wpc, asleep, owed, closed>>

(* check_read () found nothing prefetched and nothing published. *)
CheckReadEmpty ==
  /\ Reading /\ ~Prefetched
  /\ c = front \/ c = Null
  /\ Prefetch
  /\ asleep' = TRUE
  /\ UNCHANGED <<buf, front, w, f, wpc, owed, closed>>

(* check_read () prefetched the items that were published meanwhile. *)
CheckRead ==
  /\ Reading /\ ~Prefetched
  /\ c # front /\ c # Null
  /\ Prefetch
  /\ UNCHANGED <<buf, front, w, f, wpc, asleep, owed, closed>>

(* Mutant: a cell is popped without check_read. *)
Read_Unchecked ==
  /\ Reading
  /\ front' = front + 1
  /\ UNCHANGED <<buf, w, f, r, c, wpc, asleep, owed, closed>>

(* read (value_), once check_read has returned true. *)
Read ==
  /\ Reading /\ Prefetched
  /\ front' = front + 1
  /\ UNCHANGED <<buf, w, f, r, c, wpc, asleep, owed, closed>>
-----------------------------------------------------------------------------
Next ==
  \/ \E v \in Value, incomplete \in BOOLEAN : Write(v, incomplete)
  \/ Unwrite
  \/ FlushCas
  \/ FlushSet
  \/ Wake
  \/ Close
  \/ CheckReadEmpty
  \/ CheckRead
  \/ Read

Spec == Init /\ [][Next]_vars

(* A flush under way completes, the wake-up it owes is delivered and a     *)
(* reader that is awake keeps reading.                                     *)
Fairness ==
  /\ WF_vars(FlushSet)
  /\ WF_vars(Wake)
  /\ WF_vars(CheckRead)
  /\ WF_vars(Read)

FairSpec == Spec /\ Fairness
-----------------------------------------------------------------------------
(* Properties *)

(* The two threads never touch the same cell, and no pointer leaves the    *)
(* live part of yqueue_t (whose chunks are freed and reused): the reader's *)
(* cells end where the writer's begin, unwrite never takes back a          *)
(* published item, and r is not Null during the pipe's lifetime ("During   *)
(* pipe's lifetime r should never be NULL", check_read).                   *)
CellsDisjoint ==
  /\ front <= w /\ w <= f /\ f <= Back
  /\ IF r = Null THEN closed ELSE front <= r /\ r <= w

(* flush's plain store to c happens only while the reader sleeps: "This    *)
(* means that the reader is asleep.  Therefore we don't care about         *)
(* thread-safeness and update c in non-atomic manner."                     *)
StoreWhileAsleep == wpc = "set" => c = Null /\ asleep /\ ~owed /\ ~closed

(* A reader that sleeps over a published item has a wake-up coming, and no *)
(* wake-up is ever owed to a reader that is awake: flush returns false     *)
(* exactly when the reader went to sleep since the last wake-up.           *)
NoLostWakeup == ~closed => /\ (asleep /\ front < w) => owed
                           /\ owed => asleep /\ front < w

(* The three together: the two threads use the queue safely, with no lock  *)
(* and with no wake-up lost or sent twice.                                 *)
QueueSafe == CellsDisjoint /\ StoreWhileAsleep /\ NoLostWakeup

(* Only whole messages are published: the last item visible to the reader  *)
(* ends a message, whatever write, unwrite and flush were called before    *)
(* ("Incomplete items are never flushed down the stream").                 *)
WholeMessages == w > 0 => ~buf[w].more

(* check_read returns false only when every published item was read, in    *)
(* normal use and when the reader drains the pipe of a writer that is gone *)
(* (process_pipe_term_ack): no flushed message is left in the cells.       *)
EmptyMeansDrained == [][CheckReadEmpty => front = w]_vars

(* Every published item is eventually read, through any number of sleeps   *)
(* and wake-ups.                                                           *)
PublishedIsRead == \A n \in 1 .. MaxItems : w >= n ~> front >= n

(* The refinement mapping to the abstract channel: what c publishes is     *)
(* what is sent, and popping a cell takes the item.                        *)
Channel == INSTANCE Fifo WITH sent <- SubSeq(buf, 1, w), taken <- front

(* ypipe_t implements the channel: items are read in the order they were   *)
(* written, none lost, none twice, and become visible in whole messages.   *)
ImplementsFifo == Channel!Spec
=============================================================================
