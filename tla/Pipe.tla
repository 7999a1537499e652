-------------------------------- MODULE Pipe --------------------------------
(***************************************************************************)
(* A pair of pipe_t objects (src/pipe.cpp): the two ends of a two-way      *)
(* message pipe, usually a socket's in an application thread (end 0) and a *)
(* session's in an I/O thread (end 1).  Each end reads one ypipe_t, writes *)
(* another, and sends commands to its peer through the peer's mailbox.     *)
(*                                                                         *)
(* A ypipe is what module Ypipe shows it to be: a queue of which a prefix  *)
(* is published, whose flush tells the writer that the reader sleeps.  A   *)
(* mailbox is what module Mailbox shows it to be: a queue of commands.     *)
(* Every handler is one action; terminate, whose pipe_term the peer may    *)
(* process before the delimiter is written, is two.                        *)
(***************************************************************************)
EXTENDS Integers, Sequences, FiniteSets, FiniteSetsExt

CONSTANTS Setting,     \* the kinds of pipe pairs to check, see SettingType
          MaxHiccups   \* bound on the number of hiccups

End == {0, 1}

Peer(e) == 1 - e

(* hwm[e]: the high-water mark of what e writes; msgs[e]: bound on the     *)
(* messages e writes; multipart: the ends that write messages of two parts *)
(* as well; delays: the values delay may take at creation; reader: the     *)
(* ends whose owner keeps reading; hiccuper: the ends whose owner calls    *)
(* hiccup, as a session does.                                              *)
SettingType ==
  [hwm : [End -> Nat], msgs : [End -> Nat], multipart : SUBSET End,
   delays : SUBSET BOOLEAN, reader : SUBSET End, hiccuper : SUBSET End]

ASSUME PipeAssumption == Setting \subseteq SettingType /\ MaxHiccups \in Nat

VARIABLES
  setting,          \* the kind of this pair, fixed when it is created
  \* fields of the two pipe_t objects
  state,            \* "gone": the object is deallocated
  in_active, out_active, delay,
  msgs_read, msgs_written, peers_msgs_read,
  inpipe, outpipe,
  \* where the end is inside terminate ()
  pc,
  \* the ypipes: unread items, how many of them are published, c is NULL
  items, published, sleeping,
  allocated, freed, \* the ypipes created and the ones deleted
  cmds              \* cmds[e]: commands on their way to end e

Hwm == setting.hwm

max_wm_delta == 1024

(* Mutant: the small high-water marks are forgotten. *)
compute_lwm_NoHalf(hwm) == hwm - max_wm_delta

(* pipe_t::compute_lwm *)
compute_lwm(hwm) ==
  IF hwm > max_wm_delta * 2 THEN hwm - max_wm_delta ELSE (hwm + 1) \div 2

lwm(e) == compute_lwm(Hwm[Peer(e)])

(* The ypipes a pair may own: the two it is created with and one for each  *)
(* hiccup.  NoPipe is the outpipe NULL.                                    *)
PipeId == 0 .. MaxHiccups + 1
NoPipe == -1

(* An item is a part of message number n, or the delimiter. *)
Delimiter == [n |-> -1, more |-> FALSE]
Item == [n : Nat, more : BOOLEAN] \cup {Delimiter}

State == {"active", "delimited", "pending", "terminating", "terminated",
          "double_terminated", "gone"}

Command ==
  [type : {"activate_read", "pipe_term", "pipe_term_ack"}]
    \cup [type : {"activate_write"}, msgs_read : Nat]
    \cup [type : {"hiccup"}, pipe : PipeId]

endvars == <<state, in_active, out_active, delay, msgs_read, msgs_written,
             peers_msgs_read, inpipe, outpipe, pc>>
pipevars == <<items, published, sleeping, allocated, freed>>
vars == <<setting, endvars, pipevars, cmds>>

TypeOK ==
  /\ setting \in Setting
  /\ state \in [End -> State]
  /\ in_active \in [End -> BOOLEAN] /\ out_active \in [End -> BOOLEAN]
  /\ delay \in [End -> BOOLEAN]
  /\ msgs_read \in [End -> Nat] /\ msgs_written \in [End -> Nat]
  /\ peers_msgs_read \in [End -> Nat]
  /\ inpipe \in [End -> PipeId] /\ outpipe \in [End -> PipeId \cup {NoPipe}]
  /\ pc \in [End -> {"idle", "delimiter"}]
  /\ items \in [PipeId -> Seq(Item)] /\ published \in [PipeId -> Nat]
  /\ sleeping \in [PipeId -> BOOLEAN]
  /\ allocated \in Nat /\ freed \subseteq PipeId
  /\ cmds \in [End -> Seq(Command)]

(* pipepair *)
Init ==
  /\ setting \in Setting
  /\ state = [e \in End |-> "active"]
  /\ in_active = [e \in End |-> TRUE] /\ out_active = [e \in End |-> TRUE]
  /\ delay \in [End -> setting.delays]
  /\ msgs_read = [e \in End |-> 0] /\ msgs_written = [e \in End |-> 0]
  /\ peers_msgs_read = [e \in End |-> 0]
  /\ inpipe = [e \in End |-> e] /\ outpipe = [e \in End |-> Peer(e)]
  /\ pc = [e \in End |-> "idle"]
  /\ items = [p \in PipeId |-> << >>] /\ published = [p \in PipeId |-> 0]
  /\ sleeping = [p \in PipeId |-> FALSE]
  /\ allocated = 2 /\ freed = {}
  /\ cmds = [e \in End |-> << >>]
-----------------------------------------------------------------------------
(* The ypipes and the mailboxes, as their modules show them to behave *)

(* How many items flush may publish: those up to the end of a message. *)
Complete(s) == Max({0} \cup {i \in DOMAIN s : ~s[i].more})

(* ypipe_t::flush of p, which now holds the items s. *)
FlushPipe(p, s) ==
  /\ items' = [items EXCEPT ![p] = s]
  /\ published' = [published EXCEPT ![p] = Complete(s)]
  /\ sleeping' = [sleeping EXCEPT ![p] = @ /\ Complete(s) = published[p]]

(* Mutant: nobody looks at what flush returned. *)
FlushFails_Ignored(p, s) == FALSE

(* ypipe_t::flush returns false: the reader sleeps and has items to read. *)
FlushFails(p, s) == sleeping[p] /\ Complete(s) # published[p]

(* ypipe_t::read of an item *)
Pop(p) ==
  /\ items' = [items EXCEPT ![p] = Tail(@)]
  /\ published' = [published EXCEPT ![p] = @ - 1]

(* Mutant: the ypipe is drained and not deleted. *)
DrainAndDelete_Keep(p, s, n) ==
  /\ items' = [items EXCEPT ![p] = SubSeq(s, n + 1, Len(s))]
  /\ published' = [published EXCEPT ![p] = 0]
  /\ freed' = freed

(* Read what is published and delete the ypipe, which holds the items s. *)
DrainAndDelete(p, s, n) ==
  /\ items' = [items EXCEPT ![p] = SubSeq(s, n + 1, Len(s))]
  /\ published' = [published EXCEPT ![p] = 0]
  /\ freed' = freed \cup {p}

Sent(q, e, c) == [q EXCEPT ![Peer(e)] = Append(@, c)]
Received(e) == [cmds EXCEPT ![e] = Tail(@)]

ActivateRead == [type |-> "activate_read"]
PipeTerm == [type |-> "pipe_term"]
PipeTermAck == [type |-> "pipe_term_ack"]

(* The owner's thread is between two calls to this end of the pipe. *)
Idle(e) == pc[e] = "idle" /\ state[e] # "gone"
-----------------------------------------------------------------------------
(* Reading *)

Readable(e) == Idle(e) /\ in_active[e] /\ state[e] \in {"active", "pending"}

HasItem(e) == published[inpipe[e]] > 0

(* check_read or read finds nothing in the inpipe. *)
ReadEmpty(e) ==
  /\ Readable(e)
  /\ ~HasItem(e)
  /\ in_active' = [in_active EXCEPT ![e] = FALSE]
  /\ sleeping' = [sleeping EXCEPT ![inpipe[e]] = TRUE]
  /\ UNCHANGED <<setting, state, out_active, delay, msgs_read, msgs_written,
                 peers_msgs_read, inpipe, outpipe, pc, items, published,
                 allocated, freed, cmds>>

(* Acknowledge the peer's pipe_term and stop writing to it. *)
AckAndTerminate(e, q) ==
  /\ state' = [state EXCEPT ![e] = "terminating"]
  /\ outpipe' = [outpipe EXCEPT ![e] = NoPipe]
  /\ cmds' = Sent(q, e, PipeTermAck)

(* check_read or read finds the delimiter and calls delimit (). *)
ReadDelimiter(e) ==
  /\ Readable(e)
  /\ HasItem(e) /\ Head(items[inpipe[e]]) = Delimiter
  /\ Pop(inpipe[e])
  /\ IF state[e] = "active"
     THEN /\ state' = [state EXCEPT ![e] = "delimited"]
          /\ UNCHANGED <<outpipe, cmds>>
     ELSE AckAndTerminate(e, cmds)
  /\ UNCHANGED <<setting, in_active, out_active, delay, msgs_read,
                 msgs_written, peers_msgs_read, inpipe, pc, sleeping,
                 allocated, freed>>

(* read returns a message part; the peer is told about every lwm-th        *)
(* message, and again for each further part read before the next one ends. *)
Read(e) ==
  /\ Readable(e)
  /\ HasItem(e) /\ Head(items[inpipe[e]]) # Delimiter
  /\ LET n == msgs_read[e] + (IF Head(items[inpipe[e]]).more THEN 0 ELSE 1)
     IN  /\ msgs_read' = [msgs_read EXCEPT ![e] = n]
         /\ cmds' = IF lwm(e) > 0 /\ n % lwm(e) = 0
                    THEN Sent(cmds, e, [type |-> "activate_write", msgs_read |-> n])
                    ELSE cmds
  /\ Pop(inpipe[e])
  /\ UNCHANGED <<setting, state, in_active, out_active, delay, msgs_written,
                 peers_msgs_read, inpipe, outpipe, pc, sleeping, allocated,
                 freed>>
-----------------------------------------------------------------------------
(* Writing *)

(* Mutant: one message too many. *)
Full_OffByOne(e) ==
  Hwm[e] > 0 /\ msgs_written[e] - peers_msgs_read[e] = Hwm[e] + 1

Full(e) == Hwm[e] > 0 /\ msgs_written[e] - peers_msgs_read[e] = Hwm[e]

Writable(e) == Idle(e) /\ out_active[e] /\ state[e] = "active"

(* check_write finds the pipe full. *)
CheckWriteFull(e) ==
  /\ Writable(e) /\ Full(e)
  /\ out_active' = [out_active EXCEPT ![e] = FALSE]
  /\ UNCHANGED <<setting, state, in_active, delay, msgs_read, msgs_written,
                 peers_msgs_read, inpipe, outpipe, pc, pipevars, cmds>>

(* The part of an unfinished message in the outpipe of e. *)
Incomplete(e) == Complete(items[outpipe[e]]) < Len(items[outpipe[e]])

(* write *)
Write(e, more) ==
  /\ Writable(e) /\ ~Full(e)
  /\ msgs_written[e] < setting.msgs[e]
  /\ more => e \in setting.multipart /\ ~Incomplete(e)
  /\ items' = [items EXCEPT ![outpipe[e]] =
                  Append(@, [n |-> msgs_written[e], more |-> more])]
  /\ msgs_written' = [msgs_written EXCEPT ![e] = @ + (IF more THEN 0 ELSE 1)]
  /\ UNCHANGED <<setting, state, in_active, out_active, delay, msgs_read,
                 peers_msgs_read, inpipe, outpipe, pc, published, sleeping,
                 allocated, freed, cmds>>

(* Mutant: all that was not flushed is taken back. *)
Rollback_Unflushed(e) ==
  /\ Idle(e) /\ outpipe[e] # NoPipe /\ Incomplete(e)
  /\ items' = [items EXCEPT ![outpipe[e]] = SubSeq(@, 1, published[outpipe[e]])]
  /\ UNCHANGED <<setting, endvars, published, sleeping, allocated, freed,
                 cmds>>

(* rollback: take the unfinished message back. *)
Rollback(e) ==
  /\ Idle(e) /\ outpipe[e] # NoPipe /\ Incomplete(e)
  /\ items' = [items EXCEPT ![outpipe[e]] = SubSeq(@, 1, Complete(@))]
  /\ UNCHANGED <<setting, endvars, published, sleeping, allocated, freed,
                 cmds>>

(* flush *)
Flush(e) ==
  /\ Idle(e)
  /\ state[e] \notin {"terminated", "double_terminated", "terminating"}
  /\ outpipe[e] # NoPipe
  /\ LET p == outpipe[e] IN
       /\ Complete(items[p]) # published[p]
       /\ FlushPipe(p, items[p])
       /\ cmds' = IF FlushFails(p, items[p]) THEN Sent(cmds, e, ActivateRead)
                                             ELSE cmds
  /\ UNCHANGED <<setting, endvars, allocated, freed>>
-----------------------------------------------------------------------------
(* Termination and hiccup, as the owner asks for them *)

(* terminate has to ask the peer to terminate. *)
AsksPeer(e) == state[e] \in {"active", "delimited"}

(* terminate (delay_) up to the point where the delimiter is written.  The *)
(* bound: a pipe that waits for pending messages gets one delimiter.       *)
Terminate(e, delay_) ==
  /\ Idle(e)
  /\ delay' = [delay EXCEPT ![e] = delay_]
  /\ \/ /\ AsksPeer(e)
        /\ cmds' = Sent(cmds, e, PipeTerm)
        /\ state' = [state EXCEPT ![e] = "terminated"]
        /\ out_active' = [out_active EXCEPT ![e] = FALSE]
        /\ pc' = [pc EXCEPT ![e] = "delimiter"]
        /\ UNCHANGED outpipe
     \/ /\ state[e] = "pending" /\ ~delay_
        /\ AckAndTerminate(e, cmds)
        /\ out_active' = [out_active EXCEPT ![e] = FALSE]
        /\ UNCHANGED pc
     \/ /\ state[e] = "pending" /\ delay_
        /\ \A i \in DOMAIN items[outpipe[e]] : items[outpipe[e]][i] # Delimiter
        /\ out_active' = [out_active EXCEPT ![e] = FALSE]
        /\ pc' = [pc EXCEPT ![e] = "delimiter"]
        /\ UNCHANGED <<state, outpipe, cmds>>
     \/ /\ state[e] \in {"terminated", "double_terminated", "terminating"}
        /\ UNCHANGED <<state, out_active, outpipe, pc, cmds>>
  /\ UNCHANGED <<setting, in_active, msgs_read, msgs_written, peers_msgs_read,
                 inpipe, pipevars>>

(* The rest of terminate: rollback, write the delimiter, flush. *)
TerminateDelimiter(e) ==
  /\ pc[e] = "delimiter"
  /\ LET p == outpipe[e]
         s == Append(SubSeq(items[p], 1, Complete(items[p])), Delimiter)
     IN  /\ FlushPipe(p, s)
         /\ cmds' = IF FlushFails(p, s) THEN Sent(cmds, e, ActivateRead)
                                        ELSE cmds
  /\ pc' = [pc EXCEPT ![e] = "idle"]
  /\ UNCHANGED <<setting, state, in_active, out_active, delay, msgs_read,
                 msgs_written, peers_msgs_read, inpipe, outpipe, allocated,
                 freed>>

(* Mutant: hiccup forgets that termination is under way. *)
MayHiccup_Always(e) == Idle(e) /\ e \in setting.hiccuper /\ allocated \in PipeId

MayHiccup(e) ==
  Idle(e) /\ e \in setting.hiccuper /\ allocated \in PipeId /\ state[e] = "active"

(* Mutant: the reader of the new inpipe stays inactive. *)
Hiccup_Inactive(e) ==
  /\ MayHiccup(e)
  /\ inpipe' = [inpipe EXCEPT ![e] = allocated]
  /\ allocated' = allocated + 1
  /\ cmds' = Sent(cmds, e, [type |-> "hiccup", pipe |-> allocated])
  /\ UNCHANGED <<setting, state, in_active, out_active, delay, msgs_read,
                 msgs_written, peers_msgs_read, outpipe, pc, items, published,
                 sleeping, freed>>

(* hiccup: a new inpipe; the old one is left to the peer. *)
Hiccup(e) ==
  /\ MayHiccup(e)
  /\ inpipe' = [inpipe EXCEPT ![e] = allocated]
  /\ allocated' = allocated + 1
  /\ in_active' = [in_active EXCEPT ![e] = TRUE]
  /\ cmds' = Sent(cmds, e, [type |-> "hiccup", pipe |-> allocated])
  /\ UNCHANGED <<setting, state, out_active, delay, msgs_read, msgs_written,
                 peers_msgs_read, outpipe, pc, items, published, sleeping,
                 freed>>
-----------------------------------------------------------------------------
(* The commands of the peer *)

Next_is(e, type) == Idle(e) /\ cmds[e] # << >> /\ Head(cmds[e]).type = type

ProcessActivateRead(e) ==
  /\ Next_is(e, "activate_read")
  /\ cmds' = Received(e)
  /\ in_active' = [in_active EXCEPT ![e] =
                      @ \/ state[e] \in {"active", "pending"}]
  /\ UNCHANGED <<setting, state, out_active, delay, msgs_read, msgs_written,
                 peers_msgs_read, inpipe, outpipe, pc, pipevars>>

ProcessActivateWrite(e) ==
  /\ Next_is(e, "activate_write")
  /\ cmds' = Received(e)
  /\ peers_msgs_read' = [peers_msgs_read EXCEPT ![e] = Head(cmds[e]).msgs_read]
  /\ out_active' = [out_active EXCEPT ![e] = @ \/ state[e] = "active"]
  /\ UNCHANGED <<setting, state, in_active, delay, msgs_read, msgs_written,
                 inpipe, outpipe, pc, pipevars>>

(* process_hiccup: flush, drain and delete the old outpipe, use the new. *)
ProcessHiccup(e) ==
  /\ Next_is(e, "hiccup")
  /\ outpipe[e] # NoPipe
  /\ DrainAndDelete(outpipe[e], items[outpipe[e]], Complete(items[outpipe[e]]))
  /\ outpipe' = [outpipe EXCEPT ![e] = Head(cmds[e]).pipe]
  /\ out_active' = [out_active EXCEPT ![e] = TRUE]
  /\ cmds' = Received(e)
  /\ UNCHANGED <<setting, state, in_active, delay, msgs_read, msgs_written,
                 peers_msgs_read, inpipe, pc, sleeping, allocated>>

(* Mutant: pipe_term is acknowledged whatever delay says. *)
AcksAtOnce_NoDelay(e) == state[e] \in {"delimited", "active"}

(* process_pipe_term has nothing to wait for. *)
AcksAtOnce(e) == state[e] = "delimited" \/ (state[e] = "active" /\ ~delay[e])

ProcessPipeTerm(e) ==
  /\ Next_is(e, "pipe_term")
  /\ \/ /\ state[e] = "active" /\ delay[e]
        /\ state' = [state EXCEPT ![e] = "pending"]
        /\ cmds' = Received(e)
        /\ UNCHANGED outpipe
     \/ /\ AcksAtOnce(e)
        /\ AckAndTerminate(e, Received(e))
     \/ /\ state[e] = "terminated"
        /\ state' = [state EXCEPT ![e] = "double_terminated"]
        /\ outpipe' = [outpipe EXCEPT ![e] = NoPipe]
        /\ cmds' = Sent(Received(e), e, PipeTermAck)
  /\ UNCHANGED <<setting, in_active, out_active, delay, msgs_read,
                 msgs_written, peers_msgs_read, inpipe, pc, pipevars>>

(* Mutant: the ack is sent twice when both ends terminate in parallel. *)
AckOwed_Twice(e) == state[e] \in {"terminated", "double_terminated"}

(* The peer's ack finds our own not sent yet. *)
AckOwed(e) == state[e] = "terminated"

(* process_pipe_term_ack: the inpipe and the pipe_t itself are deleted. *)
ProcessPipeTermAck(e) ==
  /\ Next_is(e, "pipe_term_ack")
  /\ state[e] \in {"terminating", "double_terminated", "terminated"}
  /\ state' = [state EXCEPT ![e] = "gone"]
  /\ outpipe' = [outpipe EXCEPT ![e] = NoPipe]
  /\ cmds' = IF AckOwed(e) THEN Sent(Received(e), e, PipeTermAck)
                          ELSE Received(e)
  /\ DrainAndDelete(inpipe[e], items[inpipe[e]], published[inpipe[e]])
  /\ UNCHANGED <<setting, in_active, out_active, delay, msgs_read,
                 msgs_written, peers_msgs_read, inpipe, pc, sleeping,
                 allocated>>

Process(e) ==
  \/ ProcessActivateRead(e) \/ ProcessActivateWrite(e) \/ ProcessHiccup(e)
  \/ ProcessPipeTerm(e) \/ ProcessPipeTermAck(e)

ReadAny(e) == ReadEmpty(e) \/ ReadDelimiter(e) \/ Read(e)

Next == \E e \in End :
  \/ ReadAny(e) \/ CheckWriteFull(e) \/ \E more \in BOOLEAN : Write(e, more)
  \/ Rollback(e) \/ Flush(e)
  \/ \E delay_ \in BOOLEAN : Terminate(e, delay_)
  \/ TerminateDelimiter(e) \/ Hiccup(e) \/ Process(e)

Spec == Init /\ [][Next]_vars

(* Threads finish the call they are in and process their commands, and the *)
(* owners of the reading ends keep reading.                                *)
Fairness ==
  /\ \A e \in End : WF_vars(Process(e) \/ TerminateDelimiter(e))
  /\ \A e \in End : WF_vars(e \in setting.reader /\ ReadAny(e))

FairSpec == Spec /\ Fairness
-----------------------------------------------------------------------------
(* Properties *)

InTransit(e, type) == \E i \in DOMAIN cmds[e] : cmds[e][i].type = type

(* The handshake of pipe_term and pipe_term_ack: a deallocated pipe_t has  *)
(* no command waiting for it and never gets one, in whatever order the two *)
(* ends call terminate, read the delimiter and see each other's commands.  *)
NoDanglingCommand == \A e \in End : state[e] = "gone" => cmds[e] = << >>

(* Ownership of the ypipes through termination and hiccups: the ones an    *)
(* end may still use or delete are not deleted yet, and when both ends are *)
(* gone every ypipe ever created has been deleted.  And the state is well  *)
(* typed.                                                                  *)
PipesFreedOnce ==
  /\ TypeOK
  /\ \A e \in End : state[e] # "gone" => /\ inpipe[e] \notin freed
                                         /\ outpipe[e] \notin freed
  /\ (\A e \in End : state[e] = "gone") => freed = 0 .. allocated - 1

(* The assertions of the command handlers: pipe_term and pipe_term_ack     *)
(* arrive only in the states their handlers name ("pipe_term is invalid in *)
(* other states", "All the other states are invalid"), and a hiccup finds  *)
(* an outpipe.                                                             *)
HandlersAssert ==
  \A e \in End : cmds[e] # << >> =>
    LET type == Head(cmds[e]).type IN
      /\ type = "pipe_term" => state[e] \in {"active", "delimited", "terminated"}
      /\ type = "pipe_term_ack" =>
           state[e] \in {"terminating", "double_terminated", "terminated"}
      /\ type = "hiccup" => outpipe[e] # NoPipe

(* The two ends part cleanly: all three of the above. *)
CleanEnd == NoDanglingCommand /\ PipesFreedOnce /\ HandlersAssert

(* The whole messages an end wrote that its peer has not read *)
Unread(e) ==
  {i \in DOMAIN items[outpipe[e]] : /\ items[outpipe[e]][i] # Delimiter
                                   /\ ~items[outpipe[e]][i].more}

(* The high-water mark is a hard limit: at most Hwm messages are queued,   *)
(* although check_write compares counters of two threads for equality, and *)
(* the unsigned difference of the counters never wraps around.             *)
HwmIsHardLimit ==
  \A e \in End :
    /\ 0 <= msgs_written[e] - peers_msgs_read[e]
    /\ Hwm[e] > 0 => /\ msgs_written[e] - peers_msgs_read[e] <= Hwm[e]
                     /\ outpipe[e] # NoPipe => Cardinality(Unread(e)) <= Hwm[e]

(* The session has hiccuped, which throws messages away (see README). *)
Hiccuped == allocated > 2

(* The low-water mark never strands a writer: while both ends are active,  *)
(* an end that was told the pipe is full has a message in the pipe that    *)
(* the peer will report or the report is already on its way.               *)
WriterNotStuck ==
  \A e \in End :
    (/\ ~Hiccuped /\ state[e] = "active" /\ state[Peer(e)] = "active"
     /\ Full(e) \/ ~out_active[e]) =>
      /\ Full(e)
      /\ Unread(e) # {} \/ \E i \in DOMAIN cmds[e] :
                             /\ cmds[e][i].type = "activate_write"
                             /\ cmds[e][i].msgs_read > peers_msgs_read[e]

(* A reader that stopped over published items is about to be activated. *)
ReaderNotStuck ==
  \A e \in End :
    (/\ state[e] \in {"active", "pending"}
     /\ ~in_active[e] /\ published[inpipe[e]] > 0) =>
       InTransit(e, "activate_read")

(* Flow control: the high-water mark holds and strands neither end. *)
FlowControl == HwmIsHardLimit /\ WriterNotStuck /\ ReaderNotStuck

(* Until a hiccup, the messages are read in the order they were written,  *)
(* none skipped and none twice.                                            *)
ReadInOrder ==
  [][\A e \in End : (~Hiccuped /\ Read(e)) =>
                     Head(items[inpipe[e]]).n = msgs_read[e]]_vars

(* Without a hiccup, an end that leaves the pipe at the delimiter, as it   *)
(* does when delay is set, has read every message its peer wrote.          *)
LingerDelivers ==
  [][\A e \in End :
       (/\ state[e] # "terminating" /\ state'[e] = "terminating"
        /\ delay'[e] \/ state[e] = "delimited") =>
          (Hiccuped \/ msgs_read[e] = msgs_written[Peer(e)])]_vars

Deallocated == \A e \in End : state[e] = "gone"

(* "Ask pipe to terminate.  The termination will happen asynchronously and *)
(* user will be notified about actual deallocation by 'terminated' event." *)
TerminationCompletes ==
  (\E e \in End : state[e] = "terminated") ~> Deallocated

(* The part of it that the code keeps: the handshake completes for both    *)
(* ends, in whatever states they were asked, unless the session hiccuped.  *)
QuietTerminationCompletes ==
  (\E e \in End : state[e] = "terminated") ~> (Deallocated \/ Hiccuped)
=============================================================================
