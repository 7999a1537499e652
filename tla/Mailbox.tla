------------------------------ MODULE Mailbox -------------------------------
(***************************************************************************)
(* mailbox_t: the queue of commands of one thread slot (src/mailbox.cpp),  *)
(* built from a ypipe_t, a mutex for its many senders and a signaler_t,    *)
(* the eventfd the receiver waits on (src/signaler.cpp).                   *)
(*                                                                         *)
(* The module extends Ypipe and drives its actions: a step below is one    *)
(* access to state that threads share (the mutex, the pointer c of the     *)
(* ypipe, the eventfd's counter) with the thread-local work around it.     *)
(* spc[s] is where thread s is inside mailbox_send, rpc where the receiver *)
(* is inside mailbox_init, mailbox_recv or mailbox_close.                  *)
(***************************************************************************)
EXTENDS Ypipe

CONSTANTS Sender,  \* the threads that send commands to this mailbox
          NoOne    \* the owner of a free mutex

(* A command is told apart by the thread that sent it. *)
ASSUME SenderAssumption == Sender \subseteq Value /\ NoOne \notin Sender

VARIABLES
  sync,     \* the thread that holds the mutex, or NoOne
  active,   \* mailbox_t::active
  signals,  \* the eventfd's counter
  spc, rpc

mvars == <<sync, active, signals, spc, rpc>>

allvars == <<vars, mvars>>

SendPc == {"idle", "write", "flush", "set", "unlock", "unlock_wake", "signal"}

RecvPc == {"init", "out", "read", "sigrecv", "putback", "wait", "firstread",
           "closed"}

MailboxTypeOK ==
  /\ TypeOK
  /\ sync \in Sender \cup {NoOne}
  /\ active \in BOOLEAN
  /\ signals \in 0 .. 2
  /\ spc \in [Sender -> SendPc]
  /\ rpc \in RecvPc

MailboxInit ==
  /\ Init
  /\ sync = NoOne /\ active = FALSE /\ signals = 0
  /\ spc = [s \in Sender |-> "idle"]
  /\ rpc = "init"

(* mailbox_init: the read that must fail puts the reader to sleep. *)
InitRead ==
  /\ rpc = "init"
  /\ CheckReadEmpty
  /\ active' = FALSE
  /\ rpc' = "out"
  /\ UNCHANGED <<sync, signals, spc>>
-----------------------------------------------------------------------------
(* mailbox_send, called by thread s *)

Goto(s, pc) == spc' = [spc EXCEPT ![s] = pc]

SendLock(s) ==
  /\ spc[s] = "idle" /\ rpc # "init"
  /\ Back < MaxItems
  /\ sync = NoOne
  /\ sync' = s
  /\ Goto(s, "write")
  /\ UNCHANGED <<vars, active, signals, rpc>>

SendWrite(s) ==
  /\ spc[s] = "write"
  /\ Write(s, FALSE)
  /\ Goto(s, "flush")
  /\ UNCHANGED <<sync, active, signals, rpc>>

(* The compare-and-swap of cpipe.flush () *)
SendFlush(s) ==
  /\ spc[s] = "flush"
  /\ FlushCas
  /\ Goto(s, IF c = w THEN "unlock" ELSE "set")
  /\ UNCHANGED <<sync, active, signals, rpc>>

(* The plain store of cpipe.flush (), which then returns false *)
SendSet(s) ==
  /\ spc[s] = "set"
  /\ FlushSet
  /\ Goto(s, "unlock_wake")
  /\ UNCHANGED <<sync, active, signals, rpc>>

(* Mutant: nobody signals the receiver. *)
SendUnlock_NoSignal(s) ==
  /\ spc[s] \in {"unlock", "unlock_wake"}
  /\ sync' = NoOne
  /\ Goto(s, "idle")
  /\ UNCHANGED <<vars, active, signals, rpc>>

SendUnlock(s) ==
  /\ spc[s] \in {"unlock", "unlock_wake"}
  /\ sync' = NoOne
  /\ Goto(s, IF spc[s] = "unlock" THEN "idle" ELSE "signal")
  /\ UNCHANGED <<vars, active, signals, rpc>>

(* signaler_send, after the mutex was released *)
SendSignal(s) ==
  /\ spc[s] = "signal"
  /\ signals' = signals + 1
  /\ Goto(s, "idle")
  /\ UNCHANGED <<vars, sync, active, rpc>>
-----------------------------------------------------------------------------
(* mailbox_recv, called by the thread that owns the mailbox *)

RecvCall ==
  /\ rpc = "out"
  /\ rpc' = IF active THEN "read" ELSE "wait"
  /\ UNCHANGED <<vars, sync, active, signals, spc>>

(* cpipe.read () of an active mailbox, or the one after a successful wait, *)
(* fetches the commands published so far ...                               *)
RecvPrefetch ==
  /\ rpc \in {"read", "firstread"}
  /\ CheckRead
  /\ UNCHANGED mvars

(* ... and returns the first of them. *)
RecvRead ==
  /\ rpc \in {"read", "firstread"}
  /\ Read
  /\ rpc' = "out"
  /\ UNCHANGED <<sync, active, signals, spc>>

(* Mutant: the signal of the commands that were read is left behind. *)
RecvReadEmpty_KeepSignal ==
  /\ rpc = "read"
  /\ CheckReadEmpty
  /\ active' = FALSE
  /\ rpc' = "wait"
  /\ UNCHANGED <<sync, signals, spc>>

(* cpipe.read () of an active mailbox finds no command. *)
RecvReadEmpty ==
  /\ rpc = "read"
  /\ CheckReadEmpty
  /\ active' = FALSE
  /\ rpc' = "sigrecv"
  /\ UNCHANGED <<sync, signals, spc>>

(* Mutant: the eventfd keeps its counter. *)
RecvSignal_Keep ==
  /\ rpc = "sigrecv"
  /\ signals' = signals
  /\ rpc' = "wait"
  /\ UNCHANGED <<vars, sync, active, spc>>

(* signaler_recv reads the eventfd, which resets its counter; of two       *)
(* signals the second is put back.                                         *)
RecvSignal ==
  /\ rpc = "sigrecv"
  /\ signals' = 0
  /\ rpc' = IF signals = 2 THEN "putback" ELSE "wait"
  /\ UNCHANGED <<vars, sync, active, spc>>

(* Mutant: the second signal is not put back. *)
RecvPutBack_Lost ==
  /\ rpc = "putback"
  /\ rpc' = "wait"
  /\ UNCHANGED <<vars, sync, active, signals, spc>>

RecvPutBack ==
  /\ rpc = "putback"
  /\ signals' = signals + 1
  /\ rpc' = "wait"
  /\ UNCHANGED <<vars, sync, active, spc>>

(* Mutant: the wait already consumes the signal. *)
RecvWait_Consume ==
  /\ rpc = "wait"
  /\ signals > 0
  /\ active' = TRUE
  /\ asleep' = FALSE /\ owed' = FALSE
  /\ rpc' = "firstread"
  /\ signals' = signals - 1
  /\ UNCHANGED <<buf, front, w, f, r, c, wpc, closed, sync, spc>>

(* signaler_wait finds the eventfd readable: the reader is awake again. *)
RecvWait ==
  /\ rpc = "wait"
  /\ signals > 0
  /\ active' = TRUE
  /\ asleep' = FALSE /\ owed' = FALSE
  /\ rpc' = "firstread"
  /\ UNCHANGED <<buf, front, w, f, r, c, wpc, closed, sync, signals, spc>>

(* signaler_wait times out or is interrupted: mailbox_recv returns -1 with *)
(* EAGAIN or EINTR.                                                        *)
RecvTimeout ==
  /\ rpc = "wait"
  /\ signals = 0
  /\ rpc' = "out"
  /\ UNCHANGED <<vars, sync, active, signals, spc>>

(* mailbox_close and the mutex's destructor, when the owner of the mailbox *)
(* has received the last command anybody sends it (own_t and socket_base_t *)
(* wait for the acknowledgements of everybody who could send one).         *)
RecvClose ==
  /\ rpc = "out"
  /\ front = MaxItems
  /\ Close
  /\ rpc' = "closed"
  /\ UNCHANGED <<sync, active, signals, spc>>
-----------------------------------------------------------------------------
Send(s) ==
  SendWrite(s) \/ SendFlush(s) \/ SendSet(s) \/ SendUnlock(s) \/ SendSignal(s)

Recv ==
  \/ InitRead \/ RecvCall \/ RecvPrefetch \/ RecvRead \/ RecvReadEmpty
  \/ RecvSignal \/ RecvPutBack \/ RecvWait

MailboxNext ==
  \/ \E s \in Sender : SendLock(s) \/ Send(s)
  \/ Recv
  \/ RecvTimeout
  \/ RecvClose

MailboxSpec == MailboxInit /\ [][MailboxNext]_allvars

(* A thread inside mailbox_send goes on, and the owner keeps calling       *)
(* mailbox_recv (the I/O thread's and the reaper's loops do; an            *)
(* application thread does as long as it uses its socket).                 *)
MailboxFairness ==
  /\ \A s \in Sender : WF_allvars(Send(s))
  /\ WF_allvars(Recv)

MailboxFairSpec == MailboxSpec /\ MailboxFairness
-----------------------------------------------------------------------------
(* Properties *)

(* The assertion of mailbox_recv: the read that follows a successful wait  *)
(* gets a command ("Get a command. ... xs_assert (ok)").  A stale signal   *)
(* would break it.                                                         *)
SignalMeansCommand ==
  rpc = "firstread" => Prefetched \/ (c # front /\ c # Null)

(* The assertions of signaler_recv: when the receiver takes its signal     *)
(* back the eventfd holds one or two of them, however the senders of       *)
(* consecutive commands are delayed between unlock and signaler_send.      *)
OneOrTwoSignals == rpc = "sigrecv" => signals \in {1, 2}

(* The descriptor handed to pollers tells the truth: outside mailbox_recv, *)
(* an unread command keeps the eventfd readable or its sender is about to  *)
(* make it so, and a passive mailbox is signalled only when there is a     *)
(* command to read.                                                        *)
FdReadable ==
  rpc = "out" =>
    /\ front < w => \/ signals > 0
                    \/ \E s \in Sender : spc[s] \in {"unlock_wake", "signal"}
    /\ (~active /\ signals > 0) => front < w

(* The three together: a signal in the eventfd and a command in the queue  *)
(* never exist without each other for longer than a send is under way.     *)
MailboxSafe == SignalMeansCommand /\ OneOrTwoSignals /\ FdReadable

(* ypipe_t needs one writer at a time and a reader that is awake: a thread *)
(* is about to write, flush or store only while no other flush is half     *)
(* done, and the owner reads only when it was woken.                       *)
OneWriterAwakeReader ==
  /\ \A s \in Sender : spc[s] \in {"write", "flush"} => wpc = "idle"
  /\ \A s, t \in Sender : spc[s] = "set" /\ spc[t] = "set" => s = t
  /\ rpc \in {"read", "firstread"} => ~asleep

(* Every step of a mailbox is a step of its ypipe: a successful wait is    *)
(* the wake-up that some flush owes, never a spurious one.  With it        *)
(* everything shown of Ypipe holds for the commands of a mailbox.          *)
UsesYpipe == Spec

(* The destructor of mutex_t asserts that pthread_mutex_destroy succeeds,  *)
(* which it does not while a thread holds the mutex.                       *)
MutexFreeAtClose == [][RecvClose => sync = NoOne]_allvars
=============================================================================
