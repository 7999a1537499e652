------------------------------ MODULE MCQueues ------------------------------
(***************************************************************************)
(* The queue alone, driven by every sequence of calls its users may make,  *)
(* and the queue inside a mailbox.                                         *)
(***************************************************************************)
EXTENDS Mailbox

VARIABLE which

qvars == <<allvars, which>>

QueueInit ==
  \/ /\ which = "ypipe" /\ Init
     /\ sync = NoOne /\ active = FALSE /\ signals = 0
     /\ spc = [s \in Sender |-> "idle"] /\ rpc = "closed"
  \/ which = "mailbox" /\ MailboxInit

Alone(A) == which = "ypipe" /\ A /\ UNCHANGED <<mvars, which>>
Inside(A) == which = "mailbox" /\ A /\ UNCHANGED which

QueueNext == Alone(Next) \/ Inside(MailboxNext)

QueueSpec ==
  /\ QueueInit /\ [][QueueNext]_qvars
  /\ WF_qvars(Alone(FlushSet)) /\ WF_qvars(Alone(Wake))
  /\ WF_qvars(Alone(CheckRead)) /\ WF_qvars(Alone(Read))
  /\ \A s \in Sender : WF_qvars(Inside(Send(s)))
  /\ WF_qvars(Inside(Recv))
=============================================================================
