---------------------------- MODULE BoundedQueue ----------------------------
(***************************************************************************)
(* What embassy_sync::channel::Channel promises, without its wakers: a     *)
(* queue of at most N messages, and calls that come to an end when the     *)
(* queue lets them.  A message is named after the task that sends it.      *)
(***************************************************************************)
EXTENDS Naturals, Sequences

CONSTANTS Tasks, N

VARIABLES queue,  \* Seq(Tasks)
          op      \* what each task awaits: a name in Ops, or "none"

queueVars == <<queue, op>>

Ops == {"send", "receive", "ready_to_send", "ready_to_receive"}
Full == Len(queue) = N

QueueInit ==
    /\ queue = <<>>
    /\ op = [t \in Tasks |-> "none"]

Ask(t, o) ==
    /\ op[t] = "none"
    /\ op' = [op EXCEPT ![t] = o]
    /\ UNCHANGED queue

\* The call has come to an end, or its future was dropped.
Leave(t) == op' = [op EXCEPT ![t] = "none"]

Drop(t) ==
    /\ op[t] # "none"
    /\ Leave(t)
    /\ UNCHANGED queue

Send(t) ==
    /\ op[t] = "send"
    /\ ~Full
    /\ queue' = Append(queue, t)
    /\ Leave(t)

Receive(t) ==
    /\ op[t] = "receive"
    /\ queue # <<>>
    /\ queue' = Tail(queue)
    /\ Leave(t)

ReadyToSend(t) ==
    /\ op[t] = "ready_to_send"
    /\ ~Full
    /\ Leave(t)
    /\ UNCHANGED queue

ReadyToReceive(t) ==
    /\ op[t] = "ready_to_receive"
    /\ queue # <<>>
    /\ Leave(t)
    /\ UNCHANGED queue

Answer(t) == Send(t) \/ Receive(t) \/ ReadyToSend(t) \/ ReadyToReceive(t)

\* The calls that do not wait: try_send, try_receive and clear.
AtOnce(t) ==
    /\ op[t] = "none"
    /\ \/ ~Full /\ queue' = Append(queue, t)
       \/ queue # <<>> /\ queue' = Tail(queue)
       \/ queue' = <<>>
    /\ UNCHANGED op

QueueNext ==
    \E t \in Tasks :
        \/ \E o \in Ops : Ask(t, o)
        \/ Drop(t)
        \/ Answer(t)
        \/ AtOnce(t)

QueueSafety == QueueInit /\ [][QueueNext]_queueVars

\* A call that could be answered all the time is answered.
QueueSpec ==
    /\ QueueSafety
    /\ \A t \in Tasks : WF_queueVars(Answer(t))
=============================================================================
