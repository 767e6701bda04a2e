------------------------------ MODULE Channel ------------------------------
(***************************************************************************)
(* embassy_sync::channel::Channel: a bounded queue whose senders and       *)
(* receivers wait on one WakerRegistration each.  Every method runs under  *)
(* the channel's blocking mutex and is one action.  A registration holds   *)
(* one waker; a second task that registers evicts the first one and wakes  *)
(* it, so that it registers anew.                                          *)
(***************************************************************************)
EXTENDS BoundedQueue

CONSTANT Nil

ASSUME NAssumption == N \in Nat \ {0}
ASSUME NilAssumption == Nil \notin Tasks

VARIABLES receiver_waker, senders_waker,  \* the task whose waker is kept, or Nil
          woken                           \* the tasks the executor is to poll

vars == <<queue, op, receiver_waker, senders_waker, woken>>

\* The task a registration wakes, as a set.
Taken(w) == {w} \ {Nil}

\* Mutant: the new waker replaces the old one without waking it.
EvictedNot(w, t) == {}

\* WakerRegistration::register: whom it wakes when t takes the place of w.
Evicted(w, t) == Taken(w) \ {t}

Init ==
    /\ QueueInit
    /\ receiver_waker = Nil
    /\ senders_waker = Nil
    /\ woken = {}

-----------------------------------------------------------------------------
\* Calls.  A future is polled for the first time by the task that makes it.
Start(t, o) ==
    /\ Ask(t, o)
    /\ woken' = woken \cup {t}
    /\ UNCHANGED <<receiver_waker, senders_waker>>

\* The future is dropped, by select or a timeout; its waker stays registered.
Cancel(t) ==
    /\ Drop(t)
    /\ UNCHANGED <<receiver_waker, senders_waker, woken>>

\* Another future of the same task wakes it.
WokenByOther(t) ==
    /\ woken' = woken \cup {t}
    /\ UNCHANGED <<queue, op, receiver_waker, senders_waker>>

\* The executor starts to poll t; the poll also wakes others.
Polled(t, others) == woken' = (woken \ {t}) \cup others

\* Err(Full): the waker of t is registered and the future stays pending.
WaitToSend(t) ==
    /\ Full
    /\ senders_waker' = t
    /\ Polled(t, Evicted(senders_waker, t))
    /\ UNCHANGED <<queue, op, receiver_waker>>

\* A pushed message takes the receivers' waker and wakes it.
Push(t) ==
    /\ ~Full
    /\ queue' = Append(queue, t)
    /\ receiver_waker' = Nil
    /\ UNCHANGED senders_waker

\* A call that may pop first wakes the senders' waker if the queue is full.
WakeSenders == senders_waker' = IF Full THEN Nil ELSE senders_waker
WokenSenders == IF Full THEN Taken(senders_waker) ELSE {}

PollSend(t) ==
    /\ op[t] = "send" /\ t \in woken
    /\ \/ WaitToSend(t)
       \/ /\ Push(t)
          /\ Polled(t, Taken(receiver_waker))
          /\ Leave(t)

PollReceive(t) ==
    /\ op[t] = "receive" /\ t \in woken
    /\ \/ /\ queue # <<>>
          /\ WakeSenders
          /\ Polled(t, WokenSenders)
          /\ queue' = Tail(queue)
          /\ Leave(t)
          /\ UNCHANGED receiver_waker
       \/ /\ queue = <<>>
          /\ receiver_waker' = t
          /\ Polled(t, Evicted(receiver_waker, t))
          /\ UNCHANGED <<queue, op, senders_waker>>

\* poll_ready_to_send registers whatever the answer is.
PollReadyToSend(t) ==
    /\ op[t] = "ready_to_send" /\ t \in woken
    /\ senders_waker' = t
    /\ Polled(t, Evicted(senders_waker, t))
    /\ IF Full THEN UNCHANGED op ELSE Leave(t)
    /\ UNCHANGED <<queue, receiver_waker>>

PollReadyToReceive(t) ==
    /\ op[t] = "ready_to_receive" /\ t \in woken
    /\ receiver_waker' = t
    /\ Polled(t, Evicted(receiver_waker, t))
    /\ IF queue = <<>> THEN UNCHANGED op ELSE Leave(t)
    /\ UNCHANGED <<queue, senders_waker>>

Poll(t) == PollSend(t) \/ PollReceive(t) \/ PollReadyToSend(t) \/ PollReadyToReceive(t)

\* Without a waker: from an interrupt handler, or from any task.
TrySend(t) ==
    /\ op[t] = "none"
    /\ Push(t)
    /\ woken' = woken \cup Taken(receiver_waker)
    /\ UNCHANGED op

TryReceive(t) ==
    /\ op[t] = "none"
    /\ queue # <<>>
    /\ WakeSenders
    /\ woken' = woken \cup WokenSenders
    /\ queue' = Tail(queue)
    /\ UNCHANGED <<op, receiver_waker>>

\* A peek wakes the senders of a full queue although it makes no room.
TryPeek(t) ==
    /\ op[t] = "none"
    /\ WakeSenders
    /\ woken' = woken \cup WokenSenders
    /\ UNCHANGED <<queue, op, receiver_waker>>

\* Mutant: clear makes room and tells nobody.
ClearQuiet(t) ==
    /\ op[t] = "none"
    /\ queue' = <<>>
    /\ UNCHANGED <<op, receiver_waker, senders_waker, woken>>

Clear(t) ==
    /\ op[t] = "none"
    /\ WakeSenders
    /\ woken' = woken \cup WokenSenders
    /\ queue' = <<>>
    /\ UNCHANGED <<op, receiver_waker>>

Next ==
    \E t \in Tasks :
        \/ \E o \in Ops : Start(t, o)
        \/ Cancel(t)
        \/ WokenByOther(t)
        \/ Poll(t)
        \/ TrySend(t)
        \/ TryReceive(t)
        \/ TryPeek(t)
        \/ Clear(t)

Safety == Init /\ [][Next]_vars

\* An executor polls every task it was asked to poll.
Spec == Safety /\ \A t \in Tasks : WF_vars(Poll(t))

-----------------------------------------------------------------------------
\* Properties.

\* Types, and the capacity of the Deque.
TypeOK ==
    /\ queue \in Seq(Tasks)
    /\ Len(queue) <= N
    /\ op \in [Tasks -> Ops \cup {"none"}]
    /\ receiver_waker \in Tasks \cup {Nil}
    /\ senders_waker \in Tasks \cup {Nil}
    /\ woken \subseteq Tasks

SendersKept ==
    \A t \in Tasks :
        op[t] \in {"send", "ready_to_send"} =>
            t \in woken \/ (senders_waker = t /\ Full)

ReceiversKept ==
    \A t \in Tasks :
        op[t] \in {"receive", "ready_to_receive"} =>
            t \in woken \/ (receiver_waker = t /\ queue = <<>>)

\* One waker per direction is enough for any number of tasks: whoever waits
\* is about to be polled, or is registered and has nothing to do yet.
\* The code that could break it: a wake that happens only when the queue is
\* full, a peek and a poll_ready_* that spend or take a registration, a future
\* dropped while it is registered (channel.rs, waker_registration.rs).
NoLostWakeup == SendersKept /\ ReceiversKept

\* The channel is a bounded queue in which a call that can be answered all
\* the time is answered, however many tasks fight over the registrations.
ImplementsQueue == QueueSpec
=============================================================================
