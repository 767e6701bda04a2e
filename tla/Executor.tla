------------------------------ MODULE Executor ------------------------------
(***************************************************************************)
(* embassy-executor's raw executor, one action per atomic access: the      *)
(* state bits of a task (raw/state_atomics.rs), the lock-free run queue    *)
(* (raw/run_queue_atomics.rs), spawning, waking and polling (raw/mod.rs)   *)
(* and the run loop of the platform executors (arch/*.rs), whose pender    *)
(* and sleep are one event bit: SEV/WFE on Cortex-M, the NVIC pending bit  *)
(* for InterruptExecutor, the condvar flag on std, SIGNAL_WORK_THREAD_MODE *)
(* on riscv32.                                                             *)
(*                                                                         *)
(* The thread of an executor and every other context (interrupt, thread,   *)
(* second core) run the same wake and spawn code; pc[p] is where p is.     *)
(* Contexts interleave freely, as threads and cores do and as nested       *)
(* interrupts do in a subset of the ways.                                  *)
(***************************************************************************)
EXTENDS Naturals, FiniteSets

CONSTANTS
    Tasks,          \* task storages (TaskStorage in static memory)
    Executors,      \* executors, each with its own thread of control
    Contexts,       \* other contexts that hold wakers
    SpawnRights,    \* <<p, t, e>>: p may claim storage t and spawn it on e
    NoPendContexts, \* contexts that use wake_task_no_pend
    Nil             \* the null pointer

Threads == Executors \cup Contexts

ASSUME NilAssumption == Nil \notin Tasks \cup Executors
ASSUME ThreadsAssumption == Executors \cap Contexts = {}
ASSUME RightsAssumption ==
    /\ SpawnRights \subseteq Threads \X Tasks \X Executors
    /\ NoPendContexts \subseteq Contexts

VARIABLES
    state,     \* TaskHeader.state: the bits set, per task
    executor,  \* TaskHeader.executor
    pollFn,    \* TaskHeader.poll_fn: None, TaskStorage::poll or poll_exited
    future,    \* TaskStorage.future: uninit or live
    next,      \* TaskHeader.run_queue_item.next
    head,      \* RunQueue.head, per executor
    event,     \* the pender's event bit, per executor
    wakers,    \* tasks of which a Waker exists
    pc,        \* where a thread is
    item,      \* the task a wake or spawn in progress is about
    target,    \* the executor it enqueues on
    prev,      \* the head read by fetch_update
    walk,      \* dequeue_all's `next` cursor, per executor
    current    \* the task dequeue_all is processing, per executor

taskVars == <<state, executor, pollFn, future, wakers>>
queueVars == <<next, head, event>>
opVars == <<item, target, prev>>
loopVars == <<walk, current>>
vars == <<taskVars, queueVars, pc, opVars, loopVars>>

Bits == {"SPAWNED", "RUN_QUEUED"}
LoopLabels == {"init", "swap", "walk", "run_dequeue", "on_task", "polling",
               "set_exited", "despawn", "wfe"}
VisitLabels == {"run_dequeue", "on_task", "polling", "set_exited", "despawn"}
OpLabels == {"set_poll_fn", "write_future", "store_executor",
             "load_executor", "load_head", "cas", "pend"}

\* A local of wake, spawn or dequeue_all holds a value exactly while it is in
\* scope; in particular the executor that wake_task loads and unwraps
\* unchecked is never null, and neither is the poll_fn that poll calls.
LocalsOK ==
    /\ \A p \in Threads :
         /\ pc[p] \in OpLabels <=> item[p] # Nil
         /\ pc[p] \in {"load_head", "cas", "pend"} <=> target[p] # Nil
         /\ prev[p] # Nil => pc[p] = "cas"
    /\ \A c \in Contexts : pc[c] \in OpLabels \cup {"idle"}
    /\ \A e \in Executors :
         /\ pc[e] \in OpLabels \cup LoopLabels
         /\ pc[e] \in VisitLabels => current[e] # Nil
         /\ pc[e] \in LoopLabels \ VisitLabels => current[e] = Nil
         /\ pc[e] = "on_task" => pollFn[current[e]] # "None"

TypeOK ==
    /\ state \in [Tasks -> SUBSET Bits]
    /\ executor \in [Tasks -> Executors \cup {Nil}]
    /\ pollFn \in [Tasks -> {"None", "poll", "poll_exited"}]
    /\ future \in [Tasks -> {"uninit", "live"}]
    /\ wakers \in SUBSET Tasks
    /\ next \in [Tasks -> Tasks \cup {Nil}]
    /\ head \in [Executors -> Tasks \cup {Nil}]
    /\ event \in [Executors -> BOOLEAN]
    /\ pc \in [Threads -> LoopLabels \cup OpLabels \cup {"idle"}]
    /\ item \in [Threads -> Tasks \cup {Nil}]
    /\ target \in [Threads -> Executors \cup {Nil}]
    /\ prev \in [Threads -> Tasks \cup {Nil}]
    /\ walk \in [Executors -> Tasks \cup {Nil}]
    /\ current \in [Executors -> Tasks \cup {Nil}]
    /\ LocalsOK

Init ==
    /\ state = [t \in Tasks |-> {}]
    /\ executor = [t \in Tasks |-> Nil]
    /\ pollFn = [t \in Tasks |-> "None"]
    /\ future = [t \in Tasks |-> "uninit"]
    /\ wakers = {}
    /\ next = [t \in Tasks |-> Nil]
    /\ head = [e \in Executors |-> Nil]
    /\ event = [e \in Executors |-> FALSE]
    /\ pc = [p \in Threads |-> IF p \in Executors THEN "init" ELSE "idle"]
    /\ item = [p \in Threads |-> Nil]
    /\ target = [p \in Threads |-> Nil]
    /\ prev = [p \in Threads |-> Nil]
    /\ walk = [e \in Executors |-> Nil]
    /\ current = [e \in Executors |-> Nil]

Goto(p, label) == pc' = [pc EXCEPT ![p] = label]

\* Where thread p runs user code and to which a wake or spawn returns: the
\* init closure of Executor::run, the body of a future, or foreign code.
UserCode(p) ==
    IF p \in Contexts THEN "idle"
    ELSE IF current[p] = Nil THEN "init" ELSE "polling"

InUserCode(p) == pc[p] = UserCode(p)

\* A wake or spawn is over: its locals go out of scope.
Return(p) ==
    /\ Goto(p, UserCode(p))
    /\ item' = [item EXCEPT ![p] = Nil]
    /\ target' = [target EXCEPT ![p] = Nil]
    /\ prev' = [prev EXCEPT ![p] = Nil]

---------------------------------------------------------------------------
(* Spawning: AvailableTask::claim, initialize_impl, SyncExecutor::spawn.   *)

\* Mutant: claims a finished task that a stale waker has queued again.
ClaimQueued(p, t) ==
    /\ InUserCode(p)
    /\ \E e \in Executors : <<p, t, e>> \in SpawnRights
    /\ "SPAWNED" \notin state[t]
    /\ state' = [state EXCEPT ![t] = Bits]
    /\ item' = [item EXCEPT ![p] = t]
    /\ Goto(p, "set_poll_fn")
    /\ UNCHANGED <<executor, pollFn, future, wakers, queueVars, target, prev,
                   loopVars>>

\* AvailableTask::claim, State::spawn: a compare-exchange from 0.  Failure
\* yields a poisoned token, which Spawner::spawn turns into Busy: no change.
Claim(p, t) ==
    /\ InUserCode(p)
    /\ \E e \in Executors : <<p, t, e>> \in SpawnRights
    /\ state[t] = {}
    /\ state' = [state EXCEPT ![t] = Bits]
    /\ item' = [item EXCEPT ![p] = t]
    /\ Goto(p, "set_poll_fn")
    /\ UNCHANGED <<executor, pollFn, future, wakers, queueVars, target, prev,
                   loopVars>>

SetPollFn(p) ==
    /\ pc[p] = "set_poll_fn"
    /\ pollFn' = [pollFn EXCEPT ![item[p]] = "poll"]
    /\ Goto(p, "write_future")
    /\ UNCHANGED <<state, executor, future, wakers, queueVars, opVars, loopVars>>

WriteFuture(p) ==
    /\ pc[p] = "write_future"
    /\ future' = [future EXCEPT ![item[p]] = "live"]
    /\ Goto(p, "store_executor")
    /\ UNCHANGED <<state, executor, pollFn, wakers, queueVars, opVars, loopVars>>

\* Spawner::spawn / SendSpawner::spawn pass the token to SyncExecutor::spawn.
StoreExecutor(p) ==
    /\ pc[p] = "store_executor"
    /\ \E e \in Executors :
         /\ <<p, item[p], e>> \in SpawnRights
         /\ executor' = [executor EXCEPT ![item[p]] = e]
         /\ target' = [target EXCEPT ![p] = e]
    /\ Goto(p, "load_head")
    /\ UNCHANGED <<state, pollFn, future, wakers, queueVars, item, prev, loopVars>>

---------------------------------------------------------------------------
(* Waking: wake_task and wake_task_no_pend.                                *)

\* Mutant: the previous value of the bit is not looked at.
WakeAlways(p, t) ==
    /\ InUserCode(p)
    /\ t \in wakers
    /\ state' = [state EXCEPT ![t] = @ \cup {"RUN_QUEUED"}]
    /\ Goto(p, "load_executor")
    /\ item' = [item EXCEPT ![p] = t]
    /\ UNCHANGED <<executor, pollFn, future, wakers, queueVars, target, prev,
                   loopVars>>

\* State::run_enqueue: fetch_or; only the thread that sets the bit goes on.
Wake(p, t) ==
    /\ InUserCode(p)
    /\ t \in wakers
    /\ state' = [state EXCEPT ![t] = @ \cup {"RUN_QUEUED"}]
    /\ IF "RUN_QUEUED" \in state[t]
       THEN UNCHANGED <<pc, item>>
       ELSE /\ Goto(p, "load_executor")
            /\ item' = [item EXCEPT ![p] = t]
    /\ UNCHANGED <<executor, pollFn, future, wakers, queueVars, target, prev,
                   loopVars>>

LoadExecutor(p) ==
    /\ pc[p] = "load_executor"
    /\ target' = [target EXCEPT ![p] = executor[item[p]]]
    /\ Goto(p, "load_head")
    /\ UNCHANGED <<taskVars, queueVars, item, prev, loopVars>>

---------------------------------------------------------------------------
(* RunQueue::enqueue and SyncExecutor::enqueue.                            *)

\* The closure of fetch_update: remember the head, link the task in front.
Link(p) ==
    LET h == head[target[p]] IN
    /\ prev' = [prev EXCEPT ![p] = h]
    /\ next' = [next EXCEPT ![item[p]] = h]

LoadHead(p) ==
    /\ pc[p] = "load_head"
    /\ Link(p)
    /\ Goto(p, "cas")
    /\ UNCHANGED <<taskVars, head, event, item, target, loopVars>>

\* Mutant: a plain store in place of the compare-exchange.
CasStore(p) ==
    /\ pc[p] = "cas"
    /\ head' = [head EXCEPT ![target[p]] = item[p]]
    /\ IF prev[p] = Nil /\ p \notin NoPendContexts
       THEN Goto(p, "pend") /\ UNCHANGED opVars
       ELSE Return(p)
    /\ UNCHANGED <<taskVars, next, event, loopVars>>

\* The compare-exchange succeeds; the pender is called if the queue was empty.
CasOk(p) ==
    /\ pc[p] = "cas"
    /\ head[target[p]] = prev[p]
    /\ head' = [head EXCEPT ![target[p]] = item[p]]
    /\ IF prev[p] = Nil /\ p \notin NoPendContexts
       THEN Goto(p, "pend") /\ UNCHANGED opVars
       ELSE Return(p)
    /\ UNCHANGED <<taskVars, next, event, loopVars>>

CasRetry(p) ==
    /\ pc[p] = "cas"
    /\ head[target[p]] # prev[p]
    /\ Link(p)
    /\ UNCHANGED <<taskVars, head, event, pc, item, target, loopVars>>

Pend(p) ==
    /\ pc[p] = "pend"
    /\ event' = [event EXCEPT ![target[p]] = TRUE]
    /\ Return(p)
    /\ UNCHANGED <<taskVars, next, head, loopVars>>

---------------------------------------------------------------------------
(* The run loop of executor e: poll, sleep, poll, ...                      *)

\* The init closure of Executor::run returns.
EnterLoop(e) ==
    /\ pc[e] = "init"
    /\ Goto(e, "swap")
    /\ UNCHANGED <<taskVars, queueVars, opVars, loopVars>>

\* RunQueue::dequeue_all: head.swap(null).
TakeBatch(e) ==
    /\ pc[e] = "swap"
    /\ walk' = [walk EXCEPT ![e] = head[e]]
    /\ head' = [head EXCEPT ![e] = Nil]
    /\ Goto(e, "walk")
    /\ UNCHANGED <<taskVars, next, event, opVars, current>>

\* while let Some(task) = next { next = task.next; ...
NextTask(e) ==
    /\ pc[e] = "walk"
    /\ walk[e] # Nil
    /\ current' = [current EXCEPT ![e] = walk[e]]
    /\ walk' = [walk EXCEPT ![e] = next[walk[e]]]
    /\ Goto(e, "run_dequeue")
    /\ UNCHANGED <<taskVars, queueVars, opVars>>

\* Mutant: clears the event it has just worked off before sleeping.
BatchDoneClears(e) ==
    /\ pc[e] = "walk"
    /\ walk[e] = Nil
    /\ event' = [event EXCEPT ![e] = FALSE]
    /\ Goto(e, "wfe")
    /\ UNCHANGED <<taskVars, next, head, opVars, loopVars>>

BatchDone(e) ==
    /\ pc[e] = "walk"
    /\ walk[e] = Nil
    /\ Goto(e, "wfe")
    /\ UNCHANGED <<taskVars, queueVars, opVars, loopVars>>

\* State::run_dequeue: the bit is cleared before the task is looked at.
RunDequeue(e) ==
    /\ pc[e] = "run_dequeue"
    /\ state' = [state EXCEPT ![current[e]] = @ \ {"RUN_QUEUED"}]
    /\ Goto(e, "on_task")
    /\ UNCHANGED <<executor, pollFn, future, wakers, queueVars, opVars, loopVars>>

\* on_task of SyncExecutor::poll reads poll_fn and calls it: TaskStorage::poll
\* makes a waker and enters the future.
PollFuture(e) ==
    /\ pc[e] = "on_task"
    /\ pollFn[current[e]] = "poll"
    /\ wakers' = wakers \cup {current[e]}
    /\ Goto(e, "polling")
    /\ UNCHANGED <<state, executor, pollFn, future, queueVars, opVars, loopVars>>

\* Mutant: returns from dequeue_all at the first exited task.
PollExitedStops(e) ==
    /\ pc[e] = "on_task"
    /\ pollFn[current[e]] # "poll"
    /\ current' = [current EXCEPT ![e] = Nil]
    /\ walk' = [walk EXCEPT ![e] = Nil]
    /\ Goto(e, "walk")
    /\ UNCHANGED <<taskVars, queueVars, opVars>>

\* ... or poll_exited does nothing.
PollExited(e) ==
    /\ pc[e] = "on_task"
    /\ pollFn[current[e]] # "poll"
    /\ current' = [current EXCEPT ![e] = Nil]
    /\ Goto(e, "walk")
    /\ UNCHANGED <<taskVars, queueVars, opVars, walk>>

\* Mutant: reads the next pointer after the task has run.
PollPendingLate(e) ==
    /\ pc[e] = "polling"
    /\ current' = [current EXCEPT ![e] = Nil]
    /\ walk' = [walk EXCEPT ![e] = next[current[e]]]
    /\ Goto(e, "walk")
    /\ UNCHANGED <<taskVars, queueVars, opVars>>

PollPending(e) ==
    /\ pc[e] = "polling"
    /\ current' = [current EXCEPT ![e] = Nil]
    /\ Goto(e, "walk")
    /\ UNCHANGED <<taskVars, queueVars, opVars, walk>>

\* Poll::Ready: drop the future, replace poll_fn, despawn last.
PollReady(e) ==
    /\ pc[e] = "polling"
    /\ future' = [future EXCEPT ![current[e]] = "uninit"]
    /\ Goto(e, "set_exited")
    /\ UNCHANGED <<state, executor, pollFn, wakers, queueVars, opVars, loopVars>>

\* Mutant: poll_fn is left as it is when the future is dropped.
SetExitedNot(e) ==
    /\ pc[e] = "set_exited"
    /\ Goto(e, "despawn")
    /\ UNCHANGED <<taskVars, queueVars, opVars, loopVars>>

SetExited(e) ==
    /\ pc[e] = "set_exited"
    /\ pollFn' = [pollFn EXCEPT ![current[e]] = "poll_exited"]
    /\ Goto(e, "despawn")
    /\ UNCHANGED <<state, executor, future, wakers, queueVars, opVars, loopVars>>

Despawn(e) ==
    /\ pc[e] = "despawn"
    /\ state' = [state EXCEPT ![current[e]] = @ \ {"SPAWNED"}]
    /\ current' = [current EXCEPT ![e] = Nil]
    /\ Goto(e, "walk")
    /\ UNCHANGED <<executor, pollFn, future, wakers, queueVars, opVars, walk>>

\* wfe (or Signaler::wait, or the interrupt entry) consumes the event.
WaitForEvent(e) ==
    /\ pc[e] = "wfe"
    /\ event[e]
    /\ event' = [event EXCEPT ![e] = FALSE]
    /\ Goto(e, "swap")
    /\ UNCHANGED <<taskVars, next, head, opVars, loopVars>>

\* Any interrupt, or another core's SEV, also ends the sleep.
SpuriousEvent(e) ==
    /\ pc[e] = "wfe"
    /\ ~event[e]
    /\ Goto(e, "swap")
    /\ UNCHANGED <<taskVars, queueVars, opVars, loopVars>>

---------------------------------------------------------------------------
OpStep(p) ==
    \/ SetPollFn(p) \/ WriteFuture(p) \/ StoreExecutor(p)
    \/ LoadExecutor(p)
    \/ LoadHead(p) \/ CasOk(p) \/ CasRetry(p) \/ Pend(p)

LoopStep(e) ==
    \/ TakeBatch(e) \/ NextTask(e) \/ BatchDone(e) \/ RunDequeue(e)
    \/ PollFuture(e) \/ PollExited(e)
    \/ SetExited(e) \/ Despawn(e) \/ WaitForEvent(e)

UserReturns(e) == EnterLoop(e) \/ PollPending(e) \/ PollReady(e)

Next ==
    \/ \E p \in Threads : OpStep(p) \/ \E t \in Tasks : Claim(p, t) \/ Wake(p, t)
    \/ \E e \in Executors : LoopStep(e) \/ UserReturns(e) \/ SpuriousEvent(e)

\* Every context finishes the wake or spawn it began and every executor keeps
\* running its loop; a future's poll, which may wake and spawn in between,
\* returns; and a compare-exchange that can succeed time and again does.
Fairness ==
    /\ \A p \in Threads : WF_vars(OpStep(p)) /\ SF_vars(CasOk(p))
    /\ \A e \in Executors : WF_vars(LoopStep(e)) /\ SF_vars(UserReturns(e))

Safety == Init /\ [][Next]_vars
Spec == Safety /\ Fairness
---------------------------------------------------------------------------
(* Properties.                                                             *)

\* p is between winning the right to enqueue t and having enqueued it.
Holds(p, t) == item[p] = t /\ pc[p] \in OpLabels \ {"pend"}

\* e is inside the future of t, or inside a wake or spawn that it makes.
Polls(e, t) == current[e] = t /\ pc[e] \in OpLabels \cup {"polling"}

\* S holds with each task the one that its next pointer leads to.
Linked(S) == \A t \in S : next[t] \in S \cup {Nil}

\* The tasks on the linked list that starts at h: the least such set.
Chain(h) ==
    {t \in Tasks : \A S \in SUBSET Tasks : h \in S \cup {Nil} /\ Linked(S) => t \in S}
Queue(e) == Chain(head[e])
Batch(e) == Chain(walk[e])

\* The future that is polled exists, belongs to a task spawned on this very
\* executor, and is polled by no other (raw/mod.rs:172 "Valid if
\* STATE_SPAWNED"; :82 "The task's future is not polled").
PollsOwnLiveTask ==
    \A e \in Executors, t \in Tasks :
        Polls(e, t) =>
            /\ future[t] = "live"
            /\ "SPAWNED" \in state[t]
            /\ executor[t] = e
            /\ \A f \in Executors \ {e} : ~Polls(f, t)

\* "task must NOT be already enqueued (in this executor or another one)" and
\* "there are no concurrent accesses to `next`": whoever is enqueuing a task
\* is alone in doing so, and the task is on no list and under no visit.
EnqueueExclusive ==
    \A p \in Threads, t \in Tasks :
        Holds(p, t) =>
            /\ \A q \in Threads \ {p} : ~Holds(q, t)
            /\ \A e \in Executors :
                 /\ t \notin Queue(e) \cup Batch(e)
                 /\ ~(pc[e] = "run_dequeue" /\ current[e] = t)

\* A task marked RUN_QUEUED is on its way to a visit: somebody is enqueuing
\* it, or its own executor has it on its queue, on its batch or in hand.
NothingStranded ==
    \A t \in Tasks :
        "RUN_QUEUED" \in state[t] =>
            \/ \E p \in Threads : Holds(p, t)
            \/ \E e \in Executors :
                 /\ e = executor[t]
                 /\ \/ t \in Queue(e) \cup Batch(e)
                    \/ pc[e] = "run_dequeue" /\ current[e] = t

\* An executor sleeps on a non-empty queue only if its event is set or about
\* to be: pending only when the queue was empty loses no wakeup, whenever the
\* wake falls between the end of a poll and the wfe.
NoLostPend ==
    \A e \in Executors :
        head[e] # Nil /\ pc[e] = "wfe" =>
            event[e] \/ \E p \in Threads : pc[p] = "pend" /\ target[p] = e

\* "the next batch won't run until the current batch is completely processed,
\* so even if a task enqueues itself instantly ... can't prevent other tasks
\* from running" (run_queue_atomics.rs:28-30): between two swaps the batch
\* only loses tasks.
BatchOnlyShrinks ==
    [][\A e \in Executors : pc[e] # "swap" => Batch(e)' \subseteq Batch(e)]_vars

\* The life cycle of a task as TaskHeader documents it.
Alive == {t \in Tasks : "SPAWNED" \in state[t]}
Notified == {t \in Tasks : "RUN_QUEUED" \in state[t]}
Running ==
    {t \in Tasks :
        \E e \in Executors :
            /\ current[e] = t
            /\ \/ pc[e] \in OpLabels \cup {"polling", "set_exited", "despawn"}
               \/ pc[e] = "on_task" /\ pollFn[t] = "poll"}

Life == INSTANCE TaskLifecycle WITH
    alive <- Alive, notified <- Notified, running <- Running

\* Every step is a transition of the documented life cycle or none.
LifeCycle == Life!LifeSafety

\* ... and every task that is spawned or woken is visited, hence polled if it
\* still has its future.
EveryWakeVisits == Life!LifeSpec
=============================================================================
