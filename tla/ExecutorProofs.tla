--------------------------- MODULE ExecutorProofs ---------------------------
(***************************************************************************)
(* Proofs about Executor for any number of tasks, executors and contexts:  *)
(* IInv is inductive if every storage has one owner, and implies that no   *)
(* dead or foreign future is polled; every step follows the documented     *)
(* life cycle; no wakeup is lost between the last poll and the sleep.      *)
(*                                                                         *)
(* The second part is about the lists: a task is enqueued by one thread at *)
(* a time and only while it is on no list; no task that is marked as       *)
(* queued is ever off them; and the batch being processed never grows.  A  *)
(* list is the least set that is closed under next, so no proof counts its *)
(* elements.                                                               *)
(***************************************************************************)
EXTENDS ExecutorInvariant, TLAPS

USE NilAssumption, ThreadsAssumption, RightsAssumption
    DEF Threads, Bits, LoopLabels, VisitLabels, OpLabels,
        Goto, taskVars, queueVars, opVars, loopVars

---------------------------------------------------------------------------
(* What single steps do to the sets and to the invariants they endanger.   *)

\* A successful compare-exchange leaves its thread at the pender or back in user
\* code, and the locals of every other thread alone.
LEMMA CasOkLocals ==
    ASSUME TypeOK, NEW p \in Threads, CasOk(p)
    PROVE  /\ item[p] \in Tasks
           /\ target[p] \in Executors
           /\ pc'[p] \in {"pend", "idle", "init", "polling"}
           /\ \A q \in Threads \ {p} :
                /\ pc'[q] = pc[q] /\ item'[q] = item[q]
                /\ target'[q] = target[q] /\ prev'[q] = prev[q]
BY DEF CasOk, Return, Goto, UserCode, TypeOK, LocalsOK, opVars

\* After a compare-exchange the locals are in scope for the pender only.
LEMMA CasOkTypeOK ==
    ASSUME IInv, NEW p \in Threads, CasOk(p)
    PROVE  TypeOK'
<1>1. /\ TypeOK /\ item[p] \in Tasks /\ target[p] \in Executors
      /\ UNCHANGED <<taskVars, next, event, loopVars>>
      /\ head' = [head EXCEPT ![target[p]] = item[p]]
      /\ pc[p] = "cas"
  BY CasOkLocals DEF IInv, CasOk
<1>2. \/ pc' = [pc EXCEPT ![p] = "pend"] /\ prev[p] = Nil /\ UNCHANGED opVars
      \/ /\ pc' = [pc EXCEPT ![p] = UserCode(p)]
         /\ item' = [item EXCEPT ![p] = Nil]
         /\ target' = [target EXCEPT ![p] = Nil]
         /\ prev' = [prev EXCEPT ![p] = Nil]
  BY DEF CasOk, Return
<1>3. UserCode(p) \in {"idle", "init", "polling"}
  BY DEF UserCode
<1>4. /\ head' \in [Executors -> Tasks \cup {Nil}]
      /\ pc' \in [Threads -> LoopLabels \cup OpLabels \cup {"idle"}]
      /\ item' \in [Threads -> Tasks \cup {Nil}]
      /\ target' \in [Threads -> Executors \cup {Nil}]
      /\ prev' \in [Threads -> Tasks \cup {Nil}]
  BY <1>1, <1>2, <1>3 DEF TypeOK
<1>5. LocalsOK'
  <2>1. UserCode(p) = IF p \in Contexts THEN "idle"
                      ELSE IF current[p] = Nil THEN "init" ELSE "polling"
    BY DEF UserCode
  <2>2. \A q \in Threads \ {p} :
            /\ pc'[q] = pc[q] /\ item'[q] = item[q]
            /\ target'[q] = target[q] /\ prev'[q] = prev[q]
    BY <1>1, <1>2 DEF TypeOK, opVars
  <2>3. pollFn' = pollFn /\ current' = current
    BY <1>1 DEF taskVars, loopVars
  <2>4. CASE pc' = [pc EXCEPT ![p] = "pend"] /\ prev[p] = Nil /\ UNCHANGED opVars
    <3>1. pc'[p] = "pend" /\ item'[p] = item[p] /\ target'[p] = target[p] /\ prev'[p] = Nil
      BY <1>1, <2>4 DEF TypeOK, opVars
    <3>2. /\ \A e \in Executors : pc'[e] = pc[e] \/ (pc'[e] = "pend" /\ e = p)
          /\ \A c \in Contexts : pc'[c] = pc[c] \/ (pc'[c] = "pend" /\ c = p)
      BY <2>2, <3>1 DEF Threads
    <3> QED
      BY <1>1, <2>2, <2>3, <3>1, <3>2
         DEF TypeOK, LocalsOK, OpLabels, LoopLabels, VisitLabels
  <2>5. CASE pc'[p] = UserCode(p) /\ item'[p] = Nil /\ target'[p] = Nil /\ prev'[p] = Nil
    <3>1. /\ \A e \in Executors : e # p => pc'[e] = pc[e]
          /\ \A c \in Contexts : c # p => pc'[c] = pc[c]
      BY <2>2 DEF Threads
    <3>2. p \in Executors <=> p \notin Contexts
      BY ThreadsAssumption DEF Threads
    <3>3. \A q \in Threads :
              /\ pc'[q] \in OpLabels <=> item'[q] # Nil
              /\ pc'[q] \in {"load_head", "cas", "pend"} <=> target'[q] # Nil
              /\ prev'[q] # Nil => pc'[q] = "cas"
      BY <1>1, <2>1, <2>2, <2>5 DEF LocalsOK, TypeOK, OpLabels
    <3>4. \A c \in Contexts : pc'[c] \in OpLabels \cup {"idle"}
      BY <1>1, <2>1, <2>5, <3>1 DEF LocalsOK, TypeOK
    <3>5. p \in Executors =>
              /\ pc'[p] \in LoopLabels
              /\ pc'[p] \in VisitLabels => current[p] # Nil
              /\ pc'[p] \in LoopLabels \ VisitLabels => current[p] = Nil
              /\ pc'[p] # "on_task"
      BY <2>1, <2>5, <3>2 DEF LoopLabels, VisitLabels
    <3>6. \A e \in Executors :
              /\ pc'[e] \in OpLabels \cup LoopLabels
              /\ pc'[e] \in VisitLabels => current'[e] # Nil
              /\ pc'[e] \in LoopLabels \ VisitLabels => current'[e] = Nil
              /\ pc'[e] = "on_task" => pollFn'[current'[e]] # "None"
      BY <1>1, <2>3, <3>1, <3>5 DEF LocalsOK, TypeOK
    <3> QED
      BY <3>3, <3>4, <3>6 DEF LocalsOK
  <2> QED
    BY <1>1, <1>2, <2>4, <2>5 DEF TypeOK
<1>6. QED
  BY <1>1, <1>4, <1>5 DEF TypeOK

\* ... and the task is no longer being enqueued,
LEMMA CasOkHeld ==
    ASSUME IInv, NEW p \in Threads, CasOk(p)
    PROVE  Held' = Held \ {item[p]}
<1>1. pc[p] = "cas" /\ TypeOK /\ HolderInv
  BY DEF CasOk, IInv
<1>2. \A q \in Threads \ {p} : pc[q] \in HoldLabels => item[q] # item[p]
  BY <1>1 DEF HolderInv, HoldLabels
<1>3. \A q \in Threads : pc'[q] \in HoldLabels <=> q # p /\ pc[q] \in HoldLabels
  BY <1>1, CasOkLocals DEF HoldLabels, SpawnLabels
<1>4. QED
  BY <1>1, <1>2, <1>3, CasOkLocals DEF Held

\* ... but on the queue.
LEMMA CasOkQueued ==
    ASSUME IInv, NEW p \in Threads, CasOk(p), Held' = Held \ {item[p]}, InHand'
           = InHand
    PROVE  Queued' = Queued \cup {item[p]}
<1>1. state' = state /\ item[p] \in Tasks
  BY CasOkLocals DEF CasOk, taskVars, IInv
<1>2. "RUN_QUEUED" \in state[item[p]] /\ item[p] \notin InHand
  BY DEF IInv, HolderInv, HoldLabels, CasOk
<1>3. QED
  BY <1>1, <1>2 DEF Queued

\* A task whose executor is stored is spawned.
LEMMA StoreExecutorSpawning ==
    ASSUME IInv, NEW p \in Threads, StoreExecutor(p)
    PROVE  Spawning' = Spawning \ {item[p]}
<1>1. pc[p] = "store_executor" /\ TypeOK /\ HolderInv
  BY DEF StoreExecutor, IInv
<1>2. \A q \in Threads \ {p} : pc[q] \in SpawnLabels => item[q] # item[p]
  BY <1>1 DEF HolderInv, HoldLabels, SpawnLabels
<1>3. /\ item' = item
      /\ \A q \in Threads :
             pc'[q] \in SpawnLabels <=> q # p /\ pc[q] \in SpawnLabels
  BY <1>1 DEF StoreExecutor, Goto, SpawnLabels, TypeOK
<1>4. QED
  BY <1>1, <1>2, <1>3 DEF Spawning

\* Clearing the bit of the task in hand changes nothing for the others.
LEMMA RunDequeueQueued ==
    ASSUME IInv, NEW e \in Executors, RunDequeue(e), Held' = Held, InHand' =
           InHand \ {current[e]}
    PROVE  Queued' = Queued
<1>1. current[e] \in Tasks /\ current[e] \in InHand
  BY DEF IInv, TypeOK, LocalsOK, RunDequeue, InHand
<1>2. \A t \in Tasks \ {current[e]} : state'[t] = state[t]
  BY DEF RunDequeue, IInv, TypeOK
<1>3. "RUN_QUEUED" \notin state'[current[e]]
  BY <1>1 DEF RunDequeue, IInv, TypeOK
<1>4. QED
  BY <1>1, <1>2, <1>3 DEF Queued

\* No two executors visit the same task.
LEMMA OneVisitor ==
    ASSUME IInv, NEW e \in Executors, NEW f \in Executors, current[e] # Nil,
           current[f] = current[e]
    PROVE  f = e
BY DEF IInv, VisitInv

\* No executor visits a task that is being spawned: only its own could, and that
\* one is busy spawning it.
LEMMA SpawnerNotVisited ==
    ASSUME IInv, OwnedStorage, NEW p \in Threads, pc[p] \in SpawnLabels, NEW e
           \in Executors
    PROVE  current[e] # item[p]
<1>1. /\ item[p] \in Tasks
      /\ <<p, item[p], p>> \in SpawnRights
      /\ p \in Executors
      /\ current[p] # item[p]
  BY DEF IInv, SpawnInv, OwnedStorage, SpawnLabels, TypeOK, LocalsOK
<1>2. SUFFICES ASSUME current[e] = item[p] PROVE FALSE
  OBVIOUS
<1>3. executor[item[p]] = e
  BY <1>1, <1>2 DEF IInv, VisitInv
<1>4. <<e, item[p], e>> \in SpawnRights
  BY <1>1, <1>3 DEF IInv, TaskInv
<1>5. QED
  BY <1>1, <1>2, <1>4 DEF OwnedStorage

\* The executor that wake_task loads and unwraps unchecked is not null.
LEMMA LoadExecutorTypeOK ==
    ASSUME IInv, NEW p \in Threads, LoadExecutor(p)
    PROVE  TypeOK'
<1>1. pc[p] = "load_executor" /\ item[p] \in Tasks /\ TypeOK
  BY DEF LoadExecutor, IInv, TypeOK, LocalsOK
<1>2. executor[item[p]] \in Executors
  BY <1>1 DEF IInv, TypeOK, EnqueueInv
<1>3. QED
  BY <1>1, <1>2 DEF TypeOK, LocalsOK, LoadExecutor, Goto, taskVars, queueVars,
     loopVars

\* The poll_fn that on_task is about to call is not None.
LEMMA RunDequeueTypeOK ==
    ASSUME IInv, NEW e \in Executors, RunDequeue(e)
    PROVE  TypeOK'
<1>1. pc[e] = "run_dequeue" /\ current[e] \in Tasks 
  BY DEF RunDequeue, IInv, TypeOK, LocalsOK
<1>2. pollFn[current[e]] # "None"
  <2>1. executor[current[e]] = e
    BY <1>1 DEF IInv, VisitInv
  <2>2. QED
    BY <1>1, <2>1 DEF IInv, TaskInv
<1>3. QED
  BY <1>1, <1>2 DEF IInv, TypeOK, LocalsOK, RunDequeue, Goto, queueVars, opVars,
     loopVars

\* poll_fn is installed in a task that is being spawned.
LEMMA SetPollFnTaskInv ==
    ASSUME IInv, OwnedStorage, NEW p \in Threads, SetPollFn(p), Spawning' =
           Spawning, Exiting' = Exiting
    PROVE  TaskInv'
<1>1. item[p] \in Tasks /\ item[p] \in Spawning /\ pc[p] = "set_poll_fn"
  BY DEF SetPollFn, Spawning, SpawnLabels, IInv, TypeOK, LocalsOK
<1>2. /\ pollFn' = [pollFn EXCEPT ![item[p]] = "poll"]
      /\ executor' = executor
      /\ state' = state
      /\ wakers' = wakers
      /\ future' = future
  BY DEF SetPollFn
<1>3. TaskInv /\ TypeOK
  BY DEF IInv
<1>4. QED
  BY <1>1, <1>2, <1>3 DEF TaskInv, TypeOK

\* poll_fn is replaced in a task that is exiting.
LEMMA SetExitedTaskInv ==
    ASSUME IInv, OwnedStorage, NEW e \in Executors, SetExited(e), Spawning' =
           Spawning, Exiting' = Exiting
    PROVE  TaskInv'
<1>1. current[e] \in Tasks /\ current[e] \in Exiting /\ pc[e] = "set_exited"
  BY DEF SetExited, Exiting, IInv, TypeOK, LocalsOK
<1>2. "SPAWNED" \in state[current[e]] /\ executor[current[e]] = e
  BY <1>1 DEF IInv, VisitInv
<1>3. /\ pollFn' = [pollFn EXCEPT ![current[e]] = "poll_exited"]
      /\ executor' = executor
      /\ state' = state
      /\ wakers' = wakers
      /\ future' = future
  BY DEF SetExited
<1>4. TaskInv /\ TypeOK
  BY DEF IInv
<1>5. QED
  BY <1>1, <1>2, <1>3, <1>4 DEF TaskInv, TypeOK

\* A thread that has enqueued its task holds none.
LEMMA CasOkHolderInv ==
    ASSUME IInv, NEW p \in Threads, CasOk(p), InHand' = InHand
    PROVE  HolderInv'
<1>1. TypeOK /\ HolderInv /\ state' = state
  BY DEF IInv, CasOk, taskVars
<1>2. pc'[p] \notin HoldLabels
  BY <1>1, CasOkLocals DEF HoldLabels, SpawnLabels
<1>3. QED
  BY <1>1, <1>2, CasOkLocals DEF HolderInv

\* A claimed storage was marked by nobody, hence held by nobody.
LEMMA ClaimHolderInv ==
    ASSUME IInv, NEW p \in Threads, NEW t \in Tasks, Claim(p, t), InHand' =
           InHand
    PROVE  HolderInv'
<1>1. TypeOK /\ HolderInv /\ state[t] = {}
  BY DEF IInv, Claim
<1>2. t \notin InHand
  BY <1>1 DEF IInv, VisitInv, InHand
<1>3. \A q \in Threads : pc[q] \in HoldLabels => item[q] # t
  BY <1>1 DEF HolderInv
<1>4. /\ pc' = [pc EXCEPT ![p] = "set_poll_fn"]
      /\ item' = [item EXCEPT ![p] = t]
      /\ state' = [state EXCEPT ![t] = {"SPAWNED", "RUN_QUEUED"}]
  BY DEF Claim, Goto
<1>5. \A q \in Threads : pc[q] \in HoldLabels => item[q] \in Tasks
  BY <1>1 DEF TypeOK, LocalsOK, HoldLabels, SpawnLabels
<1>6. QED
  BY <1>1, <1>2, <1>3, <1>4, <1>5 DEF HolderInv, TypeOK

\* A waker that finds the bit clear is alone in setting it.
LEMMA WakeHolderInv ==
    ASSUME IInv, NEW p \in Threads, NEW t \in Tasks, Wake(p, t), InHand' =
           InHand
    PROVE  HolderInv'
<1>1. TypeOK /\ HolderInv 
  BY DEF IInv
<1>5. \A q \in Threads : pc[q] \in HoldLabels => item[q] \in Tasks
  BY <1>1 DEF TypeOK, LocalsOK, HoldLabels, SpawnLabels
<1>a. CASE "RUN_QUEUED" \in state[t]
  BY <1>1, <1>5, <1>a DEF Wake, HolderInv, TypeOK
<1>b. CASE "RUN_QUEUED" \notin state[t]
  <2>1. t \notin InHand
    BY <1>b DEF IInv, VisitInv, InHand
  <2>2. \A q \in Threads : pc[q] \in HoldLabels => item[q] # t
    BY <1>1, <1>b DEF HolderInv
  <2>3. /\ pc' = [pc EXCEPT ![p] = "load_executor"]
        /\ item' = [item EXCEPT ![p] = t]
        /\ state' = [state EXCEPT ![t] = @ \cup {"RUN_QUEUED"}]
    BY <1>b DEF Wake, Goto
  <2>4. QED
    BY <1>1, <1>5, <2>1, <2>2, <2>3 DEF HolderInv, TypeOK
<1>6. QED
  BY <1>a, <1>b

\* The task taken from a list is held by nobody.
LEMMA NextTaskHolderInv ==
    ASSUME IInv, NEW e \in Executors, NextTask(e), InHand' = InHand \cup
           {walk[e]}
    PROVE  HolderInv'
<1>1. TypeOK /\ HolderInv /\ state' = state /\ item' = item
  BY DEF IInv, NextTask, taskVars, opVars
<1>2. walk[e] \notin Held /\ walk[e] \in Tasks
  BY DEF NextTask, IInv, PointerInv, Queued
<1>3. \A q \in Threads : pc[q] \in HoldLabels => item[q] # walk[e]
  BY <1>2 DEF Held
<1>4. \A q \in Threads : pc'[q] \in HoldLabels => pc[q] \in HoldLabels
  BY <1>1 DEF NextTask, Goto, HoldLabels, SpawnLabels, TypeOK
<1>5. QED
  BY <1>1, <1>3, <1>4 DEF HolderInv

\* The bit that is cleared is not the mark of a task being enqueued.
LEMMA RunDequeueHolderInv ==
    ASSUME IInv, NEW e \in Executors, RunDequeue(e), InHand' = InHand \
           {current[e]}
    PROVE  HolderInv'
<1>1. TypeOK /\ HolderInv /\ item' = item
  BY DEF IInv, RunDequeue, opVars
<1>2. current[e] \in InHand
  BY DEF RunDequeue, IInv, TypeOK, LocalsOK, InHand
<1>3. \A q \in Threads : pc[q] \in HoldLabels => item[q] # current[e]
  BY <1>1, <1>2 DEF HolderInv
<1>4. \A q \in Threads : pc'[q] \in HoldLabels => pc[q] \in HoldLabels
  BY <1>1 DEF RunDequeue, Goto, HoldLabels, SpawnLabels, TypeOK
<1>5. \A t \in Tasks \ {current[e]} : state'[t] = state[t]
  BY <1>1 DEF RunDequeue, TypeOK
<1>6. \A q \in Threads : pc[q] \in HoldLabels => item[q] \in Tasks
  BY <1>1 DEF TypeOK, LocalsOK, HoldLabels, SpawnLabels
<1>7. QED
  BY <1>1, <1>3, <1>4, <1>5, <1>6 DEF HolderInv

\* The executor that claims a storage does not poll it.
LEMMA ClaimSpawnInv ==
    ASSUME IInv, OwnedStorage, NEW p \in Threads, NEW t \in Tasks, Claim(p, t)
    PROVE  SpawnInv'
<1>1. TypeOK /\ SpawnInv /\ state[t] = {}
  BY DEF IInv, Claim
<1>2. /\ pc' = [pc EXCEPT ![p] = "set_poll_fn"]
      /\ item' = [item EXCEPT ![p] = t]
      /\ state' = [state EXCEPT ![t] = {"SPAWNED", "RUN_QUEUED"}]
      /\ UNCHANGED <<pollFn, future, current>>
  BY DEF Claim, Goto, loopVars
<1>3. <<p, t, p>> \in SpawnRights /\ p \in Executors
  BY DEF Claim, OwnedStorage
<1>4. current[p] # t
  <2>1. \/ pc[p] = "init" /\ current[p] = Nil
        \/ pc[p] = "polling" /\ current[p] # Nil
    BY <1>3 DEF Claim, InUserCode, UserCode
  <2>2. CASE pc[p] = "polling" /\ current[p] # Nil
    <3>1. "SPAWNED" \in state[current[p]]
      BY <2>2, <1>3 DEF IInv, VisitInv
    <3>2. QED
      BY <3>1, <1>1
  <2>3. QED
    BY <2>1, <2>2
<1>5. \A q \in Threads : pc[q] \in SpawnLabels => item[q] \in Tasks
  BY <1>1 DEF TypeOK, LocalsOK, SpawnLabels
<1>6. QED
  BY <1>1, <1>2, <1>3, <1>4, <1>5 DEF SpawnInv, SpawnLabels, TypeOK

\* The task that exits is not being spawned.
LEMMA ExitSpawnInv ==
    ASSUME IInv, OwnedStorage, NEW e \in Executors, UNCHANGED <<item>>,
           PollReady(e) \/ SetExited(e) \/ Despawn(e)
    PROVE  SpawnInv'
<1>1. TypeOK /\ SpawnInv
  BY DEF IInv
<1>2. /\ pc[e] \in {"polling", "set_exited", "despawn"}
      /\ pc'[e] \in {"set_exited", "despawn", "walk"}
      /\ (\A q \in Threads \ {e} : pc'[q] = pc[q])
  BY <1>1 DEF PollReady, SetExited, Despawn, Goto, TypeOK
<1>3. /\ \A t \in Tasks \ {current[e]} :
             /\ state'[t] = state[t]
             /\ pollFn'[t] = pollFn[t]
             /\ future'[t] = future[t]
      /\ \A f \in Executors \ {e} : current'[f] = current[f]
  BY <1>1 DEF PollReady, SetExited, Despawn, TypeOK, loopVars
<1>4. ASSUME NEW q \in Threads, pc'[q] \in SpawnLabels 
      PROVE  /\ q # e
             /\ q \in Executors
             /\ pc[q] = pc'[q]
             /\ item[q] # current[e]
             /\ item[q] \in Tasks
  <2>1. q # e /\ pc[q] = pc'[q]
    BY <1>2, <1>4 DEF SpawnLabels
  <2>2. item[q] \in Tasks
    BY <2>1, <1>4, <1>1 DEF TypeOK, LocalsOK, SpawnLabels
  <2>3. q \in Executors
    BY <2>1, <2>2, <1>1, <1>4 DEF SpawnInv, OwnedStorage
  <2>4. QED
    BY <2>1, <2>2, <2>3, <1>4, SpawnerNotVisited
<1>5. QED
  BY <1>1, <1>3, <1>4 DEF SpawnInv, SpawnLabels

\* The other enqueues go on as before.
LEMMA CasOkEnqueueInv ==
    ASSUME IInv, NEW p \in Threads, CasOk(p)
    PROVE  EnqueueInv'
<1>1. TypeOK /\ EnqueueInv /\ executor' = executor /\ next' = next
  BY DEF IInv, CasOk, taskVars
<1>2. QED
  BY <1>1, CasOkLocals DEF EnqueueInv

\* A task of which a waker exists has an executor.
LEMMA WakeEnqueueInv ==
    ASSUME IInv, NEW p \in Threads, NEW t \in Tasks, Wake(p, t)
    PROVE  EnqueueInv'
<1>1. TypeOK /\ EnqueueInv /\ executor[t] # Nil
  BY DEF IInv, Wake, TaskInv
<1>2. UNCHANGED <<executor, target, next, prev>>
  BY DEF Wake, queueVars
<1>3. CASE UNCHANGED <<pc, item>>
  BY <1>1, <1>2, <1>3 DEF EnqueueInv
<1>4. CASE /\ pc' = [pc EXCEPT ![p] = "load_executor"]
           /\ item' = [item EXCEPT ![p] = t]
  BY <1>1, <1>2, <1>4 DEF EnqueueInv, TypeOK
<1>5. QED
  BY <1>3, <1>4 DEF Wake, Goto

\* Lists stay as they are if nothing on them changes.
LEMMA PointerFrame ==
    ASSUME TypeOK, PointerInv, UNCHANGED <<head, walk>>, Queued' = Queued,
           \A t \in Queued : next'[t] = next[t] /\ executor'[t] = executor[t]
    PROVE  PointerInv'
<1>1. Queued \subseteq Tasks
  BY DEF Queued
<1>2. QED
  BY <1>1 DEF PointerInv, TypeOK

\* A task being enqueued is on no list.
LEMMA HeldNotQueued ==
    ASSUME IInv, NEW p \in Threads, pc[p] \in HoldLabels
    PROVE  item[p] \in Tasks /\ item[p] \notin Queued
<1>1. item[p] \in Tasks
  BY DEF IInv, TypeOK, LocalsOK, HoldLabels, SpawnLabels
<1>2. QED
  BY <1>1 DEF Queued, Held

\* Linking a task in front of the queue changes no list, for it is on none.
LEMMA LinkPointerInv == ASSUME IInv, NEW p \in Threads, Queued' = Queued,
           StoreExecutor(p) \/ LoadHead(p) \/ CasRetry(p)
    PROVE PointerInv'
<1>1. TypeOK /\ PointerInv
  BY DEF IInv
<1>2. item[p] \notin Queued
  BY HeldNotQueued DEF StoreExecutor, LoadHead, CasRetry, HoldLabels,
     SpawnLabels
<1>3. UNCHANGED <<head, walk>> /\ Queued \subseteq Tasks
  BY DEF StoreExecutor, LoadHead, CasRetry, queueVars, loopVars, Queued
<1>4. \A t \in Queued : next'[t] = next[t] /\ executor'[t] = executor[t]
  BY <1>1, <1>2, <1>3 DEF StoreExecutor, LoadHead, CasRetry, Link, queueVars,
     taskVars, TypeOK
<1>5. QED
  BY <1>1, <1>3, <1>4, PointerFrame

\* The compare-exchange puts it in front of the list it was linked to.
LEMMA CasOkPointerInv ==
    ASSUME IInv, NEW p \in Threads, CasOk(p), Queued' = Queued \cup {item[p]}
    PROVE  PointerInv'
<1> DEFINE t == item[p]  e == target[p]
<1>1. t \in Tasks /\ e \in Executors /\ t \notin Queued /\ TypeOK /\ PointerInv
  BY CasOkLocals, HeldNotQueued DEF CasOk, HoldLabels, IInv
<1>2. executor[t] = e /\ next[t] = head[e]
  BY DEF IInv, EnqueueInv, CasOk
<1>3. /\ head' = [head EXCEPT ![e] = t]
      /\ UNCHANGED <<next, walk, executor>>
      /\ Queued \subseteq Tasks
  BY DEF CasOk, taskVars, loopVars, Queued
<1>4. \A f \in Executors : head[f] # t /\ walk[f] # t
  BY <1>1 DEF PointerInv
<1>5. \A u \in Queued : next[u] # t
  BY <1>1, <1>3 DEF PointerInv
<1>h. /\ head' \in [Executors -> Tasks \cup {Nil}]
      /\ head'[e] = t
      /\ \A f \in Executors \ {e} : head'[f] = head[f]
  BY <1>1, <1>3 DEF TypeOK
<1>6. ASSUME NEW f \in Executors PROVE 
         /\ head'[f] # Nil => head'[f] \in Queued' /\ executor'[head'[f]] = f
         /\ walk'[f] # Nil => walk'[f] \in Queued' /\ executor'[walk'[f]] = f
         /\ head'[f] # Nil => head'[f] # walk'[f]
  BY <1>1, <1>2, <1>3, <1>4, <1>h DEF PointerInv
<1>7. ASSUME NEW u \in Tasks, u \in Queued', next'[u] # Nil
      PROVE  /\ next'[u] \in Queued'
             /\ executor'[next'[u]] = executor'[u]
             /\ \A f \in Executors : next'[u] # head'[f] /\ next'[u] # walk'[f]
             /\ \A v \in Tasks : v \in Queued' /\ next'[v] = next'[u] => v = u
  <2>1. CASE u = t
    <3>1. head[e] # Nil /\ next[u] = head[e]
      BY <2>1, <1>2, <1>3, <1>7
    <3>2. head[e] \in Queued /\ executor[head[e]] = e /\ head[e] # t
      BY <3>1, <1>1, <1>4 DEF PointerInv
    <3>3. \A f \in Executors : f # e => head[f] # head[e]
      BY <3>1, <3>2, <1>1 DEF PointerInv
    <3>4. \A f \in Executors : walk[f] # head[e]
      BY <3>1, <3>2, <1>1 DEF PointerInv
    <3>5. \A v \in Queued : next[v] # head[e]
      BY <3>1, <1>1, <1>3 DEF PointerInv
    <3>6. QED
      BY <3>1, <3>2, <3>3, <3>4, <3>5, <2>1, <1>1, <1>2, <1>3, <1>h
  <2>2. CASE u # t
    <3>1. u \in Queued /\ next[u] # Nil
      BY <2>2, <1>3, <1>7
    <3>2. /\ next[u] \in Queued
          /\ executor[next[u]] = executor[u]
          /\ \A f \in Executors : next[u] # head[f] /\ next[u] # walk[f]
          /\ \A v \in Tasks : v \in Queued /\ next[v] = next[u] => v = u
      BY <3>1, <1>1 DEF PointerInv
    <3>3. next[u] # t /\ next[t] # next[u]
      BY <3>1, <3>2, <1>1, <1>2, <1>5
    <3>4. QED
      BY <3>1, <3>2, <3>3, <1>1, <1>3, <1>h
  <2>3. QED
    BY <2>1, <2>2
<1>8. QED
  BY <1>6, <1>7 DEF PointerInv

\* Spawning a task changes nothing that a visit looks at.
LEMMA SpawnVisitInv ==
    ASSUME IInv, OwnedStorage, NEW p \in Threads, SetPollFn(p) \/
           StoreExecutor(p)
    PROVE  VisitInv'
<1>1. TypeOK /\ VisitInv /\ pc[p] \in SpawnLabels /\ item[p] \in Tasks
  BY DEF IInv, SetPollFn, StoreExecutor, TypeOK, LocalsOK, SpawnLabels
<1>2. \A e \in Executors : current[e] # item[p]
  BY <1>1, SpawnerNotVisited
<1>3. /\ UNCHANGED <<current, state>>
      /\ \/ pc' = [pc EXCEPT ![p] = "write_future"]
         \/ pc' = [pc EXCEPT ![p] = "load_head"]
  BY DEF SetPollFn, StoreExecutor, Goto, taskVars, loopVars
<1>4. \A t \in Tasks :
          t # item[p] => executor'[t] = executor[t] /\ pollFn'[t] = pollFn[t]
  BY <1>1 DEF SetPollFn, StoreExecutor, TypeOK
<1>5. \A e \in Executors :
          current[e] # Nil =>
              /\ executor'[current[e]] = executor[current[e]]
              /\ pollFn'[current[e]] = pollFn[current[e]]
  BY <1>1, <1>2, <1>4 DEF TypeOK
<1>6. \A e \in Executors :
          pc'[e] # pc[e] =>
              /\ e = p
              /\ pc'[e] \in {"write_future", "load_head"}
              /\ pc[e] \in SpawnLabels
  BY <1>1, <1>3 DEF TypeOK
<1>7. QED
  BY <1>1, <1>3, <1>5, <1>6 DEF VisitInv, SpawnLabels

\* A visited task with TaskStorage::poll is spawned.
LEMMA PollFutureVisitInv ==
    ASSUME IInv, OwnedStorage, NEW e \in Executors, PollFuture(e)
    PROVE  VisitInv'
<1>1. /\ TypeOK
      /\ VisitInv
      /\ pc[e] = "on_task"
      /\ current[e] \in Tasks
      /\ pollFn[current[e]] = "poll"
  BY DEF IInv, PollFuture, TypeOK, LocalsOK
<1>2. current[e] \notin Spawning
  <2>1. SUFFICES ASSUME NEW p \in Threads, item[p] = current[e],
                        pc[p] \in SpawnLabels
                 PROVE  FALSE
    BY DEF Spawning
  <2>2. QED
    BY <2>1, SpawnerNotVisited
<1>3. "SPAWNED" \in state[current[e]]
  BY <1>1, <1>2 DEF IInv, TaskInv
<1>4. /\ UNCHANGED <<current, state, executor, pollFn>>
      /\ pc' = [pc EXCEPT ![e] = "polling"]
  BY DEF PollFuture, Goto, loopVars
<1>5. QED
  BY <1>1, <1>3, <1>4 DEF VisitInv, TypeOK

---------------------------------------------------------------------------
(* IInv is inductive: one lemma per action.                                *)

\* IInv is preserved by initialize_impl of a claimed storage.
LEMMA SetPollFnStep ==
    ASSUME IInv, OwnedStorage, NEW p \in Threads, SetPollFn(p)
    PROVE  IInv'
<1>1. /\ Spawning' = Spawning
      /\ Held' = Held
      /\ InHand' = InHand
      /\ Exiting' = Exiting
  BY DEF Spawning, SpawnLabels, SetPollFn, Held, HoldLabels, InHand, Exiting
<1>2. Queued' = Queued
  BY <1>1 DEF Queued, SetPollFn
<1>3. TypeOK'
  BY DEF IInv, TypeOK, LocalsOK, SetPollFn
<1>4. TaskInv'
  BY SetPollFnTaskInv, <1>1
<1>5. HolderInv'
  BY <1>1 DEF IInv, HolderInv, HoldLabels, SpawnLabels, SetPollFn
<1>6. SpawnInv'
  BY DEF IInv, TypeOK, SpawnInv, SpawnLabels, SetPollFn
<1>7. EnqueueInv'
  BY DEF IInv, EnqueueInv, SetPollFn
<1>8. VisitInv'
  BY SpawnVisitInv
<1>9. PointerInv'
  BY <1>2 DEF IInv, PointerInv, SetPollFn
<1>10. QED
  BY <1>3, <1>4, <1>5, <1>6, <1>7, <1>8, <1>9 DEF IInv

\* IInv is preserved by writing the future.
LEMMA WriteFutureStep ==
    ASSUME IInv, OwnedStorage, NEW p \in Threads, WriteFuture(p)
    PROVE  IInv'
<1>1. /\ Spawning' = Spawning
      /\ Held' = Held
      /\ InHand' = InHand
      /\ Exiting' = Exiting
  BY DEF Spawning, SpawnLabels, WriteFuture, Held, HoldLabels, InHand, Exiting
<1>2. Queued' = Queued
  BY <1>1 DEF Queued, WriteFuture
<1>3. TypeOK'
  BY DEF IInv, TypeOK, LocalsOK, WriteFuture
<1>4. TaskInv'
  BY <1>1 DEF IInv, TaskInv, WriteFuture
<1>5. HolderInv'
  BY <1>1 DEF IInv, HolderInv, HoldLabels, SpawnLabels, WriteFuture
<1>6. SpawnInv'
  BY DEF IInv, TypeOK, SpawnInv, SpawnLabels, WriteFuture
<1>7. EnqueueInv'
  BY DEF IInv, EnqueueInv, WriteFuture
<1>8. VisitInv'
  BY DEF IInv, VisitInv, WriteFuture
<1>9. PointerInv'
  BY <1>2 DEF IInv, PointerInv, WriteFuture
<1>10. QED
  BY <1>3, <1>4, <1>5, <1>6, <1>7, <1>8, <1>9 DEF IInv

\* IInv is preserved by SyncExecutor::spawn storing the executor.
LEMMA StoreExecutorStep ==
    ASSUME IInv, OwnedStorage, NEW p \in Threads, StoreExecutor(p)
    PROVE  IInv'
<1>1. /\ Held' = Held
      /\ InHand' = InHand
      /\ Exiting' = Exiting
  BY DEF Held, HoldLabels, SpawnLabels, StoreExecutor, InHand, Exiting
<1>2. Spawning' = Spawning \ {item[p]}
  BY StoreExecutorSpawning
<1>3. Queued' = Queued
  BY <1>1 DEF Queued, StoreExecutor
<1>4. TypeOK'
  BY DEF IInv, TypeOK, LocalsOK, StoreExecutor
<1>5. TaskInv'
  BY <1>2, <1>1 DEF IInv, TypeOK, TaskInv, SpawnInv, SpawnLabels, OwnedStorage,
     StoreExecutor
<1>6. HolderInv'
  BY <1>1 DEF IInv, HolderInv, HoldLabels, SpawnLabels, StoreExecutor
<1>7. SpawnInv'
  BY DEF IInv, SpawnInv, SpawnLabels, StoreExecutor
<1>8. EnqueueInv'
  BY DEF IInv, TypeOK, EnqueueInv, HolderInv, HoldLabels, SpawnLabels,
     StoreExecutor
<1>9. VisitInv'
  BY SpawnVisitInv
<1>10. PointerInv'
  BY LinkPointerInv, <1>3
<1>11. QED
  BY <1>4, <1>5, <1>6, <1>7, <1>8, <1>9, <1>10 DEF IInv

\* IInv is preserved by wake_task loading the executor.
LEMMA LoadExecutorStep ==
    ASSUME IInv, OwnedStorage, NEW p \in Threads, LoadExecutor(p)
    PROVE  IInv'
<1>1. /\ Spawning' = Spawning
      /\ Held' = Held
      /\ InHand' = InHand
      /\ Exiting' = Exiting
  BY DEF Spawning, SpawnLabels, LoadExecutor, Held, HoldLabels, InHand, Exiting
<1>2. Queued' = Queued
  BY <1>1 DEF Queued, LoadExecutor
<1>3. TypeOK'
  BY LoadExecutorTypeOK
<1>4. TaskInv'
  BY <1>1 DEF IInv, TaskInv, LoadExecutor
<1>5. HolderInv'
  BY <1>1 DEF IInv, HolderInv, HoldLabels, LoadExecutor
<1>6. SpawnInv'
  BY DEF IInv, SpawnInv, SpawnLabels, LoadExecutor
<1>7. EnqueueInv'
  BY DEF IInv, TypeOK, EnqueueInv, LoadExecutor
<1>8. VisitInv'
  BY DEF IInv, VisitInv, LoadExecutor
<1>9. PointerInv'
  BY <1>2 DEF IInv, PointerInv, LoadExecutor
<1>10. QED
  BY <1>3, <1>4, <1>5, <1>6, <1>7, <1>8, <1>9 DEF IInv

\* IInv is preserved by the first load of enqueue.
LEMMA LoadHeadStep ==
    ASSUME IInv, OwnedStorage, NEW p \in Threads, LoadHead(p)
    PROVE  IInv'
<1>1. /\ Spawning' = Spawning
      /\ Held' = Held
      /\ InHand' = InHand
      /\ Exiting' = Exiting
  BY DEF Spawning, SpawnLabels, LoadHead, Held, HoldLabels, InHand, Exiting
<1>2. Queued' = Queued
  BY <1>1 DEF Queued, LoadHead
<1>3. TypeOK'
  BY DEF IInv, TypeOK, LocalsOK, LoadHead, Link
<1>4. TaskInv'
  BY <1>1 DEF IInv, TaskInv, LoadHead
<1>5. HolderInv'
  BY <1>1 DEF IInv, HolderInv, HoldLabels, LoadHead
<1>6. SpawnInv'
  BY DEF IInv, SpawnInv, SpawnLabels, LoadHead
<1>7. EnqueueInv'
  BY DEF IInv, TypeOK, LocalsOK, EnqueueInv, HolderInv, HoldLabels, LoadHead,
     Link
<1>8. VisitInv'
  BY DEF IInv, VisitInv, LoadHead
<1>9. PointerInv'
  BY LinkPointerInv, <1>2
<1>10. QED
  BY <1>3, <1>4, <1>5, <1>6, <1>7, <1>8, <1>9 DEF IInv

\* IInv is preserved by a successful compare-exchange.
LEMMA CasOkStep ==
    ASSUME IInv, OwnedStorage, NEW p \in Threads, CasOk(p)
    PROVE  IInv'
<1>1. /\ Spawning' = Spawning
      /\ InHand' = InHand
      /\ Exiting' = Exiting
  BY DEF IInv, Spawning, TypeOK, SpawnLabels, CasOk, Return, InHand, UserCode,
     Exiting
<1>2. Held' = Held \ {item[p]}
  BY CasOkHeld
<1>3. Queued' = Queued \cup {item[p]}
  BY CasOkQueued, <1>2, <1>1
<1>4. TypeOK'
  BY CasOkTypeOK
<1>5. TaskInv'
  BY <1>1 DEF IInv, TaskInv, CasOk
<1>6. HolderInv'
  BY CasOkHolderInv, <1>1
<1>7. SpawnInv'
  BY DEF IInv, TypeOK, SpawnInv, SpawnLabels, CasOk, Return, UserCode
<1>8. EnqueueInv'
  BY CasOkEnqueueInv
<1>9. VisitInv'
  BY DEF IInv, TypeOK, VisitInv, CasOk, Return, UserCode
<1>10. PointerInv'
  BY CasOkPointerInv, <1>3
<1>11. QED
  BY <1>4, <1>5, <1>6, <1>7, <1>8, <1>9, <1>10 DEF IInv

\* IInv is preserved by a failed compare-exchange.
LEMMA CasRetryStep ==
    ASSUME IInv, OwnedStorage, NEW p \in Threads, CasRetry(p)
    PROVE  IInv'
<1>1. /\ Spawning' = Spawning
      /\ Held' = Held
      /\ InHand' = InHand
      /\ Exiting' = Exiting
  BY DEF Spawning, CasRetry, Held, InHand, Exiting
<1>2. Queued' = Queued
  BY <1>1 DEF Queued, CasRetry
<1>3. TypeOK'
  BY DEF IInv, TypeOK, LocalsOK, CasRetry, Link
<1>4. TaskInv'
  BY <1>1 DEF IInv, TaskInv, CasRetry
<1>5. HolderInv'
  BY <1>1 DEF IInv, HolderInv, CasRetry
<1>6. SpawnInv'
  BY DEF IInv, SpawnInv, CasRetry
<1>7. EnqueueInv'
  BY DEF IInv, TypeOK, LocalsOK, EnqueueInv, HolderInv, HoldLabels, CasRetry,
     Link
<1>8. VisitInv'
  BY DEF IInv, VisitInv, CasRetry
<1>9. PointerInv'
  BY LinkPointerInv, <1>2
<1>10. QED
  BY <1>3, <1>4, <1>5, <1>6, <1>7, <1>8, <1>9 DEF IInv

\* IInv is preserved by the pender.
LEMMA PendStep ==
    ASSUME IInv, OwnedStorage, NEW p \in Threads, Pend(p)
    PROVE  IInv'
<1>1. /\ Spawning' = Spawning
      /\ Held' = Held
      /\ InHand' = InHand
      /\ Exiting' = Exiting
  BY DEF Spawning, SpawnLabels, Pend, Return, UserCode, Held, HoldLabels,
     InHand, Exiting
<1>2. Queued' = Queued
  BY <1>1 DEF Queued, Pend
<1>3. TypeOK'
  BY DEF IInv, TypeOK, LocalsOK, Pend, Return, UserCode
<1>4. TaskInv'
  BY <1>1 DEF IInv, TaskInv, Pend
<1>5. HolderInv'
  BY <1>1 DEF IInv, HolderInv, HoldLabels, SpawnLabels, Pend, Return, UserCode
<1>6. SpawnInv'
  BY DEF IInv, SpawnInv, SpawnLabels, Pend, Return, UserCode
<1>7. EnqueueInv'
  BY DEF IInv, EnqueueInv, Pend, Return, UserCode
<1>8. VisitInv'
  BY DEF IInv, VisitInv, Pend, Return, UserCode
<1>9. PointerInv'
  BY <1>2 DEF IInv, PointerInv, Pend
<1>10. QED
  BY <1>3, <1>4, <1>5, <1>6, <1>7, <1>8, <1>9 DEF IInv

\* IInv is preserved by claiming a storage.
LEMMA ClaimStep ==
    ASSUME IInv, OwnedStorage, NEW p \in Threads, NEW t \in Tasks, Claim(p, t)
    PROVE  IInv'
<1>1. /\ InHand' = InHand
      /\ Exiting' = Exiting
  BY DEF InHand, Claim, InUserCode, UserCode, Exiting
<1>2. Spawning' = Spawning \cup {t}
  BY DEF IInv, Spawning, TypeOK, SpawnLabels, Claim, InUserCode, UserCode
<1>3. Held' = Held \cup {t}
  BY DEF IInv, Held, TypeOK, HoldLabels, SpawnLabels, Claim, InUserCode,
     UserCode
<1>4. Queued' = Queued
  BY <1>3, <1>1 DEF Queued, Claim
<1>5. TypeOK'
  BY DEF IInv, TypeOK, LocalsOK, Claim, InUserCode, UserCode
<1>6. TaskInv'
  BY <1>2, <1>1 DEF IInv, TaskInv, Claim
<1>7. HolderInv'
  BY ClaimHolderInv, <1>1
<1>8. SpawnInv'
  BY ClaimSpawnInv
<1>9. EnqueueInv'
  BY DEF IInv, EnqueueInv, Claim, InUserCode, UserCode
<1>10. VisitInv'
  BY DEF IInv, VisitInv, Claim, InUserCode, UserCode
<1>11. PointerInv'
  BY <1>4 DEF IInv, PointerInv, Claim
<1>12. QED
  BY <1>5, <1>6, <1>7, <1>8, <1>9, <1>10, <1>11 DEF IInv

\* IInv is preserved by setting RUN_QUEUED.
LEMMA WakeStep ==
    ASSUME IInv, OwnedStorage, NEW p \in Threads, NEW t \in Tasks, Wake(p, t)
    PROVE  IInv'
<1>1. /\ Spawning' = Spawning
      /\ InHand' = InHand
      /\ Exiting' = Exiting
  BY DEF IInv, Spawning, TypeOK, SpawnLabels, Wake, InUserCode, UserCode,
     InHand, Exiting
<1>2. Held' = (IF "RUN_QUEUED" \in state[t] THEN Held ELSE Held \cup {t})
  BY DEF IInv, Held, TypeOK, HoldLabels, SpawnLabels, Wake, InUserCode, UserCode
<1>3. Queued' = Queued
  BY <1>2, <1>1 DEF Queued, Wake
<1>4. TypeOK'
  BY DEF IInv, TypeOK, LocalsOK, Wake, InUserCode, UserCode
<1>5. TaskInv'
  BY <1>1 DEF IInv, TaskInv, Wake
<1>6. HolderInv'
  BY WakeHolderInv, <1>1
<1>7. SpawnInv'
  BY DEF IInv, TypeOK, SpawnInv, SpawnLabels, Wake
<1>8. EnqueueInv'
  BY WakeEnqueueInv
<1>9. VisitInv'
  BY DEF IInv, TypeOK, VisitInv, Wake, InUserCode, UserCode
<1>10. PointerInv'
  BY <1>3 DEF IInv, PointerInv, Wake
<1>11. QED
  BY <1>4, <1>5, <1>6, <1>7, <1>8, <1>9, <1>10 DEF IInv

\* IInv is preserved by entering the run loop.
LEMMA EnterLoopStep ==
    ASSUME IInv, OwnedStorage, NEW e \in Executors, EnterLoop(e)
    PROVE  IInv'
<1>1. /\ Spawning' = Spawning
      /\ Held' = Held
      /\ InHand' = InHand
      /\ Exiting' = Exiting
  BY DEF Spawning, SpawnLabels, EnterLoop, Held, HoldLabels, InHand, Exiting
<1>2. Queued' = Queued
  BY <1>1 DEF Queued, EnterLoop
<1>3. TypeOK'
  BY DEF IInv, TypeOK, LocalsOK, EnterLoop
<1>4. TaskInv'
  BY <1>1 DEF IInv, TaskInv, EnterLoop
<1>5. HolderInv'
  BY <1>1 DEF IInv, HolderInv, HoldLabels, SpawnLabels, EnterLoop
<1>6. SpawnInv'
  BY DEF IInv, SpawnInv, SpawnLabels, EnterLoop
<1>7. EnqueueInv'
  BY DEF IInv, EnqueueInv, EnterLoop
<1>8. VisitInv'
  BY DEF IInv, VisitInv, EnterLoop
<1>9. PointerInv'
  BY <1>2 DEF IInv, PointerInv, EnterLoop
<1>10. QED
  BY <1>3, <1>4, <1>5, <1>6, <1>7, <1>8, <1>9 DEF IInv

\* IInv is preserved by swapping the queue out.
LEMMA TakeBatchStep ==
    ASSUME IInv, OwnedStorage, NEW e \in Executors, TakeBatch(e)
    PROVE  IInv'
<1>1. /\ Spawning' = Spawning
      /\ Held' = Held
      /\ InHand' = InHand
      /\ Exiting' = Exiting
  BY DEF Spawning, SpawnLabels, TakeBatch, Held, HoldLabels, InHand, Exiting
<1>2. Queued' = Queued
  BY <1>1 DEF Queued, TakeBatch
<1>3. TypeOK'
  BY DEF IInv, TypeOK, LocalsOK, TakeBatch
<1>4. TaskInv'
  BY <1>1 DEF IInv, TaskInv, TakeBatch
<1>5. HolderInv'
  BY <1>1 DEF IInv, HolderInv, HoldLabels, SpawnLabels, TakeBatch
<1>6. SpawnInv'
  BY DEF IInv, SpawnInv, SpawnLabels, TakeBatch
<1>7. EnqueueInv'
  BY DEF IInv, EnqueueInv, TakeBatch
<1>8. VisitInv'
  BY DEF IInv, VisitInv, TakeBatch
<1>9. PointerInv'
  BY <1>2 DEF IInv, TypeOK, PointerInv, TakeBatch
<1>10. QED
  BY <1>3, <1>4, <1>5, <1>6, <1>7, <1>8, <1>9 DEF IInv

\* IInv is preserved by taking the next task off the batch.
LEMMA NextTaskStep ==
    ASSUME IInv, OwnedStorage, NEW e \in Executors, NextTask(e)
    PROVE  IInv'
<1>1. /\ Spawning' = Spawning
      /\ Held' = Held
      /\ Exiting' = Exiting
  BY DEF Spawning, SpawnLabels, NextTask, Held, HoldLabels, Exiting
<1>2. InHand' = InHand \cup {walk[e]}
  BY DEF IInv, InHand, TypeOK, NextTask
<1>3. Queued' = Queued \ {walk[e]}
  BY <1>1, <1>2 DEF Queued, NextTask
<1>4. TypeOK'
  BY DEF IInv, TypeOK, LocalsOK, NextTask
<1>5. TaskInv'
  BY <1>1 DEF IInv, TaskInv, NextTask
<1>6. HolderInv'
  BY NextTaskHolderInv, <1>2
<1>7. SpawnInv'
  BY DEF IInv, SpawnInv, SpawnLabels, NextTask
<1>8. EnqueueInv'
  BY DEF IInv, EnqueueInv, NextTask
<1>9. VisitInv'
  BY DEF IInv, TypeOK, VisitInv, PointerInv, Queued, NextTask
<1>10. PointerInv'
  BY <1>3 DEF IInv, TypeOK, PointerInv, NextTask
<1>11. QED
  BY <1>4, <1>5, <1>6, <1>7, <1>8, <1>9, <1>10 DEF IInv

\* IInv is preserved by the end of the batch.
LEMMA BatchDoneStep ==
    ASSUME IInv, OwnedStorage, NEW e \in Executors, BatchDone(e)
    PROVE  IInv'
<1>1. /\ Spawning' = Spawning
      /\ Held' = Held
      /\ InHand' = InHand
      /\ Exiting' = Exiting
  BY DEF Spawning, SpawnLabels, BatchDone, Held, HoldLabels, InHand, Exiting
<1>2. Queued' = Queued
  BY <1>1 DEF Queued, BatchDone
<1>3. TypeOK'
  BY DEF IInv, TypeOK, LocalsOK, BatchDone
<1>4. TaskInv'
  BY <1>1 DEF IInv, TaskInv, BatchDone
<1>5. HolderInv'
  BY <1>1 DEF IInv, HolderInv, HoldLabels, SpawnLabels, BatchDone
<1>6. SpawnInv'
  BY DEF IInv, SpawnInv, SpawnLabels, BatchDone
<1>7. EnqueueInv'
  BY DEF IInv, EnqueueInv, BatchDone
<1>8. VisitInv'
  BY DEF IInv, VisitInv, BatchDone
<1>9. PointerInv'
  BY <1>2 DEF IInv, PointerInv, BatchDone
<1>10. QED
  BY <1>3, <1>4, <1>5, <1>6, <1>7, <1>8, <1>9 DEF IInv

\* IInv is preserved by clearing RUN_QUEUED.
LEMMA RunDequeueStep ==
    ASSUME IInv, OwnedStorage, NEW e \in Executors, RunDequeue(e)
    PROVE  IInv'
<1>1. /\ Spawning' = Spawning
      /\ Held' = Held
      /\ Exiting' = Exiting
  BY DEF Spawning, SpawnLabels, RunDequeue, Held, HoldLabels, Exiting
<1>2. InHand' = InHand \ {current[e]}
  BY DEF IInv, InHand, TypeOK, VisitInv, RunDequeue
<1>3. Queued' = Queued
  BY RunDequeueQueued, <1>1, <1>2
<1>4. TypeOK'
  BY RunDequeueTypeOK
<1>5. TaskInv'
  BY <1>1 DEF IInv, TaskInv, RunDequeue
<1>6. HolderInv'
  BY RunDequeueHolderInv, <1>2
<1>7. SpawnInv'
  BY DEF IInv, SpawnInv, SpawnLabels, RunDequeue
<1>8. EnqueueInv'
  BY DEF IInv, EnqueueInv, RunDequeue
<1>9. VisitInv'
  BY DEF IInv, TypeOK, VisitInv, RunDequeue
<1>10. PointerInv'
  BY <1>3 DEF IInv, PointerInv, RunDequeue
<1>11. QED
  BY <1>4, <1>5, <1>6, <1>7, <1>8, <1>9, <1>10 DEF IInv

\* IInv is preserved by entering a future.
LEMMA PollFutureStep ==
    ASSUME IInv, OwnedStorage, NEW e \in Executors, PollFuture(e)
    PROVE  IInv'
<1>1. /\ Spawning' = Spawning
      /\ Held' = Held
      /\ InHand' = InHand
      /\ Exiting' = Exiting
  BY DEF Spawning, SpawnLabels, PollFuture, Held, HoldLabels, InHand, Exiting
<1>2. Queued' = Queued
  BY <1>1 DEF Queued, PollFuture
<1>3. TypeOK'
  BY DEF IInv, TypeOK, LocalsOK, PollFuture
<1>4. TaskInv'
  BY <1>1 DEF IInv, TaskInv, VisitInv, PollFuture
<1>5. HolderInv'
  BY <1>1 DEF IInv, HolderInv, HoldLabels, SpawnLabels, PollFuture
<1>6. SpawnInv'
  BY DEF IInv, SpawnInv, SpawnLabels, PollFuture
<1>7. EnqueueInv'
  BY DEF IInv, EnqueueInv, PollFuture
<1>8. VisitInv'
  BY PollFutureVisitInv
<1>9. PointerInv'
  BY <1>2 DEF IInv, PointerInv, PollFuture
<1>10. QED
  BY <1>3, <1>4, <1>5, <1>6, <1>7, <1>8, <1>9 DEF IInv

\* IInv is preserved by visiting an exited task.
LEMMA PollExitedStep ==
    ASSUME IInv, OwnedStorage, NEW e \in Executors, PollExited(e)
    PROVE  IInv'
<1>1. /\ Spawning' = Spawning
      /\ Held' = Held
      /\ InHand' = InHand
      /\ Exiting' = Exiting
  BY DEF Spawning, SpawnLabels, PollExited, Held, HoldLabels, InHand, Exiting
<1>2. Queued' = Queued
  BY <1>1 DEF Queued, PollExited
<1>3. TypeOK'
  BY DEF IInv, TypeOK, LocalsOK, PollExited
<1>4. TaskInv'
  BY <1>1 DEF IInv, TaskInv, PollExited
<1>5. HolderInv'
  BY <1>1 DEF IInv, HolderInv, HoldLabels, SpawnLabels, PollExited
<1>6. SpawnInv'
  BY DEF IInv, SpawnInv, SpawnLabels, PollExited
<1>7. EnqueueInv'
  BY DEF IInv, EnqueueInv, PollExited
<1>8. VisitInv'
  BY DEF IInv, VisitInv, PollExited
<1>9. PointerInv'
  BY <1>2 DEF IInv, PointerInv, PollExited
<1>10. QED
  BY <1>3, <1>4, <1>5, <1>6, <1>7, <1>8, <1>9 DEF IInv

\* IInv is preserved by a future returning Pending.
LEMMA PollPendingStep ==
    ASSUME IInv, OwnedStorage, NEW e \in Executors, PollPending(e)
    PROVE  IInv'
<1>1. /\ Spawning' = Spawning
      /\ Held' = Held
      /\ InHand' = InHand
      /\ Exiting' = Exiting
  BY DEF Spawning, SpawnLabels, PollPending, Held, HoldLabels, InHand, Exiting
<1>2. Queued' = Queued
  BY <1>1 DEF Queued, PollPending
<1>3. TypeOK'
  BY DEF IInv, TypeOK, LocalsOK, PollPending
<1>4. TaskInv'
  BY <1>1 DEF IInv, TaskInv, PollPending
<1>5. HolderInv'
  BY <1>1 DEF IInv, HolderInv, HoldLabels, SpawnLabels, PollPending
<1>6. SpawnInv'
  BY DEF IInv, SpawnInv, SpawnLabels, PollPending
<1>7. EnqueueInv'
  BY DEF IInv, EnqueueInv, PollPending
<1>8. VisitInv'
  BY DEF IInv, VisitInv, PollPending
<1>9. PointerInv'
  BY <1>2 DEF IInv, PointerInv, PollPending
<1>10. QED
  BY <1>3, <1>4, <1>5, <1>6, <1>7, <1>8, <1>9 DEF IInv

\* IInv is preserved by a future returning Ready and being dropped.
LEMMA PollReadyStep ==
    ASSUME IInv, OwnedStorage, NEW e \in Executors, PollReady(e)
    PROVE  IInv'
<1>1. /\ Spawning' = Spawning
      /\ Held' = Held
      /\ InHand' = InHand
  BY DEF Spawning, SpawnLabels, PollReady, Held, HoldLabels, InHand
<1>2. Exiting' = Exiting \cup {current[e]}
  BY DEF IInv, Exiting, TypeOK, LocalsOK, PollReady
<1>3. Queued' = Queued
  BY <1>1 DEF Queued, PollReady
<1>4. TypeOK'
  BY DEF IInv, TypeOK, LocalsOK, PollReady
<1>5. TaskInv'
  BY <1>1, <1>2 DEF IInv, TaskInv, PollReady
<1>6. HolderInv'
  BY <1>1 DEF IInv, HolderInv, HoldLabels, SpawnLabels, PollReady
<1>7. SpawnInv'
  BY ExitSpawnInv DEF PollReady, opVars
<1>8. EnqueueInv'
  BY DEF IInv, EnqueueInv, PollReady
<1>9. VisitInv'
  BY DEF IInv, VisitInv, PollReady
<1>10. PointerInv'
  BY <1>3 DEF IInv, PointerInv, PollReady
<1>11. QED
  BY <1>4, <1>5, <1>6, <1>7, <1>8, <1>9, <1>10 DEF IInv

\* IInv is preserved by replacing poll_fn.
LEMMA SetExitedStep ==
    ASSUME IInv, OwnedStorage, NEW e \in Executors, SetExited(e)
    PROVE  IInv'
<1>1. /\ Spawning' = Spawning
      /\ Held' = Held
      /\ InHand' = InHand
      /\ Exiting' = Exiting
  BY DEF Spawning, SpawnLabels, SetExited, Held, HoldLabels, InHand, Exiting
<1>2. Queued' = Queued
  BY <1>1 DEF Queued, SetExited
<1>3. TypeOK'
  BY DEF IInv, TypeOK, LocalsOK, SetExited
<1>4. TaskInv'
  BY SetExitedTaskInv, <1>1
<1>5. HolderInv'
  BY <1>1 DEF IInv, HolderInv, HoldLabels, SpawnLabels, SetExited
<1>6. SpawnInv'
  BY ExitSpawnInv DEF SetExited, opVars
<1>7. EnqueueInv'
  BY DEF IInv, EnqueueInv, SetExited
<1>8. VisitInv'
  BY DEF IInv, TypeOK, VisitInv, SetExited
<1>9. PointerInv'
  BY <1>2 DEF IInv, PointerInv, SetExited
<1>10. QED
  BY <1>3, <1>4, <1>5, <1>6, <1>7, <1>8, <1>9 DEF IInv

\* IInv is preserved by clearing SPAWNED.
LEMMA DespawnStep ==
    ASSUME IInv, OwnedStorage, NEW e \in Executors, Despawn(e)
    PROVE  IInv'
<1>1. /\ Spawning' = Spawning
      /\ Held' = Held
      /\ InHand' = InHand
  BY DEF Spawning, SpawnLabels, Despawn, Held, HoldLabels, InHand
<1>2. Exiting' = Exiting \ {current[e]}
  BY DEF IInv, Exiting, TypeOK, VisitInv, Despawn
<1>3. Queued' = Queued
  BY <1>1 DEF Queued, Despawn
<1>4. TypeOK'
  BY DEF IInv, TypeOK, LocalsOK, Despawn
<1>5. TaskInv'
  BY <1>1, <1>2 DEF IInv, TypeOK, TaskInv, VisitInv, Despawn
<1>6. HolderInv'
  BY <1>1 DEF IInv, HolderInv, HoldLabels, SpawnLabels, Despawn
<1>7. SpawnInv'
  BY ExitSpawnInv DEF Despawn, opVars
<1>8. EnqueueInv'
  BY DEF IInv, EnqueueInv, Despawn
<1>9. VisitInv'
  BY DEF IInv, TypeOK, VisitInv, Despawn
<1>10. PointerInv'
  BY <1>3 DEF IInv, PointerInv, Despawn
<1>11. QED
  BY <1>4, <1>5, <1>6, <1>7, <1>8, <1>9, <1>10 DEF IInv

\* IInv is preserved by consuming the event.
LEMMA WaitForEventStep ==
    ASSUME IInv, OwnedStorage, NEW e \in Executors, WaitForEvent(e)
    PROVE  IInv'
<1>1. /\ Spawning' = Spawning
      /\ Held' = Held
      /\ InHand' = InHand
      /\ Exiting' = Exiting
  BY DEF Spawning, SpawnLabels, WaitForEvent, Held, HoldLabels, InHand, Exiting
<1>2. Queued' = Queued
  BY <1>1 DEF Queued, WaitForEvent
<1>3. TypeOK'
  BY DEF IInv, TypeOK, LocalsOK, WaitForEvent
<1>4. TaskInv'
  BY <1>1 DEF IInv, TaskInv, WaitForEvent
<1>5. HolderInv'
  BY <1>1 DEF IInv, HolderInv, HoldLabels, SpawnLabels, WaitForEvent
<1>6. SpawnInv'
  BY DEF IInv, SpawnInv, SpawnLabels, WaitForEvent
<1>7. EnqueueInv'
  BY DEF IInv, EnqueueInv, WaitForEvent
<1>8. VisitInv'
  BY DEF IInv, VisitInv, WaitForEvent
<1>9. PointerInv'
  BY <1>2 DEF IInv, PointerInv, WaitForEvent
<1>10. QED
  BY <1>3, <1>4, <1>5, <1>6, <1>7, <1>8, <1>9 DEF IInv

\* IInv is preserved by waking without an event.
LEMMA SpuriousEventStep ==
    ASSUME IInv, OwnedStorage, NEW e \in Executors, SpuriousEvent(e)
    PROVE  IInv'
<1>1. /\ Spawning' = Spawning
      /\ Held' = Held
      /\ InHand' = InHand
      /\ Exiting' = Exiting
  BY DEF Spawning, SpawnLabels, SpuriousEvent, Held, HoldLabels, InHand, Exiting
<1>2. Queued' = Queued
  BY <1>1 DEF Queued, SpuriousEvent
<1>3. TypeOK'
  BY DEF IInv, TypeOK, LocalsOK, SpuriousEvent
<1>4. TaskInv'
  BY <1>1 DEF IInv, TaskInv, SpuriousEvent
<1>5. HolderInv'
  BY <1>1 DEF IInv, HolderInv, HoldLabels, SpawnLabels, SpuriousEvent
<1>6. SpawnInv'
  BY DEF IInv, SpawnInv, SpawnLabels, SpuriousEvent
<1>7. EnqueueInv'
  BY DEF IInv, EnqueueInv, SpuriousEvent
<1>8. VisitInv'
  BY DEF IInv, VisitInv, SpuriousEvent
<1>9. PointerInv'
  BY <1>2 DEF IInv, PointerInv, SpuriousEvent
<1>10. QED
  BY <1>3, <1>4, <1>5, <1>6, <1>7, <1>8, <1>9 DEF IInv

\* IInv is preserved by every step.
LEMMA IInvStep ==
    ASSUME IInv, OwnedStorage, [Next]_vars
    PROVE  IInv'
<1>1. ASSUME NEW p \in Threads, OpStep(p) PROVE IInv'
  BY <1>1, SetPollFnStep, WriteFutureStep, StoreExecutorStep, LoadExecutorStep,
     LoadHeadStep, CasOkStep, CasRetryStep, PendStep DEF OpStep
<1>2. ASSUME NEW p \in Threads, NEW t \in Tasks, Claim(p, t) \/ Wake(p, t)
      PROVE  IInv'
  BY <1>2, ClaimStep, WakeStep
<1>3. ASSUME NEW e \in Executors, LoopStep(e) PROVE IInv'
  BY <1>3, TakeBatchStep, NextTaskStep, BatchDoneStep, RunDequeueStep,
     PollFutureStep, PollExitedStep, SetExitedStep, DespawnStep,
     WaitForEventStep DEF LoopStep
<1>4. ASSUME NEW e \in Executors, UserReturns(e) \/ SpuriousEvent(e) PROVE IInv'
  BY <1>4, EnterLoopStep, PollPendingStep, PollReadyStep, SpuriousEventStep
     DEF UserReturns
<1>5. CASE UNCHANGED vars
  BY <1>5 DEF vars, IInv, TypeOK, LocalsOK, TaskInv, HolderInv, SpawnInv,
     EnqueueInv, VisitInv, PointerInv, Queued, Held, InHand, Spawning, Exiting
<1>6. QED
  BY <1>1, <1>2, <1>3, <1>4, <1>5 DEF Next

\* The initial state: nothing is claimed, queued or visited.
LEMMA InitLemma == Init => IInv /\ PendInv /\ Life!LifeInit
<1> SUFFICES ASSUME Init PROVE IInv /\ PendInv /\ Life!LifeInit
  OBVIOUS
<1>1. TypeOK
  BY DEF Init, TypeOK, LocalsOK
<1>2. Queued = {}
  BY DEF Init, Queued
<1>3. TaskInv /\ HolderInv /\ SpawnInv /\ EnqueueInv /\ VisitInv
  BY DEF Init, TaskInv, HolderInv, SpawnInv, EnqueueInv, VisitInv, HoldLabels,
     SpawnLabels
<1>4. PointerInv
  BY <1>2 DEF Init, PointerInv
<1>5. PendInv /\ Life!LifeInit
  BY DEF Init, PendInv, Life!LifeInit, Alive, Notified, Running
<1>6. QED
  BY <1>1, <1>3, <1>4, <1>5 DEF IInv

\* The inductive invariant is an invariant.
THEOREM Inductive == OwnedStorage => (Safety => []IInv)
<1>1. ASSUME OwnedStorage PROVE Safety => []IInv
  <2>1. Init => IInv
    BY InitLemma
  <2>2. IInv /\ [Next]_vars => IInv'
    BY <1>1, IInvStep
  <2>3. QED
    BY <2>1, <2>2, PTL DEF Safety
<1>2. QED
  BY <1>1

\* Types, and with them that wake_task never unwraps a null executor pointer
\* and poll never calls a poll_fn that is not there.
THEOREM TypeCorrect == OwnedStorage => (Safety => []TypeOK)
<1>1. IInv => TypeOK
  BY DEF IInv
<1>2. QED
  BY <1>1, Inductive, PTL

\* No executor polls a future that is not there, that belongs to a task of
\* another executor or that another executor is polling.
THEOREM PollsOwnLiveTaskAlways == OwnedStorage => (Safety => []PollsOwnLiveTask)
<1>1. ASSUME OwnedStorage PROVE Safety => []PollsOwnLiveTask
  <2>1. ASSUME IInv, NEW e \in Executors, NEW t \in Tasks, Polls(e, t)
        PROVE  /\ future[t] = "live"
               /\ "SPAWNED" \in state[t]
               /\ executor[t] = e
               /\ \A f \in Executors \ {e} : ~Polls(f, t)
    <3>1. current[e] = t /\ pc[e] \in OpLabels \cup {"polling"}
      BY <2>1 DEF Polls
    <3>2. "SPAWNED" \in state[t] /\ executor[t] = e
      BY <2>1, <3>1 DEF IInv, VisitInv
    <3>3. \A f \in Executors : current[f] = t => f = e
      BY <2>1, <3>1, OneVisitor
    <3>4. t \notin Exiting
      BY <3>1, <3>3 DEF Exiting
    <3>5. t \notin Spawning
      BY <1>1, <2>1, <3>1, SpawnerNotVisited DEF Spawning
    <3>6. future[t] = "live"
      BY <2>1, <3>2, <3>4, <3>5 DEF IInv, TaskInv
    <3>7. QED
      BY <3>2, <3>3, <3>6 DEF Polls
  <2>2. IInv => PollsOwnLiveTask
    BY <2>1 DEF PollsOwnLiveTask
  <2>3. Safety => []IInv
    BY <1>1, Inductive
  <2>4. QED
    BY <2>2, <2>3, PTL
<1>2. QED
  BY <1>1

---------------------------------------------------------------------------
(* No lost wakeup.                                                         *)

\* Steps of threads that are neither swapping nor pending.
LEMMA PendFrame ==
    ASSUME TypeOK, PendInv, UNCHANGED head, \A e \in Executors : event[e] =>
           event'[e],
           NEW p \in Threads, pc[p] \notin {"swap", "pend"},
           \A q \in Threads \ {p} : pc'[q] = pc[q] /\ target'[q] = target[q]
    PROVE  PendInv'
BY DEF PendInv

\* Whoever makes the queue non-empty goes on to call the pender.
LEMMA PendCasOk ==
    ASSUME TypeOK, PendInv, NoPendContexts = {}, NEW p \in Threads, CasOk(p)
    PROVE  PendInv'
<1>1. /\ target[p] \in Executors
      /\ \A q \in Threads \ {p} : pc'[q] = pc[q] /\ target'[q] = target[q]
      /\ prev[p] = Nil => pc'[p] = "pend" /\ target'[p] = target[p]
      /\ pc[p] = "cas"
      /\ event' = event
  BY DEF TypeOK, LocalsOK, CasOk, Return, Goto, opVars
<1>2. \A e \in Executors : e # target[p] => head'[e] = head[e]
  BY DEF CasOk, TypeOK
<1>3. head[target[p]] = prev[p]
  BY DEF CasOk
<1>4. SUFFICES ASSUME NEW e \in Executors, head'[e] # Nil
      PROVE  \/ pc'[e] = "swap"
             \/ event'[e]
             \/ \E q \in Threads : pc'[q] = "pend" /\ target'[q] = e
  BY DEF PendInv
<1>5. CASE head[e] # Nil
  BY <1>1, <1>5 DEF PendInv
<1>6. CASE head[e] = Nil
  BY <1>1, <1>2, <1>3, <1>4, <1>6
<1>7. QED
  BY <1>5, <1>6

\* The pender sets the event.
LEMMA PendPend ==
    ASSUME TypeOK, PendInv, NEW p \in Threads, Pend(p)
    PROVE  PendInv'
<1>1. /\ target[p] \in Executors
      /\ \A q \in Threads \ {p} : pc'[q] = pc[q] /\ target'[q] = target[q]
      /\ pc[p] = "pend"
      /\ head' = head
      /\ event' = [event EXCEPT ![target[p]] = TRUE]
  BY DEF TypeOK, LocalsOK, Pend, Return, Goto
<1>2. event'[target[p]] /\ \A e \in Executors : event[e] => event'[e]
  BY <1>1 DEF TypeOK
<1>3. QED
  BY <1>1, <1>2 DEF PendInv

\* PendInv is preserved by every step if every context pends.
LEMMA PendInvStep ==
    ASSUME TypeOK, PendInv, NoPendContexts = {}, [Next]_vars
    PROVE  PendInv'
<1>1. ASSUME NEW p \in Threads, NEW t \in Tasks, Claim(p, t) \/ Wake(p, t)
      PROVE  PendInv'
  <2>1. /\ UNCHANGED <<head, event>> 
        /\ pc[p] \notin {"swap", "pend"}
        /\ \A q \in Threads \ {p} : pc'[q] = pc[q] /\ target'[q] = target[q]
    BY <1>1 DEF Claim, Wake, Goto, InUserCode, UserCode, queueVars, TypeOK
  <2>2. QED
    BY <2>1, PendFrame
<1>2. ASSUME NEW p \in Threads, OpStep(p)
      PROVE  PendInv'
  <2>1. CASE CasOk(p)
    BY <2>1, PendCasOk
  <2>2. CASE Pend(p)
    BY <2>2, PendPend
  <2>3. CASE ~CasOk(p) /\ ~Pend(p)
    <3>1. /\ UNCHANGED <<head, event>>
          /\ pc[p] \notin {"swap", "pend"}
          /\ \A q \in Threads \ {p} : pc'[q] = pc[q] /\ target'[q] = target[q]
      BY <1>2, <2>3 DEF OpStep, SetPollFn, WriteFuture, StoreExecutor,
         LoadExecutor, LoadHead, CasRetry, Goto, Link, opVars, queueVars,
         TypeOK
    <3>2. QED
      BY <3>1, PendFrame
  <2>4. QED
    BY <2>1, <2>2, <2>3
<1>3. ASSUME NEW e \in Executors,
             LoopStep(e) \/ UserReturns(e) \/ SpuriousEvent(e)
      PROVE  PendInv'
  <2>1. CASE TakeBatch(e)
    BY <2>1 DEF TakeBatch, PendInv, TypeOK, Goto, opVars
  <2>2. CASE WaitForEvent(e) 
    BY <2>2 DEF WaitForEvent, PendInv, TypeOK, Goto, opVars
  <2>3. CASE ~TakeBatch(e) /\ ~WaitForEvent(e)
    <3>1. /\ UNCHANGED <<head, event>>
          /\ pc[e] \notin {"swap", "pend"}
          /\ \A q \in Threads \ {e} : pc'[q] = pc[q] /\ target'[q] = target[q]
      BY <1>3, <2>3 DEF LoopStep, UserReturns, SpuriousEvent, EnterLoop,
         NextTask, BatchDone, RunDequeue, PollFuture, PollExited,
         PollPending, PollReady, SetExited, Despawn, Goto, opVars,
         queueVars, TypeOK
    <3>2. QED
      BY <3>1, PendFrame
  <2>4. QED
    BY <2>1, <2>2, <2>3
<1>4. CASE UNCHANGED vars
  BY <1>4 DEF vars, queueVars, opVars, PendInv
<1>5. QED
  BY <1>1, <1>2, <1>3, <1>4 DEF Next

\* If every context pends, no executor sleeps on a non-empty queue whose event
\* is neither set nor being set.
THEOREM NoLostPendAlways ==
    OwnedStorage /\ NoPendContexts = {} => (Safety => []NoLostPend)
<1>1. ASSUME OwnedStorage, NoPendContexts = {} PROVE Safety => []NoLostPend
  <2>1. Init => PendInv
    BY InitLemma
  <2>2. TypeOK /\ PendInv /\ [Next]_vars => PendInv'
    BY <1>1, PendInvStep
  <2>3. PendInv => NoLostPend
    BY DEF PendInv, NoLostPend
  <2>4. Safety => []TypeOK
    BY <1>1, TypeCorrect
  <2>5. QED
    BY <2>1, <2>2, <2>3, <2>4, PTL DEF Safety
<1>2. QED
  BY <1>1

---------------------------------------------------------------------------
(* The life cycle.                                                         *)

\* Transition 1: Claim is Spawn.
LEMMA LifeClaim ==
    ASSUME IInv, NEW p \in Threads, NEW t \in Tasks, Claim(p, t)
    PROVE  Life!Spawn(t)
<1>1. TypeOK /\ state[t] = {}
  BY DEF Claim, IInv
<1>2. t \notin Spawning
  BY <1>1 DEF IInv, HolderInv, Spawning, HoldLabels
<1>3. pollFn[t] # "poll"
  BY <1>1, <1>2 DEF IInv, TaskInv
<1>4. t \notin Alive \cup Notified
  BY <1>1 DEF Alive, Notified
<1>5. t \notin Running
  BY <1>1, <1>3 DEF Running, IInv, VisitInv
<1>6. /\ state' = [state EXCEPT ![t] = Bits]
      /\ pc' = [pc EXCEPT ![p] = "set_poll_fn"]
      /\ UNCHANGED <<current, pollFn>>
  BY DEF Claim, Goto, loopVars
<1>7. Alive' = Alive \cup {t} /\ Notified' = Notified \cup {t}
  BY <1>1, <1>6 DEF Alive, Notified, TypeOK
<1>8. Running' = Running
  <2>1. /\ pc[p] \in {"idle", "init", "polling"}
        /\ p \in Executors => pc[p] = "polling" \/ current[p] = Nil
    BY DEF Claim, InUserCode, UserCode
  <2>2. QED
    BY <1>1, <1>6, <2>1 DEF Running, TypeOK
<1>9. QED
  BY <1>4, <1>5, <1>7, <1>8 DEF Life!Spawn

\* Transitions 3 and 6: Wake is Notify.
LEMMA LifeWake ==
    ASSUME IInv, NEW p \in Threads, NEW t \in Tasks, Wake(p, t)
    PROVE  Life!Notify(t)
<1>1. /\ TypeOK
      /\ state' = [state EXCEPT ![t] = @ \cup {"RUN_QUEUED"}]
      /\ UNCHANGED <<current, pollFn>>
  BY DEF Wake, IInv, loopVars
<1>2. Alive' = Alive /\ Notified' = Notified \cup {t}
  BY <1>1 DEF Alive, Notified, TypeOK
<1>3. Running' = Running
  <2>1. /\ pc[p] \in {"idle", "init", "polling"}
        /\ p \in Executors => pc[p] = "polling" \/ current[p] = Nil
    BY DEF Wake, InUserCode, UserCode
  <2>2. pc' = pc \/ pc' = [pc EXCEPT ![p] = "load_executor"]
    BY DEF Wake, Goto
  <2>3. QED
    BY <1>1, <2>1, <2>2 DEF Running, TypeOK
<1>4. QED
  BY <1>2, <1>3 DEF Life!Notify

\* Transitions 2 and 5: the visit begins at run_dequeue.
LEMMA LifeRunDequeue ==
    ASSUME IInv, NEW e \in Executors, RunDequeue(e)
    PROVE  Life!Begin(current[e]) \/ Life!Discard(current[e])
<1> DEFINE t == current[e]
<1>1. TypeOK /\ t \in Tasks /\ pc[e] = "run_dequeue"
  BY DEF RunDequeue, IInv, TypeOK, LocalsOK
<1>2. "RUN_QUEUED" \in state[t] /\ executor[t] = e
  BY <1>1 DEF IInv, VisitInv
<1>3. \A f \in Executors : current[f] = t => f = e
  BY <1>1, OneVisitor
<1>4. t \notin Running /\ t \notin Exiting
  BY <1>1, <1>3 DEF Running, Exiting
<1>5. t \notin Spawning
  BY <1>1 DEF Spawning, InHand, IInv, HolderInv, HoldLabels
<1>6. pollFn[t] = "poll" <=> "SPAWNED" \in state[t]
  BY <1>1, <1>4, <1>5 DEF IInv, TaskInv
<1>7. /\ state' = [state EXCEPT ![t] = @ \ {"RUN_QUEUED"}]
      /\ pc' = [pc EXCEPT ![e] = "on_task"]
      /\ UNCHANGED <<current, pollFn>>
  BY DEF RunDequeue, Goto, loopVars
<1>8. Alive' = Alive /\ Notified' = Notified \ {t}
  BY <1>1, <1>7 DEF Alive, Notified, TypeOK
<1>9. CASE "SPAWNED" \in state[t]
  <2>1. Running' = Running \cup {t}
    BY <1>1, <1>3, <1>6, <1>7, <1>9 DEF Running, TypeOK
  <2>2. QED
    BY <1>1, <1>2, <1>4, <1>8, <1>9, <2>1 DEF Life!Begin, Alive, Notified
<1>10. CASE "SPAWNED" \notin state[t]
  <2>1. Running' = Running
    BY <1>1, <1>3, <1>4, <1>6, <1>7, <1>10 DEF Running, TypeOK
  <2>2. QED
    BY <1>1, <1>2, <1>4, <1>8, <1>10, <2>1 DEF Life!Discard, Alive, Notified
<1>11. QED
  BY <1>9, <1>10

\* A future that returns Pending yields.
LEMMA LifePollPending ==
    ASSUME IInv, NEW e \in Executors, PollPending(e)
    PROVE  Life!Yield(current[e])
<1> DEFINE t == current[e]
<1>1. /\ TypeOK /\ t \in Tasks /\ pc[e] = "polling"
      /\ \A f \in Executors : current[f] = t => f = e
  BY OneVisitor DEF PollPending, IInv, TypeOK, LocalsOK
<1>2. Alive' = Alive /\ Notified' = Notified
  BY DEF PollPending, taskVars, Alive, Notified
<1>3. Running' = Running \ {t}
  BY <1>1 DEF PollPending, taskVars, Goto, Running, TypeOK
<1>4. t \in Running
  BY <1>1 DEF Running
<1>5. QED
  BY <1>2, <1>3, <1>4 DEF Life!Yield

\* Transition 4: a future that returned Ready finishes at despawn.
LEMMA LifeDespawn ==
    ASSUME IInv, NEW e \in Executors, Despawn(e)
    PROVE  Life!Finish(current[e])
<1> DEFINE t == current[e]
<1>1. /\ TypeOK /\ t \in Tasks /\ pc[e] = "despawn"
      /\ \A f \in Executors : current[f] = t => f = e
  BY OneVisitor DEF Despawn, IInv, TypeOK, LocalsOK
<1>2. Alive' = Alive \ {t} /\ Notified' = Notified
  BY <1>1 DEF Despawn, Alive, Notified, TypeOK
<1>3. Running' = Running \ {t}
  BY <1>1 DEF Despawn, Goto, Running, TypeOK
<1>4. t \in Running
  BY <1>1 DEF Running
<1>5. QED
  BY <1>2, <1>3, <1>4 DEF Life!Finish

\* The steps of a wake or a spawn are invisible.
LEMMA LifeStutterOp ==
    ASSUME IInv, OwnedStorage, NEW p \in Threads, OpStep(p)
    PROVE  UNCHANGED Life!lifeVars
<1>1. TypeOK /\ state' = state /\ current' = current
  BY DEF OpStep, SetPollFn, WriteFuture, StoreExecutor, LoadExecutor, LoadHead,
     CasOk, CasRetry, Pend, taskVars, loopVars, IInv
<1>2. /\ \A q \in Threads \ {p} : pc'[q] = pc[q]
      /\ pc[p] \in OpLabels
      /\ p \in Executors /\ current[p] # Nil =>
             pc'[p] \in OpLabels \cup {"polling"}
  BY <1>1 DEF OpStep, SetPollFn, WriteFuture, StoreExecutor, LoadExecutor,
     LoadHead, CasOk, CasRetry, Pend, Return, Goto, UserCode, TypeOK
<1>3. \A e \in Executors :
          pc[e] = "on_task" => pollFn'[current[e]] = pollFn[current[e]]
  <2>1. CASE SetPollFn(p)
    <3>1. \A e \in Executors : current[e] # item[p]
      BY <2>1, SpawnerNotVisited DEF SetPollFn, SpawnLabels
    <3>2. QED
      BY <2>1, <3>1, <1>1 DEF SetPollFn, TypeOK, LocalsOK
  <2>2. CASE ~SetPollFn(p)
    BY <2>2 DEF OpStep, WriteFuture, StoreExecutor, LoadExecutor, LoadHead,
       CasOk, CasRetry, Pend, taskVars
  <2>3. QED
    BY <2>1, <2>2
<1>4. Alive' = Alive /\ Notified' = Notified
  BY <1>1 DEF Alive, Notified
<1>5. Running' = Running
  BY <1>1, <1>2, <1>3 DEF Running, TypeOK
<1>6. QED
  BY <1>4, <1>5 DEF Life!lifeVars

\* So are the other steps of the run loop.
LEMMA LifeStutterLoop ==
    ASSUME IInv, NEW e \in Executors,
           LoopStep(e) \/ UserReturns(e) \/ SpuriousEvent(e),
           ~RunDequeue(e), ~PollPending(e), ~Despawn(e)
    PROVE  UNCHANGED Life!lifeVars
<1>1. TypeOK /\ state' = state
  BY DEF LoopStep, UserReturns, SpuriousEvent, EnterLoop, TakeBatch, NextTask,
     BatchDone, PollFuture, PollExited, PollReady, SetExited, WaitForEvent,
     taskVars, IInv
<1>2. Running' = Running
  <2>1. CASE PollFuture(e) \/ PollReady(e) \/ SetExited(e)
    BY <1>1, <2>1, OneVisitor DEF PollFuture, PollReady, SetExited, Goto,
       loopVars, Running, TypeOK, LocalsOK
  <2>2. CASE PollExited(e)
    BY <1>1, <2>2, OneVisitor DEF PollExited, Goto, taskVars, Running, TypeOK,
       LocalsOK
  <2>3. CASE NextTask(e)
    BY <1>1, <2>3 DEF NextTask, Goto, taskVars, Running, TypeOK, LocalsOK
  <2>4. CASE \/ EnterLoop(e) \/ TakeBatch(e) \/ BatchDone(e)
             \/ WaitForEvent(e) \/ SpuriousEvent(e)
    BY <1>1, <2>4 DEF EnterLoop, TakeBatch, BatchDone, WaitForEvent,
       SpuriousEvent, Goto, taskVars, loopVars, Running, TypeOK, LocalsOK
  <2>5. QED
    BY <2>1, <2>2, <2>3, <2>4 DEF LoopStep, UserReturns
<1>3. QED
  BY <1>1, <1>2 DEF Life!lifeVars, Alive, Notified

\* Every step of the executor is a step of the life cycle or none.
LEMMA LifeStep ==
    ASSUME IInv, OwnedStorage, [Next]_vars
    PROVE  [Life!LifeNext]_Life!lifeVars
<1>1. ASSUME NEW p \in Threads, OpStep(p) PROVE UNCHANGED Life!lifeVars
  BY <1>1, LifeStutterOp
<1>2. ASSUME NEW p \in Threads, NEW t \in Tasks, Claim(p, t) \/ Wake(p, t)
      PROVE  Life!LifeNext
  BY <1>2, LifeClaim, LifeWake DEF Life!LifeNext
<1>3. ASSUME NEW e \in Executors,
             LoopStep(e) \/ UserReturns(e) \/ SpuriousEvent(e)
      PROVE  [Life!LifeNext]_Life!lifeVars
  <2>1. CASE RunDequeue(e) \/ PollPending(e) \/ Despawn(e)
    <3>1. current[e] \in Tasks
      BY <2>1 DEF RunDequeue, PollPending, Despawn, IInv, TypeOK, LocalsOK
    <3>2. QED
      BY <2>1, <3>1, LifeRunDequeue, LifePollPending, LifeDespawn DEF
         Life!LifeNext
  <2>2. CASE ~(RunDequeue(e) \/ PollPending(e) \/ Despawn(e))
    BY <1>3, <2>2, LifeStutterLoop
  <2>3. QED
    BY <2>1, <2>2
<1>4. CASE UNCHANGED vars
  BY <1>4 DEF vars, taskVars, loopVars, Life!lifeVars, Alive, Notified, Running
<1>5. QED
  BY <1>1, <1>2, <1>3, <1>4 DEF Next

\* The executor implements the life cycle of TaskLifecycle.
THEOREM LifeCycleHolds == OwnedStorage => (Safety => LifeCycle)
<1>1. ASSUME OwnedStorage PROVE Safety => LifeCycle
  <2>1. Init => Life!LifeInit
    BY InitLemma
  <2>2. IInv /\ [Next]_vars => [Life!LifeNext]_Life!lifeVars
    BY <1>1, LifeStep
  <2>3. Safety => []IInv
    BY <1>1, Inductive
  <2>4. QED
    BY <2>1, <2>2, <2>3, PTL DEF Safety, LifeCycle, Life!LifeSafety
<1>2. QED
  BY <1>1


---------------------------------------------------------------------------
(* Lists.                                                                  *)

\* A list contains its first task and what each of its tasks leads to,
LEMMA ChainLinked ==
    ASSUME TypeOK, NEW h \in Tasks \cup {Nil}
    PROVE  h \in Chain(h) \cup {Nil} /\ Linked(Chain(h))
<1>1. h \in Chain(h) \cup {Nil}
  BY DEF Chain
<1>2. ASSUME NEW t \in Chain(h), next[t] # Nil
      PROVE  next[t] \in Chain(h)
  <2>1. t \in Tasks /\ next[t] \in Tasks
    BY <1>2 DEF Chain, TypeOK
  <2>2. ASSUME NEW S \in SUBSET Tasks, h \in S \cup {Nil}, Linked(S)
        PROVE  next[t] \in S
    <3>1. t \in S
      BY <2>2 DEF Chain
    <3>2. QED
      BY <3>1, <2>2, <1>2 DEF Linked
  <2>3. QED
    BY <2>1, <2>2 DEF Chain
<1>3. QED
  BY <1>1, <1>2 DEF Linked

\* and it is contained in every set that does.
LEMMA ChainLeast ==
    ASSUME NEW h, NEW S \in SUBSET Tasks, h \in S \cup {Nil}, Linked(S)
    PROVE  Chain(h) \subseteq S
BY DEF Chain

\* Lists consist of queued tasks,
LEMMA QueuedLinked ==
    ASSUME IInv
    PROVE  Queued \in SUBSET Tasks /\ Linked(Queued)
BY DEF IInv, PointerInv, Linked, Queued

LEMMA ListsQueued ==
    ASSUME IInv, NEW e \in Executors
    PROVE  Queue(e) \subseteq Queued /\ Batch(e) \subseteq Queued
<1>1. head[e] \in Queued \cup {Nil} /\ walk[e] \in Queued \cup {Nil}
  BY DEF IInv, PointerInv
<1>2. QED
  BY <1>1, QueuedLinked, ChainLeast DEF Queue, Batch

\* and those of an executor of its own tasks.
LEMMA ListsOwn ==
    ASSUME IInv, NEW e \in Executors
    PROVE  \A t \in Queue(e) \cup Batch(e) : executor[t] = e
<1> DEFINE Own == {t \in Queued : executor[t] = e}
<1>1. Own \in SUBSET Tasks /\ Linked(Own)
  BY DEF IInv, PointerInv, Linked, Queued
<1>2. head[e] \in Own \cup {Nil} /\ walk[e] \in Own \cup {Nil}
  BY DEF IInv, PointerInv
<1>3. Queue(e) \subseteq Own /\ Batch(e) \subseteq Own
  BY <1>1, <1>2, ChainLeast DEF Queue, Batch
<1>4. QED
  BY <1>3

\* A step changes the next pointer of no queued task.
LEMMA NextOfQueued ==
    ASSUME IInv, [Next]_vars
    PROVE  \A t \in Queued : next'[t] = next[t]
<1>1. TypeOK /\ Queued \subseteq Tasks
  BY QueuedLinked DEF IInv
<1>2. ASSUME NEW p \in Threads, LoadHead(p) \/ CasRetry(p)
      PROVE  \A t \in Queued : next'[t] = next[t]
  <2>1. item[p] \notin Queued
    BY <1>2, HeldNotQueued DEF LoadHead, CasRetry, HoldLabels
  <2>2. QED
    BY <1>1, <1>2, <2>1 DEF LoadHead, CasRetry, Link, TypeOK
<1>3. ASSUME NEW p \in Threads, OpStep(p), ~LoadHead(p), ~CasRetry(p)
      PROVE  next' = next
  BY <1>3 DEF OpStep, SetPollFn, WriteFuture, StoreExecutor, LoadExecutor,
     CasOk, Pend, queueVars
<1>4. ASSUME NEW p \in Threads, NEW t \in Tasks, Claim(p, t) \/ Wake(p, t)
      PROVE  next' = next
  BY <1>4 DEF Claim, Wake, queueVars
<1>5. ASSUME NEW e \in Executors,
             LoopStep(e) \/ UserReturns(e) \/ SpuriousEvent(e)
      PROVE  next' = next
  BY <1>5 DEF LoopStep, UserReturns, SpuriousEvent, EnterLoop, TakeBatch,
     NextTask, BatchDone, RunDequeue, PollFuture, PollExited, PollPending,
     PollReady, SetExited, Despawn, WaitForEvent, queueVars
<1>6. CASE UNCHANGED vars
  BY <1>6 DEF vars, queueVars
<1>7. QED
  BY <1>2, <1>3, <1>4, <1>5, <1>6 DEF Next

---------------------------------------------------------------------------
(* EnqueueExclusive.                                                       *)

\* "task must NOT be already enqueued" and "no concurrent accesses to next",
\* the safety conditions of RunQueue::enqueue, hold whenever it runs.
THEOREM EnqueueExclusiveAlways ==
    OwnedStorage => (Safety => []EnqueueExclusive)
<1>1. ASSUME IInv, NEW p \in Threads, NEW t \in Tasks, Holds(p, t)
      PROVE  /\ \A q \in Threads \ {p} : ~Holds(q, t)
             /\ \A e \in Executors :
                   /\ t \notin Queue(e) \cup Batch(e)
                   /\ ~(pc[e] = "run_dequeue" /\ current[e] = t)
  <2>1. pc[p] \in HoldLabels /\ item[p] = t
    BY <1>1 DEF Holds, HoldLabels, SpawnLabels, OpLabels
  <2>2. t \notin Queued /\ t \notin InHand
    BY <1>1, <2>1, HeldNotQueued DEF IInv, HolderInv
  <2>3. \A q \in Threads \ {p} : ~Holds(q, t)
    BY <1>1, <2>1 DEF IInv, HolderInv, Holds, HoldLabels, SpawnLabels, OpLabels
  <2>4. \A e \in Executors : t \notin Queue(e) \cup Batch(e)
    BY <1>1, <2>2, ListsQueued
  <2>5. \A e \in Executors : ~(pc[e] = "run_dequeue" /\ current[e] = t)
    BY <2>2 DEF InHand
  <2>6. QED
    BY <2>3, <2>4, <2>5
<1>2. IInv => EnqueueExclusive
  BY <1>1 DEF EnqueueExclusive
<1>3. QED
  BY <1>2, Inductive, PTL

---------------------------------------------------------------------------
(* BatchOnlyShrinks.                                                       *)

\* Between two swaps the cursor moves along the list.
LEMMA WalkStep ==
    ASSUME IInv, [Next]_vars, NEW e \in Executors, pc[e] # "swap"
    PROVE  walk'[e] = walk[e] \/ (walk[e] # Nil /\ walk'[e] = next[walk[e]])
<1>1. TypeOK
  BY DEF IInv
<1>2. ASSUME NEW p \in Threads, OpStep(p) PROVE walk' = walk
  BY <1>2 DEF OpStep, SetPollFn, WriteFuture, StoreExecutor, LoadExecutor,
     LoadHead, CasOk, CasRetry, Pend, loopVars
<1>3. ASSUME NEW p \in Threads, NEW t \in Tasks, Claim(p, t) \/ Wake(p, t)
      PROVE  walk' = walk
  BY <1>3 DEF Claim, Wake, loopVars
<1>4. ASSUME NEW f \in Executors, TakeBatch(f) PROVE walk'[e] = walk[e]
  BY <1>1, <1>4 DEF TakeBatch, TypeOK
<1>5. ASSUME NEW f \in Executors, NextTask(f)
      PROVE  walk'[e] = walk[e] \/ (walk[e] # Nil /\ walk'[e] = next[walk[e]])
  BY <1>1, <1>5 DEF NextTask, TypeOK
<1>6. ASSUME NEW f \in Executors,
             LoopStep(f) \/ UserReturns(f) \/ SpuriousEvent(f),
             ~TakeBatch(f), ~NextTask(f)
      PROVE  walk' = walk
  BY <1>6 DEF LoopStep, UserReturns, SpuriousEvent, EnterLoop, BatchDone,
     RunDequeue, PollFuture, PollExited, PollPending, PollReady, SetExited,
     Despawn, WaitForEvent, loopVars
<1>7. CASE UNCHANGED vars
  BY <1>7 DEF vars, loopVars
<1>8. QED
  BY <1>2, <1>3, <1>4, <1>5, <1>6, <1>7 DEF Next

\* So the list behind it loses tasks and gains none.
LEMMA BatchStep ==
    ASSUME IInv, [Next]_vars, NEW e \in Executors, pc[e] # "swap"
    PROVE  Batch(e)' \subseteq Batch(e)
<1> DEFINE B == Batch(e)
<1>1. TypeOK /\ walk[e] \in Tasks \cup {Nil}
  BY DEF IInv, TypeOK
<1>2. B \subseteq Queued /\ B \in SUBSET Tasks
  BY ListsQueued DEF Batch, Chain
<1>3. walk[e] \in B \cup {Nil} /\ Linked(B)
  BY <1>1, ChainLinked DEF Batch
<1>4. \A t \in B : next'[t] \in B \cup {Nil}
  BY <1>2, <1>3, NextOfQueued DEF Linked
<1>5. walk'[e] \in B \cup {Nil}
  BY <1>3, WalkStep DEF Linked
<1> HIDE DEF B
<1>6. Chain(walk[e])' \subseteq B
  BY <1>2, <1>4, <1>5 DEF Chain, Linked
<1>7. QED
  BY <1>6 DEF Batch, B

\* What is enqueued while a batch is processed waits for the next one.
THEOREM BatchOnlyShrinksAlways ==
    OwnedStorage => (Safety => BatchOnlyShrinks)
<1>1. ASSUME IInv, [Next]_vars
      PROVE  [\A e \in Executors : pc[e] # "swap" => Batch(e)' \subseteq Batch(e)]_vars
  BY <1>1, BatchStep
<1>2. QED
  BY <1>1, Inductive, PTL DEF Safety, BatchOnlyShrinks

---------------------------------------------------------------------------
(* NothingStranded.                                                        *)

\* Lists that stay, of tasks that stay, reach what they reached.
LEMMA ReachFrame ==
    ASSUME IInv, ReachInv, [Next]_vars, UNCHANGED <<head, walk>>,
           Queued' \subseteq Queued
    PROVE  ReachInv'
<1>1. SUFFICES ASSUME NEW S \in SUBSET Tasks,
                      \A e \in Executors : {head[e], walk[e]} \subseteq S \cup {Nil},
                      \A t \in S : next'[t] \in S \cup {Nil}
               PROVE  Queued \subseteq S
  BY DEF ReachInv, Linked
<1> DEFINE T == S \cap Queued
<1>2. \A e \in Executors : {head[e], walk[e]} \subseteq T \cup {Nil}
  BY <1>1 DEF IInv, PointerInv
<1>3. Linked(T)
  BY <1>1, NextOfQueued, QueuedLinked DEF Linked
<1>4. Queued \subseteq T
  BY <1>2, <1>3 DEF ReachInv
<1>5. QED
  BY <1>4

\* The new head leads to the old one.
LEMMA ReachCasOk ==
    ASSUME IInv, ReachInv, NEW p \in Threads, CasOk(p)
    PROVE  ReachInv'
<1> DEFINE t == item[p]  e == target[p]
<1>1. /\ TypeOK /\ t \in Tasks /\ e \in Executors
      /\ next[t] = head[e]
      /\ head' = [head EXCEPT ![e] = t]
      /\ UNCHANGED <<next, walk>>
  BY CasOkLocals DEF IInv, EnqueueInv, CasOk, loopVars
<1>2. Queued' = Queued \cup {t}
  <2>1. InHand' = InHand
    BY DEF IInv, TypeOK, CasOk, Return, Goto, InHand, UserCode, loopVars, Threads
  <2>2. QED
    BY <2>1, CasOkHeld, CasOkQueued
<1>3. SUFFICES ASSUME NEW S \in SUBSET Tasks,
                      \A f \in Executors : {head'[f], walk[f]} \subseteq S \cup {Nil},
                      Linked(S)
               PROVE  Queued \cup {t} \subseteq S
  BY <1>1, <1>2 DEF ReachInv, Linked
<1>4. t \in S
  BY <1>1, <1>3, NilAssumption DEF TypeOK
<1>5. \A f \in Executors : head[f] \in S \cup {Nil}
  BY <1>1, <1>3, <1>4 DEF TypeOK, Linked
<1>6. QED
  BY <1>3, <1>4, <1>5 DEF ReachInv

\* The swap hands the queue over to the cursor, which was at its end.
LEMMA ReachTakeBatch ==
    ASSUME IInv, ReachInv, NEW e \in Executors, TakeBatch(e), walk[e] = Nil
    PROVE  ReachInv'
<1>1. /\ TypeOK
      /\ walk' = [walk EXCEPT ![e] = head[e]]
      /\ head' = [head EXCEPT ![e] = Nil]
      /\ next' = next
  BY DEF IInv, TakeBatch
<1>2. Queued' = Queued
  BY DEF TakeBatch, Goto, Queued, Held, HoldLabels, SpawnLabels, InHand,
     taskVars, opVars, IInv, TypeOK
<1>3. SUFFICES ASSUME NEW S \in SUBSET Tasks,
                      \A f \in Executors : {head'[f], walk'[f]} \subseteq S \cup {Nil},
                      Linked(S)
               PROVE  Queued \subseteq S
  BY <1>1, <1>2 DEF ReachInv, Linked
<1>4. \A f \in Executors : {head[f], walk[f]} \subseteq S \cup {Nil}
  BY <1>1, <1>3 DEF TypeOK
<1>5. QED
  BY <1>3, <1>4 DEF ReachInv

\* The cursor leaves behind only the task that is now in hand.
LEMMA ReachNextTask ==
    ASSUME IInv, ReachInv, NEW e \in Executors, NextTask(e)
    PROVE  ReachInv'
<1> DEFINE t == walk[e]
<1>1. /\ TypeOK /\ t \in Tasks /\ t # Nil
      /\ walk' = [walk EXCEPT ![e] = next[t]]
      /\ UNCHANGED <<head, next>>
  BY DEF IInv, TypeOK, NextTask, queueVars
<1>2. Queued' = Queued \ {t}
  <2>1. Held' = Held
    BY DEF NextTask, Goto, Held, HoldLabels, SpawnLabels, opVars, IInv, TypeOK
  <2>2. InHand' = InHand \cup {t}
    BY DEF IInv, InHand, TypeOK, LocalsOK, NextTask, Goto, Threads,
       VisitLabels, LoopLabels
  <2>3. QED
    BY <2>1, <2>2 DEF Queued, NextTask, taskVars
<1>3. SUFFICES ASSUME NEW S \in SUBSET Tasks,
                      \A f \in Executors : {head[f], walk'[f]} \subseteq S \cup {Nil},
                      Linked(S)
               PROVE  Queued \ {t} \subseteq S
  BY <1>1, <1>2 DEF ReachInv, Linked
<1> DEFINE T == S \cup {t}
<1>4. \A f \in Executors : {head[f], walk[f]} \subseteq T \cup {Nil}
  BY <1>1, <1>3 DEF TypeOK
<1>5. Linked(T)
  BY <1>1, <1>3 DEF TypeOK, Linked
<1>6. Queued \subseteq T
  BY <1>1, <1>4, <1>5 DEF ReachInv
<1>7. QED
  BY <1>6

\* The cursor is worked off before the next swap.
LEMMA CursorStep ==
    ASSUME IInv, CursorInv, [Next]_vars
    PROVE  CursorInv'
<1>1. TypeOK
  BY DEF IInv
<1>2. ASSUME NEW p \in Threads, OpStep(p) PROVE CursorInv'
  <2>1. UNCHANGED <<walk, current>>
    BY <1>2 DEF OpStep, SetPollFn, WriteFuture, StoreExecutor, LoadExecutor,
       LoadHead, CasOk, CasRetry, Pend, loopVars
  <2>2. pc[p] # "walk" /\ \A q \in Threads \ {p} : pc'[q] = pc[q]
    BY <1>1, <1>2 DEF OpStep, SetPollFn, WriteFuture, StoreExecutor,
       LoadExecutor, LoadHead, CasOk, CasRetry, Pend, Return, Goto, TypeOK
  <2>3. QED
    BY <2>1, <2>2 DEF CursorInv, Threads
<1>3. ASSUME NEW p \in Threads, NEW t \in Tasks, Claim(p, t) \/ Wake(p, t)
      PROVE  CursorInv'
  <2>1. UNCHANGED <<walk, current>>
    BY <1>3 DEF Claim, Wake, loopVars
  <2>2. pc[p] # "walk" /\ \A q \in Threads \ {p} : pc'[q] = pc[q]
    BY <1>1, <1>3 DEF Claim, Wake, InUserCode, UserCode, Goto, TypeOK
  <2>3. QED
    BY <2>1, <2>2 DEF CursorInv, Threads
<1>4. ASSUME NEW e \in Executors,
             LoopStep(e) \/ UserReturns(e) \/ SpuriousEvent(e)
      PROVE  CursorInv'
  <2>1. \A f \in Executors \ {e} :
            pc'[f] = pc[f] /\ current'[f] = current[f] /\ walk'[f] = walk[f]
    BY <1>1, <1>4 DEF LoopStep, UserReturns, SpuriousEvent, EnterLoop,
       TakeBatch, NextTask, BatchDone, RunDequeue, PollFuture, PollExited,
       PollPending, PollReady, SetExited, Despawn, WaitForEvent, Goto,
       loopVars, TypeOK, Threads
  <2>2. current'[e] = Nil /\ pc'[e] # "walk" => walk'[e] = Nil
    <3>1. CASE EnterLoop(e) \/ WaitForEvent(e) \/ SpuriousEvent(e) \/ BatchDone(e)
      BY <1>1, <3>1 DEF EnterLoop, WaitForEvent, SpuriousEvent, BatchDone,
         Goto, loopVars, CursorInv, TypeOK, LocalsOK, Threads, LoopLabels,
         VisitLabels
    <3>2. CASE NextTask(e)
      BY <1>1, <3>2, NilAssumption DEF NextTask, TypeOK
    <3>3. CASE TakeBatch(e) \/ PollExited(e) \/ PollPending(e) \/ Despawn(e)
      BY <1>1, <3>3 DEF TakeBatch, PollExited, PollPending, Despawn, Goto,
         TypeOK, Threads
    <3>4. CASE RunDequeue(e) \/ PollFuture(e) \/ PollReady(e) \/ SetExited(e)
      BY <1>1, <3>4 DEF RunDequeue, PollFuture, PollReady, SetExited, loopVars,
         TypeOK, LocalsOK, VisitLabels
    <3>5. QED
      BY <1>4, <3>1, <3>2, <3>3, <3>4 DEF LoopStep, UserReturns
  <2>3. QED
    BY <2>1, <2>2 DEF CursorInv
<1>5. CASE UNCHANGED vars
  BY <1>5 DEF vars, loopVars, CursorInv
<1>6. QED
  BY <1>2, <1>3, <1>4, <1>5 DEF Next

\* The other steps put no task on a list.
LEMMA QueuedFrame ==
    ASSUME IInv, OwnedStorage, [Next]_vars,
           \A p \in Threads : ~CasOk(p), \A e \in Executors : ~NextTask(e)
    PROVE  Queued' \subseteq Queued
<1>1. TypeOK
  BY DEF IInv
<1>2. ASSUME NEW p \in Threads, OpStep(p) PROVE Queued' \subseteq Queued
  <2>1. UNCHANGED <<state, current>>
    BY <1>2 DEF OpStep, SetPollFn, WriteFuture, StoreExecutor, LoadExecutor,
       LoadHead, CasRetry, Pend, taskVars, loopVars
  <2>2. /\ \A q \in Threads \ {p} : pc'[q] = pc[q] /\ item'[q] = item[q]
        /\ pc[p] \in HoldLabels => pc'[p] \in HoldLabels /\ item'[p] = item[p]
        /\ pc[p] # "run_dequeue"
    BY <1>1, <1>2 DEF OpStep, SetPollFn, WriteFuture, StoreExecutor,
       LoadExecutor, LoadHead, CasRetry, Pend, Return, Goto, Link, TypeOK,
       HoldLabels, SpawnLabels, opVars
  <2>3. Held \subseteq Held' /\ InHand \subseteq InHand'
    BY <2>1, <2>2 DEF Held, InHand, Threads
  <2>4. QED
    BY <2>1, <2>3 DEF Queued
<1>3. ASSUME NEW p \in Threads, NEW t \in Tasks, Claim(p, t)
      PROVE  Queued' \subseteq Queued
  <2>1. InHand' = InHand
    BY <1>1, <1>3 DEF InHand, Claim, InUserCode, UserCode, Goto, loopVars,
       TypeOK, Threads
  <2>2. Held' = Held \cup {t}
    BY <1>1, <1>3 DEF Held, TypeOK, HoldLabels, SpawnLabels, Claim, Goto,
       InUserCode, UserCode
  <2>3. QED
    BY <1>1, <1>3, <2>1, <2>2 DEF Queued, Claim, TypeOK
<1>4. ASSUME NEW p \in Threads, NEW t \in Tasks, Wake(p, t)
      PROVE  Queued' \subseteq Queued
  <2>1. InHand' = InHand
    BY <1>1, <1>4 DEF InHand, Wake, InUserCode, UserCode, Goto, loopVars,
       TypeOK, Threads
  <2>2. Held' = (IF "RUN_QUEUED" \in state[t] THEN Held ELSE Held \cup {t})
    BY <1>1, <1>4 DEF Held, TypeOK, HoldLabels, SpawnLabels, Wake, Goto,
       InUserCode, UserCode
  <2>3. QED
    BY <1>1, <1>4, <2>1, <2>2 DEF Queued, Wake, TypeOK
<1>5. ASSUME NEW e \in Executors, RunDequeue(e) PROVE Queued' \subseteq Queued
  <2>1. Held' = Held
    BY <1>1, <1>5 DEF RunDequeue, Goto, Held, HoldLabels, SpawnLabels, opVars, TypeOK
  <2>2. InHand' = InHand \ {current[e]}
    BY <1>1, <1>5, OneVisitor, NilAssumption DEF InHand, TypeOK, LocalsOK, RunDequeue, Goto,
       loopVars, Threads, VisitLabels
  <2>3. QED
    BY <1>5, <2>1, <2>2, RunDequeueQueued
<1>6. ASSUME NEW e \in Executors,
             LoopStep(e) \/ UserReturns(e) \/ SpuriousEvent(e), ~RunDequeue(e)
      PROVE  Queued' \subseteq Queued
  <2>1. /\ \A t \in Tasks : "RUN_QUEUED" \in state'[t] => "RUN_QUEUED" \in state[t]
        /\ item' = item
    BY <1>1, <1>6 DEF LoopStep, UserReturns, SpuriousEvent, EnterLoop,
       TakeBatch, BatchDone, PollFuture, PollExited, PollPending, PollReady,
       SetExited, Despawn, WaitForEvent, taskVars, opVars, TypeOK
  <2>2. /\ \A q \in Threads \ {e} : pc'[q] = pc[q]
        /\ \A f \in Executors \ {e} : current'[f] = current[f]
        /\ pc[e] \notin HoldLabels \cup {"run_dequeue"}
    BY <1>1, <1>6 DEF LoopStep, UserReturns, SpuriousEvent, EnterLoop,
       TakeBatch, BatchDone, PollFuture, PollExited, PollPending, PollReady,
       SetExited, Despawn, WaitForEvent, Goto, loopVars, TypeOK, HoldLabels,
       SpawnLabels, Threads
  <2>3. Held \subseteq Held' /\ InHand \subseteq InHand'
    BY <2>1, <2>2 DEF Held, InHand, Threads
  <2>4. QED
    BY <2>1, <2>3 DEF Queued
<1>7. CASE UNCHANGED vars
  BY <1>7 DEF vars, taskVars, opVars, loopVars, Queued, Held, InHand
<1>8. QED
  BY <1>2, <1>3, <1>4, <1>5, <1>6, <1>7 DEF Next

\* ReachInv is preserved by every step.
LEMMA ReachStep ==
    ASSUME IInv, ReachInv, CursorInv, OwnedStorage, [Next]_vars
    PROVE  ReachInv'
<1>1. ASSUME NEW e \in Executors, TakeBatch(e) PROVE ReachInv'
  <2>1. walk[e] = Nil
    BY <1>1 DEF TakeBatch, CursorInv, IInv, TypeOK, LocalsOK, LoopLabels, VisitLabels
  <2>2. QED
    BY <1>1, <2>1, ReachTakeBatch
<1>2. CASE /\ \A p \in Threads : ~CasOk(p)
           /\ \A e \in Executors : ~NextTask(e) /\ ~TakeBatch(e)
  <2>1. UNCHANGED <<head, walk>>
    BY <1>2 DEF Next, OpStep, SetPollFn, WriteFuture, StoreExecutor,
       LoadExecutor, LoadHead, CasRetry, Pend, Claim, Wake, LoopStep,
       UserReturns, SpuriousEvent, EnterLoop, BatchDone, RunDequeue,
       PollFuture, PollExited, PollPending, PollReady, SetExited, Despawn,
       WaitForEvent, queueVars, loopVars, vars
  <2>2. QED
    BY <1>2, <2>1, QueuedFrame, ReachFrame
<1>3. QED
  BY <1>1, <1>2, ReachCasOk, ReachNextTask

LEMMA ReachInit == Init => ReachInv /\ CursorInv
BY DEF Init, ReachInv, CursorInv, Queued

\* Every queued task is on a list, and on one of its own executor.
LEMMA QueuedOnList ==
    ASSUME IInv, ReachInv, NEW t \in Queued
    PROVE  \E e \in Executors : e = executor[t] /\ t \in Queue(e) \cup Batch(e)
<1> DEFINE U == UNION {Queue(e) \cup Batch(e) : e \in Executors}
<1>1. U \in SUBSET Tasks
  BY DEF Queue, Batch, Chain
<1>2. ASSUME NEW e \in Executors
      PROVE  /\ head[e] \in Queue(e) \cup {Nil} /\ Linked(Queue(e))
             /\ walk[e] \in Batch(e) \cup {Nil} /\ Linked(Batch(e))
  BY ChainLinked DEF Queue, Batch, IInv, TypeOK
<1>3. \A e \in Executors : {head[e], walk[e]} \subseteq U \cup {Nil}
  BY <1>2
<1>4. Linked(U)
  BY <1>2 DEF Linked
<1>5. t \in U
  BY <1>1, <1>3, <1>4 DEF ReachInv
<1>6. QED
  BY <1>5, ListsOwn

\* A task marked RUN_QUEUED is being enqueued, on a list of its executor or in
\* the hand of it: no wake that finds the bit set is in vain.
THEOREM NothingStrandedAlways ==
    OwnedStorage => (Safety => []NothingStranded)
<1>1. ASSUME IInv, ReachInv, NEW t \in Tasks, "RUN_QUEUED" \in state[t]
      PROVE  \/ \E p \in Threads : Holds(p, t)
             \/ \E e \in Executors :
                  /\ e = executor[t]
                  /\ \/ t \in Queue(e) \cup Batch(e)
                     \/ pc[e] = "run_dequeue" /\ current[e] = t
  <2>1. CASE t \in Held
    BY <2>1 DEF Held, Holds, HoldLabels, SpawnLabels, OpLabels
  <2>2. CASE t \in InHand
    <3>1. PICK e \in Executors : current[e] = t /\ pc[e] = "run_dequeue"
      BY <2>2 DEF InHand
    <3>2. executor[t] = e
      BY <1>1, <3>1, NilAssumption DEF IInv, VisitInv
    <3>3. QED
      BY <3>1, <3>2
  <2>3. CASE t \in Queued
    BY <1>1, <2>3, QueuedOnList
  <2>4. QED
    BY <1>1, <2>1, <2>2, <2>3 DEF Queued
<1>2. IInv /\ ReachInv => NothingStranded
  BY <1>1 DEF NothingStranded
<1>3. ASSUME OwnedStorage PROVE Safety => []NothingStranded
  <2>1. IInv /\ ReachInv /\ CursorInv /\ [Next]_vars => ReachInv' /\ CursorInv'
    BY <1>3, ReachStep, CursorStep
  <2>2. Safety => []IInv
    BY <1>3, Inductive
  <2>3. QED
    BY <1>2, <2>1, <2>2, ReachInit, PTL DEF Safety
<1>4. QED
  BY <1>3
=============================================================================
