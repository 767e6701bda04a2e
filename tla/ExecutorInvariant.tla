------------------------- MODULE ExecutorInvariant -------------------------
(***************************************************************************)
(* The inductive invariants behind the safety of Executor.  IInv never     *)
(* speaks of a whole list: it says which pointers lead to which tasks, and *)
(* that no task is at the end of two of them.  Only ReachInv, for what is  *)
(* never left out of a list, quantifies over sets closed under next.       *)
(***************************************************************************)
EXTENDS Executor

\* The discipline under which a storage may be respawned: only the thread of
\* one executor ever claims it, to spawn it on that executor (Spawner is not
\* Send; a task's statics are used from one executor).
OwnedStorage ==
    \A p, q \in Threads, t \in Tasks, e, f \in Executors :
        <<p, t, e>> \in SpawnRights =>
            /\ p = e
            /\ <<q, t, f>> \in SpawnRights => q = p

SpawnLabels == {"set_poll_fn", "write_future", "store_executor"}
HoldLabels == SpawnLabels \cup {"load_executor", "load_head", "cas"}

\* Tasks being spawned; being spawned or woken; in the hand of dequeue_all
\* before their bit is cleared; between Poll::Ready and despawn.
Spawning == {t \in Tasks : \E p \in Threads : item[p] = t /\ pc[p] \in SpawnLabels}
Held == {t \in Tasks : \E p \in Threads : item[p] = t /\ pc[p] \in HoldLabels}
InHand == {t \in Tasks :
              \E e \in Executors : current[e] = t /\ pc[e] = "run_dequeue"}
Exiting == {t \in Tasks :
              \E e \in Executors : current[e] = t /\ pc[e] \in {"set_exited", "despawn"}}

\* The tasks on lists: marked, no longer being enqueued, not yet in hand.
Queued == {t \in Tasks : "RUN_QUEUED" \in state[t]} \ (Held \cup InHand)

TaskInv ==
    \A t \in Tasks :
        /\ executor[t] # Nil => <<executor[t], t, executor[t]>> \in SpawnRights
        /\ executor[t] # Nil => pollFn[t] # "None"
        /\ t \in wakers => executor[t] # Nil
        /\ t \notin Spawning =>
             IF "SPAWNED" \in state[t]
             THEN /\ executor[t] # Nil
                  /\ (pollFn[t] = "poll" /\ future[t] = "live") \/ t \in Exiting
             ELSE pollFn[t] # "poll"

\* Whoever is enqueuing a task is alone in doing so.
HolderInv ==
    \A p \in Threads :
        pc[p] \in HoldLabels =>
            /\ "RUN_QUEUED" \in state[item[p]]
            /\ item[p] \notin InHand
            /\ \A q \in Threads \ {p} :
                   ~(pc[q] \in HoldLabels /\ item[q] = item[p])

SpawnInv ==
    \A p \in Threads :
        /\ pc[p] \in SpawnLabels =>
             /\ <<p, item[p], p>> \in SpawnRights
             /\ current[p] # item[p]
             /\ "SPAWNED" \in state[item[p]]
        /\ pc[p] \in {"write_future", "store_executor"} => pollFn[item[p]] = "poll"
        /\ pc[p] = "store_executor" => future[item[p]] = "live"

EnqueueInv ==
    \A p \in Threads :
        /\ pc[p] = "load_executor" => executor[item[p]] # Nil
        /\ pc[p] \in {"load_head", "cas"} => target[p] = executor[item[p]]
        /\ pc[p] = "cas" => next[item[p]] = prev[p]

VisitInv ==
    \A e \in Executors :
        current[e] # Nil =>
            /\ executor[current[e]] = e
            /\ pc[e] = "run_dequeue" => "RUN_QUEUED" \in state[current[e]]
            /\ pc[e] \in {"polling", "set_exited", "despawn"} \cup OpLabels =>
                 "SPAWNED" \in state[current[e]]
            /\ pc[e] = "despawn" => pollFn[current[e]] = "poll_exited"

PointerInv ==
    /\ \A e \in Executors :
         /\ head[e] # Nil => head[e] \in Queued /\ executor[head[e]] = e
         /\ walk[e] # Nil => walk[e] \in Queued /\ executor[walk[e]] = e
         /\ head[e] # Nil => head[e] # walk[e]
    /\ \A u \in Tasks :
         u \in Queued /\ next[u] # Nil =>
            /\ next[u] \in Queued
            /\ executor[next[u]] = executor[u]
            /\ \A e \in Executors : next[u] # head[e] /\ next[u] # walk[e]
            /\ \A v \in Tasks : v \in Queued /\ next[v] = next[u] => v = u

IInv ==
    /\ TypeOK
    /\ TaskInv
    /\ HolderInv
    /\ SpawnInv
    /\ EnqueueInv
    /\ VisitInv
    /\ PointerInv

\* Only inside dequeue_all does the cursor lead to anything.
CursorInv ==
    \A e \in Executors : current[e] = Nil /\ pc[e] # "walk" => walk[e] = Nil

\* Every task that should be on a list is on one: sets that hold all that the
\* pointers lead to hold every queued task.
ReachInv ==
    \A S \in SUBSET Tasks :
        /\ \A e \in Executors : {head[e], walk[e]} \subseteq S \cup {Nil}
        /\ Linked(S)
        => Queued \subseteq S

\* The event bit: from the moment an executor has swapped its queue out, a
\* non-empty queue means that the event is set or being set.
PendInv ==
    \A e \in Executors :
        head[e] # Nil =>
            \/ pc[e] = "swap"
            \/ event[e]
            \/ \E p \in Threads : pc[p] = "pend" /\ target[p] = e
=============================================================================
