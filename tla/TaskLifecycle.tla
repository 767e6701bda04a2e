--------------------------- MODULE TaskLifecycle ---------------------------
(***************************************************************************)
(* What the executor promises about the life of a task, as the state       *)
(* diagram above TaskHeader (embassy-executor/src/raw/mod.rs:47-83) draws  *)
(* it.  A task is a static storage: it is alive while it holds a future,   *)
(* notified while it is owed a visit by its executor, and running while    *)
(* its future is being polled.  The numbers are the transitions of that    *)
(* diagram.                                                                *)
(***************************************************************************)
CONSTANT Tasks

VARIABLES alive, notified, running

lifeVars == <<alive, notified, running>>

LifeTypeOK ==
    /\ alive \subseteq Tasks
    /\ notified \subseteq Tasks
    /\ running \subseteq Tasks

LifeInit ==
    /\ alive = {}
    /\ notified = {}
    /\ running = {}

\* 1: only a storage that is neither alive nor queued can be spawned.
Spawn(t) ==
    /\ t \notin alive \cup notified \cup running
    /\ alive' = alive \cup {t}
    /\ notified' = notified \cup {t}
    /\ UNCHANGED running

\* 3 and 6: any waker, at any time, of a live or of a finished task.
Notify(t) ==
    /\ notified' = notified \cup {t}
    /\ UNCHANGED <<alive, running>>

\* 2: the visit of a live task polls its future and uses up the notification.
Begin(t) ==
    /\ t \in (notified \cap alive) \ running
    /\ notified' = notified \ {t}
    /\ running' = running \cup {t}
    /\ UNCHANGED alive

\* 5: the visit of a finished task polls nothing.
Discard(t) ==
    /\ t \in notified \ (alive \cup running)
    /\ notified' = notified \ {t}
    /\ UNCHANGED <<alive, running>>

\* The future returns Pending.
Yield(t) ==
    /\ t \in running
    /\ running' = running \ {t}
    /\ UNCHANGED <<alive, notified>>

\* 4: the future returns Ready; a notification received meanwhile stays.
Finish(t) ==
    /\ t \in running
    /\ running' = running \ {t}
    /\ alive' = alive \ {t}
    /\ UNCHANGED notified

LifeNext ==
    \E t \in Tasks :
        Spawn(t) \/ Notify(t) \/ Begin(t) \/ Discard(t) \/ Yield(t) \/ Finish(t)

\* Every owed visit is paid: no notification is lost.
LifeFairness == \A t \in Tasks : WF_lifeVars(Begin(t) \/ Discard(t))

LifeSafety == LifeInit /\ [][LifeNext]_lifeVars
LifeSpec == LifeSafety /\ LifeFairness
=============================================================================
