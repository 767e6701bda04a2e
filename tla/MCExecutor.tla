----------------------------- MODULE MCExecutor -----------------------------
(* Instances of Executor for TLC.                                          *)
EXTENDS ExecutorInvariant

CONSTANTS t1, t2, t3, e1, e2

\* Every storage is claimed by the thread of the executor it runs on.
OwnRights == {<<e1, t1, e1>>, <<e1, t2, e1>>, <<e2, t3, e2>>}

\* A pool shared by two executors: each spawns t1 on itself.
SharedRights == {<<e1, t1, e1>>, <<e2, t1, e2>>}
=============================================================================
