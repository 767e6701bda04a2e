SPECIFICATION Spec
CONSTANTS
    t1 = t1
    t2 = t2
    t3 = t3
    e1 = e1
    e2 = e2
    Nil = Nil
    Tasks = {t1, t2, t3}
    Executors = {e1, e2}
    Contexts = {}
    SpawnRights <- OwnRights
    NoPendContexts = {}
INVARIANTS
    PollsOwnLiveTask
    EnqueueExclusive
    NothingStranded
    NoLostPend
PROPERTIES
    BatchOnlyShrinks
    LifeCycle
    EveryWakeVisits
