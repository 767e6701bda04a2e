SPECIFICATION Safety
CONSTANTS
    t1 = t1
    t2 = t2
    t3 = t3
    e1 = e1
    e2 = e2
    Nil = Nil
    Tasks = {t1}
    Executors = {e1, e2}
    Contexts = {}
    SpawnRights <- SharedRights
    NoPendContexts = {}
INVARIANTS
    PollsOwnLiveTask
