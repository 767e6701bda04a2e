SPECIFICATION Spec
CONSTANTS
    Tasks = {t1, t2}
    W = 3
    Delays = {1, 4}
    Horizon = 5
    Latency = 1
INVARIANTS
    NoMissedExpiration
    KeptByQueue
PROPERTIES
    EveryTimerEnds
