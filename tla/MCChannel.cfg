SPECIFICATION Spec
CONSTANTS
    t1 = t1
    t2 = t2
    t3 = t3
    Nil = Nil
    Tasks = {t1, t2, t3}
    N = 2
INVARIANT NoLostWakeup
PROPERTY ImplementsQueue
