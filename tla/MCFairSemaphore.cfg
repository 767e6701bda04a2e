SPECIFICATION Spec
CONSTANTS
    t1 = t1
    t2 = t2
    t3 = t3
    Nil = Nil
    Tasks = {t1, t2, t3}
    Requests <- ThreeRequests
    N = 2
    Initial = 1
    MaxPermits = 2
    MaxTicket = 5
INVARIANTS
    TicketsFindWakers
    NoLostWakeup
PROPERTY
    ImplementsLine
