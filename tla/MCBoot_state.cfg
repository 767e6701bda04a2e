SPECIFICATION Safety
CONSTANTS
    Versions = {v1, v2}
    P = 3
    Slots = 10
    HeadSlots = 4
    Erased = Erased
    Mixed = Mixed
    None = None
INVARIANT NoOverrun
