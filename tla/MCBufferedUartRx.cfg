SPECIFICATION Spec
CONSTANTS
    r1 = r1
    None = None
    Readers = {r1}
    Size = 2
    FifoSize = 1
    MaxRead = 2
    Good = {a, b}
    Bad = Bad
    a = a
    b = b
INVARIANT NoLostWakeup
INVARIANT MaskedForAReason
PROPERTY ImplementsStream
PROPERTY ReadEnds
