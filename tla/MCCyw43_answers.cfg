SPECIFICATION Spec
CONSTANTS
    SeqMod = 4
    IdMod = 3
    Numbers = 1
    TxSize = 1
    RxSize = 1
    Window = 1
    Waiting = 1
INVARIANT
    TypeOK
PROPERTIES
    Answered
    Transmits
