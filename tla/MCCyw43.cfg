SPECIFICATION Spec
CONSTANTS
    SeqMod = 8
    IdMod = 4
    Numbers = 3
    TxSize = 2
    RxSize = 1
    Window = 2
    Waiting = 1
INVARIANTS
    AnswersTheCaller
    CreditKept
    InOrder
    NoLostWakeup
