SPECIFICATION DfuSpec
CONSTANTS
    a = a
    b = b
    Images = {a, b}
    Lengths = {3, 10, 14}
    Block = 4
    Sector = 5
    Capacity = 15
    BlockNumbers = 8
    Timeout = 1
    WillDetach = FALSE
    RestartsAnywhere = FALSE
    Zero = Zero
    Erased = Erased
    Mixed = Mixed
    None = None
INVARIANTS
    DfuTypeOK
    MarkedAsSent
PROPERTY
    DownloadEnds
