SPECIFICATION Spec
CONSTANTS
    Versions = {v1, v2}
    P = 3
    Slots = 15
    HeadSlots = 4
    Erased = Erased
    Mixed = Mixed
    None = None
INVARIANT BootsWholeImage
INVARIANT RevertKeepsBothImages
PROPERTY UpdatesAsPromised
PROPERTY HandsOver
PROPERTY RollsBack
