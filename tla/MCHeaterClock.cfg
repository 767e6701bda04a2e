SPECIFICATION ClockSpec
CONSTANTS
    DayLength = 8
    Starts <- Evenings
    Horizon = 28
    Sync = 5
    Round = 2
    HttpTimeout = 2
    None = None
INVARIANTS
    ShowsDate
    SetInTime
