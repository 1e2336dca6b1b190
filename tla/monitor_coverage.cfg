CONSTANTS
    EXIT_START_LEDGER = 0
    maxPagesPerPass = 2
    pageLimit = 2
    ScanWindow = 2
    EventsPerLedger = 1
    MaxLedger = 4
    MaxResets = 1
    MaxTears = 2
    CursorHiccups = TRUE
    NoState = NoState
    NoCursor = NoCursor
    NoSnapshot = NoSnapshot
SPECIFICATION MonitorSpec
INVARIANTS
    NothingSkipped
    LogInOrder
    
