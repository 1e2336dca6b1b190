CONSTANTS
    EXIT_START_LEDGER = 0
    maxPagesPerPass = 2
    pageLimit = 1
    ScanWindow = 2
    EventsPerLedger = 1
    MaxLedger = 4
    MaxResets = 0
    MaxTears = 0
    CursorHiccups = TRUE
    NoState = NoState
    NoCursor = NoCursor
    NoSnapshot = NoSnapshot
SPECIFICATION FairMonitorSpec
PROPERTY EverythingLogged
