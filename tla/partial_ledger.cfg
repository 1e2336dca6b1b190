CONSTANTS
    EXIT_START_LEDGER = 0
    maxPagesPerPass = 2
    pageLimit = 1
    ScanWindow = 2
    EventsPerLedger = 2
    MaxLedger = 4
    MaxResets = 1
    MaxTears = 0
    CursorHiccups = FALSE
    NoState = NoState
    NoCursor = NoCursor
    NoSnapshot = NoSnapshot
SPECIFICATION MonitorSpec
PROPERTY ReentryCostsNothing
