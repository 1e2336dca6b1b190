CONSTANTS
    Assets = {gold, iron}
    Admins = {admin}
    Auctions = {auction, other}
    Routers = {}
    NoAddr = none
    BPS_DENOMINATOR = 4
    MaxExits = 4
    MAX_QUEUE_DEPTH = 3
SYMMETRY Symmetry
SPECIFICATION QueueSpec
INVARIANTS
    LineWellFormed
PROPERTY OrderKept
