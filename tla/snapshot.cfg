CONSTANTS
    Usdc = usdc
    Tokens <- MCTokens
    Nodes = {n1, n2}
    Assets = {gold}
    Sellers = {s1}
    Treasuries = {treasury}
    Payees <- MCPayees
    Holders <- MCHolders
    Admins = {admin}
    Auctions = {auction}
    Routers = {router}
    VaultAddr = vault
    RouterAddr = router
    AuctionAddr = auction
    NoAddr = none
    NodeFunds = 2
    SellerTokens = 2
    InitialBalance <- MCInitialBalance
    BPS_DENOMINATOR = 4
    MAX_PROTOCOL_FEE_BPS = 2
    MIN_BACKING_AGE = 0
    U64_MAX = 9
    MIN_DURATION = 1
    MAX_DURATION = 1
    MAX_QUEUE_DEPTH = 2
    I128_MAX = 100
    DepositAmounts = {2}
    WithdrawAmounts = {2}
    BidAmounts = {1, 2}
    ReduceAmounts = {2}
    SaleAmounts = {1}
    Fees = {2}
    MinDeposits = {0}
    FillCaps = {4}
    Timelocks = {0}
    Ceilings = {2}
    Discounts = {0}
    References = {2}
    Reserves = {1}
    Durations = {1}
    MaxExits = 2
    MaxTime = 2
SYMMETRY Symmetry
SPECIFICATION EventSpec
INVARIANTS
    SnapshotShowsExits
    SnapshotShowsLines
    SnapshotAddsUp
    ReportReadsHigh
