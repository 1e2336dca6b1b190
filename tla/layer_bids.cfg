CONSTANTS
    Usdc = usdc
    Tokens <- MCTokens
    Nodes = {n1, n2}
    Assets = {gold}
    Sellers = {s1}
    Treasuries = {treasury}
    Payees <- MCPayees
    Holders <- MCHolders
    Admins = {admin}
    Auctions = {auction}
    Routers = {router}
    VaultAddr = vault
    RouterAddr = router
    AuctionAddr = auction
    NoAddr = none
    NodeFunds = 3
    SellerTokens = 2
    InitialBalance <- MCInitialBalance
    BPS_DENOMINATOR = 4
    MAX_PROTOCOL_FEE_BPS = 2
    MIN_BACKING_AGE = 0
    U64_MAX = 9
    MIN_DURATION = 1
    MAX_DURATION = 1
    MAX_QUEUE_DEPTH = 1
    I128_MAX = 100
    DepositAmounts = {3}
    WithdrawAmounts = {2}
    BidAmounts = {1, 3}
    ReduceAmounts = {}
    SaleAmounts = {1}
    Fees = {2}
    MinDeposits = {0}
    FillCaps = {4}
    Timelocks = {1}
    Ceilings = {3}
    Discounts = {0}
    References = {2}
    Reserves = {1}
    Durations = {1}
    MaxExits = 2
    MaxTime = 2
SYMMETRY Symmetry
SPECIFICATION MCSpec
INVARIANTS
    LayerTypeOK
    BidsBacked
    EscrowMatches
    QueueMatches
    OnlyFullLineBlocksClose
PROPERTIES
    CapitalLeavesByConsent
    QuotesAreFirm
    ImplementsMarket
