CONSTANTS
    Usdc = usdc
    Tokens <- MCTokens
    Nodes = {n1}
    Assets = {gold}
    Sellers = {s1}
    Treasuries = {treasury}
    Payees <- MCPayees
    Holders <- MCHolders
    Admins = {admin}
    Auctions = {auction}
    Routers = {router}
    VaultAddr = vault
    RouterAddr = router
    AuctionAddr = auction
    NoAddr = none
    NodeFunds = 4
    SellerTokens = 1
    InitialBalance <- MCInitialBalance
    BPS_DENOMINATOR = 4
    MAX_PROTOCOL_FEE_BPS = 2
    MIN_BACKING_AGE = 0
    U64_MAX = 9
    MIN_DURATION = 1
    MAX_DURATION = 1
    MAX_QUEUE_DEPTH = 2
    I128_MAX = 100
    DepositAmounts = {4}
    WithdrawAmounts = {}
    BidAmounts = {1, 2}
    ReduceAmounts = {1}
    SaleAmounts = {1}
    Fees = {0}
    MinDeposits = {0}
    FillCaps = {2}
    Timelocks = {1}
    Ceilings = {4}
    Discounts = {0}
    References = {2}
    Reserves = {2}
    Durations = {1}
    MaxExits = 1
    MaxTime = 2
SPECIFICATION MCSpec
INVARIANT CancelAlwaysPossible
