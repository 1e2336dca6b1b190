CONSTANTS
    Usdc = usdc
    Tokens <- MCTokens
    Nodes = {n1}
    Assets = {gold}
    Sellers = {s1, s2}
    Treasuries = {treasury}
    Payees <- MCPayees
    Holders <- MCHolders
    Admins = {admin}
    Auctions = {auction}
    Routers = {router}
    VaultAddr = vault
    RouterAddr = router
    NoAddr = none
    NodeFunds = 4
    SellerTokens = 2
    InitialBalance <- MCInitialBalance
    BPS_DENOMINATOR = 4
    MAX_PROTOCOL_FEE_BPS = 2
    MIN_BACKING_AGE = 0
    U64_MAX = 9
    DepositAmounts = {1, 4}
    WithdrawAmounts = {1}
    BidAmounts = {1, 3}
    ReduceAmounts = {1}
    SaleAmounts = {1, 2}
    Fees = {0, 2, 3}
    MinDeposits = {0}
    FillCaps = {4}
    Timelocks = {0}
    Ceilings = {4}
    Discounts = {1}
    MaxExits = 2
    MaxTime = 1
SYMMETRY Symmetry
SPECIFICATION RouterSpec
INVARIANTS
    EscrowBacked
PROPERTY DeliveryAgainstPayment
