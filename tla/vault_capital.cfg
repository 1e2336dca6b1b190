CONSTANTS
    Usdc = usdc
    Tokens <- MCTokens
    MaxExits = 0
    Nodes = {n1}
    Assets = {gold, iron}
    Payees = {seller}
    Holders <- MCHolders
    Admins = {admin}
    Auctions = {auction}
    Routers = {router}
    VaultAddr = vault
    NoAddr = none
    NodeFunds = 3
    VaultDust = 1
    InitialBalance <- MCInitialBalance
    BPS_DENOMINATOR = 4
    MIN_BACKING_AGE = 1
    U64_MAX = 9
    DepositAmounts = {0, 1, 2}
    WithdrawAmounts = {0, 1, 2}
    BidAmounts = {0, 1, 2}
    ReduceAmounts = {1}
    MinDeposits = {0}
    FillCaps = {3}
    Timelocks = {1, 9}
    Ceilings = {2}
    Discounts = {1}
    MaxTime = 3
SPECIFICATION FairMCSpec
INVARIANTS
    VaultTypeOK
    FreeBalanceCovered
    VaultSolvent
    WithdrawalPayable
    QuoteExact
PROPERTIES
    AgedBeforeCommit
    TimelockServed
    WithdrawalEnds
