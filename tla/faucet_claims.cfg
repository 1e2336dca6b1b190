CONSTANTS
    Users = {u1}
    Tokens = {usdc, gold}
    Admins = {admin}
    FaucetAddr = faucet
    U64_MAX = 9
    Drips <- MCDrips
    Cooldowns = {0, 2, 8}
    MaxTime = 5
    MaxBalance = 3
SPECIFICATION MCSpec
INVARIANTS
    CooldownBoughtSomething
    AppSeesTheTap
    RateLimited
    PromiseKept
