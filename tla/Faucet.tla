------------------------------- MODULE Faucet -------------------------------
(***************************************************************************)
(* The testnet faucet: it holds the mint of the test tokens and hands a    *)
(* fixed drip, once per cooldown, to whoever asks and signs.  Each call is *)
(* one transaction; a failed check or a failed mint reverts all of it,     *)
(* which is a disabled action here.  Timestamps start at 1: no ledger      *)
(* closes at the epoch, the value that stands for "never claimed".         *)
(***************************************************************************)
EXTENDS Integers, SequencesExt

CONSTANTS
    Users, Tokens, Admins,
    FaucetAddr,
    U64_MAX,            \* where saturating_add stops
    Drips, Cooldowns,   \* inputs enumerated
    MaxTime,            \* bound on the ledger's clock
    MaxBalance          \* bound on what one user is given of one token

ASSUME FaucetAssumption ==
    /\ FaucetAddr \notin Admins
    /\ U64_MAX \in Nat /\ MaxTime \in Nat \ {0} /\ MaxBalance \in Nat
    /\ Drips \subseteq Int /\ Cooldowns \subseteq 0 .. U64_MAX
    /\ MaxTime < U64_MAX

VARIABLES
    config,     \* DataKey::Config
    drips,      \* DataKey::Drip(token)
    tokens,     \* DataKey::Tokens
    last,       \* DataKey::Last(claimant, token)
    tokenAdmin, \* the admin each token contract answers to
    balance,    \* what the token contracts have minted for each user
    now

faucetVars == <<config, drips, tokens, last, tokenAdmin, balance, now>>
tokenVars == <<tokenAdmin, balance>>

FaucetConfigs == [stored : BOOLEAN, admin : Admins \cup {FaucetAddr}, cooldown : 0 .. U64_MAX]
NoFaucetConfig == [stored |-> FALSE, admin |-> FaucetAddr, cooldown |-> 0]

\* Types of the faucet's storage: drips and timestamps are never negative, and the
\* list that set_drip keeps of its tokens names each of them once.
FaucetTypeOK ==
    /\ config \in FaucetConfigs
    /\ drips \in [Tokens -> Nat]
    /\ tokens \in Seq(Tokens) /\ IsInjective(tokens)
    /\ last \in [Users -> [Tokens -> 0 .. MaxTime]]
    /\ tokenAdmin \in [Tokens -> Admins \cup {FaucetAddr}]
    /\ balance \in [Users -> [Tokens -> Nat]]
    /\ now \in 1 .. MaxTime

\* Mutant: the cooldown is added modulo 2^64.
wrapping_add(a, b) == (a + b) % (U64_MAX + 1)

saturating_add(a, b) == IF a + b > U64_MAX THEN U64_MAX ELSE a + b

-----------------------------------------------------------------------------
initialize(admin, cooldown) ==
    /\ ~config.stored
    /\ config' = [stored |-> TRUE, admin |-> admin, cooldown |-> cooldown]
    /\ tokens' = <<>>
    /\ UNCHANGED <<drips, last, tokenVars, now>>

AdminSigns(signer) == config.stored /\ config.admin = signer

Listed(token) == IF Contains(tokens, token) THEN tokens ELSE Append(tokens, token)

\* Mutant: closing the tap forgets who drank.
DripForgetsCooldown(signer, token, amount) ==
    /\ AdminSigns(signer)
    /\ amount >= 0
    /\ drips' = [drips EXCEPT ![token] = amount]
    /\ last' = [u \in Users |-> [last[u] EXCEPT ![token] = IF amount = 0 THEN 0 ELSE @]]
    /\ tokens' = Listed(token)
    /\ UNCHANGED <<config, tokenVars, now>>

set_drip(signer, token, amount) ==
    /\ AdminSigns(signer)
    /\ amount >= 0
    /\ drips' = [drips EXCEPT ![token] = amount]
    /\ tokens' = Listed(token)
    /\ UNCHANGED <<config, last, tokenVars, now>>

set_cooldown(signer, cooldown) ==
    /\ AdminSigns(signer)
    /\ config' = [config EXCEPT !.cooldown = cooldown]
    /\ UNCHANGED <<drips, tokens, last, tokenVars, now>>

set_token_admin(signer, token, new_admin) ==
    /\ AdminSigns(signer)
    /\ tokenAdmin[token] = FaucetAddr
    /\ tokenAdmin' = [tokenAdmin EXCEPT ![token] = new_admin]
    /\ UNCHANGED <<config, drips, tokens, last, balance, now>>

-----------------------------------------------------------------------------
(* Claiming.                                                               *)

\* Mutant: a second claim waits only until the second the first was made in is over.
WaitOneSecond(u, token) == last[u][token] # 0 => now > last[u][token]

CooldownOver(u, token) ==
    last[u][token] # 0 => now >= saturating_add(last[u][token], config.cooldown)

\* Mutant: a mint that fails leaves the rest of the claim standing.
mint_or_not(to, token, amount) ==
    balance' = IF tokenAdmin[token] = FaucetAddr /\ balance[to][token] + amount <= MaxBalance
               THEN [balance EXCEPT ![to][token] = @ + amount] ELSE balance

\* The token contract mints for its admin and nobody else.
mint(to, token, amount) ==
    /\ tokenAdmin[token] = FaucetAddr
    /\ balance[to][token] + amount <= MaxBalance
    /\ balance' = [balance EXCEPT ![to][token] = @ + amount]

claim(to, token) ==
    /\ config.stored
    /\ drips[token] > 0
    /\ CooldownOver(to, token)
    /\ last' = [last EXCEPT ![to][token] = now]
    /\ mint(to, token, drips[token])
    /\ UNCHANGED <<config, drips, tokens, tokenAdmin, now>>

\* The next_at of the Claimed event that a claim publishes now.
ClaimedNextAt == saturating_add(now, config.cooldown)

next_claim(u, token) ==
    LET next == saturating_add(last[u][token], config.cooldown) IN
    IF last[u][token] = 0 \/ now >= next THEN 0 ELSE next

-----------------------------------------------------------------------------
FaucetInit ==
    /\ config = NoFaucetConfig
    /\ drips = [t \in Tokens |-> 0]
    /\ tokens = <<>>
    /\ last = [u \in Users |-> [t \in Tokens |-> 0]]
    /\ tokenAdmin \in [Tokens -> Admins]
    /\ balance = [u \in Users |-> [t \in Tokens |-> 0]]
    /\ now = 1

\* Whoever holds a token's admin rights may give them to the faucet.
GiveMint(token) ==
    /\ tokenAdmin[token] # FaucetAddr
    /\ tokenAdmin' = [tokenAdmin EXCEPT ![token] = FaucetAddr]
    /\ UNCHANGED <<config, drips, tokens, last, balance, now>>

LedgerCloses ==
    /\ now < MaxTime
    /\ now' = now + 1
    /\ UNCHANGED <<config, drips, tokens, last, tokenVars>>

FaucetAdminCalls ==
    \/ \E a \in Admins, c \in Cooldowns : initialize(a, c) \/ set_cooldown(a, c)
    \/ \E a \in Admins, t \in Tokens, d \in Drips : set_drip(a, t, d)
    \/ \E a \in Admins, t \in Tokens, x \in Admins \cup {FaucetAddr} : set_token_admin(a, t, x)

FaucetNext ==
    \/ FaucetAdminCalls
    \/ \E u \in Users, t \in Tokens : claim(u, t)
    \/ \E t \in Tokens : GiveMint(t)
    \/ LedgerCloses

FaucetSpec == FaucetInit /\ [][FaucetNext]_faucetVars

-----------------------------------------------------------------------------
(* Properties.                                                             *)

\* A cooldown is spent only on a drip that arrived: whoever is on record as having
\* claimed a token has been given some of it, also when the faucet had meanwhile
\* handed the token's admin rights away and the mint failed inside the token.
CooldownBoughtSomething ==
    \A u \in Users, t \in Tokens : last[u][t] # 0 => balance[u][t] > 0

\* What the app can list is what can be claimed: a token whose drip is open is on the
\* list of tokens, and next_claim answers 0 exactly when a claim would go through as
\* far as the faucet itself is concerned.
AppSeesTheTap ==
    \A u \in Users, t \in Tokens :
        /\ drips[t] > 0 => Contains(tokens, t)
        /\ (/\ config.stored /\ drips[t] > 0 /\ tokenAdmin[t] = FaucetAddr
            /\ balance[u][t] + drips[t] <= MaxBalance)
           => ((next_claim(u, t) = 0) <=> ENABLED claim(u, t))
=============================================================================
