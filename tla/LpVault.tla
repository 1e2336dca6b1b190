------------------------------ MODULE LpVault -------------------------------
(***************************************************************************)
(* The lp_vault contract: the USDC of the Liquidity Nodes, the part of it  *)
(* locked behind live bids, withdrawals under a timelock, and the standing *)
(* terms (appetite) a node declares for an asset.                          *)
(*                                                                         *)
(* A contract call is atomic and a failing call reverts, so an action is   *)
(* enabled exactly when the call returns Ok.  VaultSpec leaves the auction *)
(* and the router free to make any call at any time: what holds in it      *)
(* holds whatever those contracts do.                                      *)
(***************************************************************************)
EXTENDS Token

CONSTANTS
    Nodes,
    Payees,             \* where pay_out may send USDC
    VaultAddr,
    MIN_BACKING_AGE,
    U64_MAX,            \* where the checked u64 addition panics
    \* The inputs enumerated for each parameter.
    DepositAmounts, WithdrawAmounts, BidAmounts, ReduceAmounts,
    MinDeposits, FillCaps, Timelocks, Ceilings, Discounts,
    MaxTime             \* bound on the ledger clock

ASSUME VaultAssumption ==
    /\ IsFiniteSet(Nodes) /\ Nodes \subseteq Holders /\ Payees \subseteq Holders
    /\ VaultAddr \in Holders \ Nodes
    /\ MIN_BACKING_AGE \in Nat /\ U64_MAX \in Nat
    /\ DepositAmounts \subseteq Int /\ WithdrawAmounts \subseteq Int
    /\ BidAmounts \subseteq Int /\ ReduceAmounts \subseteq Int
    /\ MinDeposits \subseteq Int /\ Ceilings \subseteq Int
    /\ FillCaps \subseteq Nat /\ Timelocks \subseteq Nat /\ Discounts \subseteq Nat
    /\ MaxTime \in Nat

VARIABLES
    vaultConfig,    \* DataKey::Config
    nodes,          \* DataKey::Node(node)
    appetites,      \* DataKey::Appetite(node, asset)
    withdrawals,    \* DataKey::Withdrawal(node)
    now             \* ledger timestamp

vaultStorage == <<vaultConfig, nodes, appetites, withdrawals>>
vaultVars == <<vaultStorage, balance, now>>

-----------------------------------------------------------------------------
(* Storage.  A slot carries a flag that says whether it is occupied.       *)

VaultConfigs ==
    [stored : BOOLEAN, admin : Admins \cup {NoAddr}, auction : Auctions \cup {NoAddr},
     router : Routers \cup {NoAddr}, min_deposit : Nat,
     max_single_fill_bps : 0 .. BPS_DENOMINATOR, withdraw_timelock : Nat]
NodeStates == [stored : BOOLEAN, deposited : Nat, committed : Nat, filled : Nat]
AppetiteStates ==
    [stored : BOOLEAN, max_exposure : Nat, exposure : Nat,
     min_discount_bps : Nat, active : BOOLEAN, backed_at : Nat]
WithdrawRequests == [stored : BOOLEAN, amount : Nat, unlock_at : Nat]

NoVaultConfig ==
    [stored |-> FALSE, admin |-> NoAddr, auction |-> NoAddr, router |-> NoAddr,
     min_deposit |-> 0, max_single_fill_bps |-> 0, withdraw_timelock |-> 0]
\* Also the node that a first deposit starts from.
NoNode == [stored |-> FALSE, deposited |-> 0, committed |-> 0, filled |-> 0]
NoAppetite ==
    [stored |-> FALSE, max_exposure |-> 0, exposure |-> 0,
     min_discount_bps |-> 0, active |-> FALSE, backed_at |-> 0]
NoWithdrawal == [stored |-> FALSE, amount |-> 0, unlock_at |-> 0]

\* Types of the vault's storage: the i128 amounts that deposit, commit, release and
\* pay_out add to and subtract from never go negative, and the fill cap stays a
\* fraction.
VaultTypeOK ==
    /\ TokenTypeOK
    /\ vaultConfig \in VaultConfigs
    /\ nodes \in [Nodes -> NodeStates]
    /\ appetites \in [Nodes -> [Assets -> AppetiteStates]]
    /\ withdrawals \in [Nodes -> WithdrawRequests]
    /\ now \in Nat

\* NoWithdrawal has amount 0: read_withdrawal(..).map(|w| w.amount).unwrap_or(0).
reserved(n) == withdrawals[n].amount

Free(n) == nodes[n].deposited - nodes[n].committed - reserved(n)

single_fill_cap(n) ==
    (nodes[n].deposited * vaultConfig.max_single_fill_bps) \div BPS_DENOMINATOR

-----------------------------------------------------------------------------
(* Lifecycle.                                                              *)

vault_initialize(admin, min_deposit, cap, timelock) ==
    /\ ~vaultConfig.stored
    /\ min_deposit >= 0
    /\ cap # 0 /\ cap <= BPS_DENOMINATOR
    /\ vaultConfig' =
         [stored |-> TRUE, admin |-> admin, auction |-> NoAddr, router |-> NoAddr,
          min_deposit |-> min_deposit, max_single_fill_bps |-> cap,
          withdraw_timelock |-> timelock]
    /\ UNCHANGED <<nodes, appetites, withdrawals, balance, now>>

\* What every setter requires: a stored configuration and its admin's signature.
VaultAdminSigns(signer) == vaultConfig.stored /\ vaultConfig.admin = signer

vault_set_auction(signer, auction) ==
    /\ VaultAdminSigns(signer)
    /\ vaultConfig' = [vaultConfig EXCEPT !.auction = auction]
    /\ UNCHANGED <<nodes, appetites, withdrawals, balance, now>>

vault_set_router(signer, router) ==
    /\ VaultAdminSigns(signer)
    /\ vaultConfig' = [vaultConfig EXCEPT !.router = router]
    /\ UNCHANGED <<nodes, appetites, withdrawals, balance, now>>

vault_set_admin(signer, new_admin) ==
    /\ VaultAdminSigns(signer)
    /\ vaultConfig' = [vaultConfig EXCEPT !.admin = new_admin]
    /\ UNCHANGED <<nodes, appetites, withdrawals, balance, now>>

set_max_single_fill_bps(signer, bps) ==
    /\ VaultAdminSigns(signer)
    /\ bps # 0 /\ bps <= BPS_DENOMINATOR
    /\ vaultConfig' = [vaultConfig EXCEPT !.max_single_fill_bps = bps]
    /\ UNCHANGED <<nodes, appetites, withdrawals, balance, now>>

-----------------------------------------------------------------------------
(* Node capital.  Each call is signed by the node it names.                *)

deposit(n, amount) ==
    /\ vaultConfig.stored
    /\ amount > 0
    /\ nodes[n].deposited = 0 => amount >= vaultConfig.min_deposit
    /\ CanTransfer(balance, Usdc, n, amount)
    /\ balance' = Transfer(balance, Usdc, n, VaultAddr, amount)
    /\ nodes' = [nodes EXCEPT ![n].stored = TRUE, ![n].deposited = @ + amount]
    /\ UNCHANGED <<vaultConfig, appetites, withdrawals, now>>

\* Mutant: capital locked behind bids can be requested too.
RequestIgnoresCommitted(n, amount) ==
    /\ vaultConfig.stored
    /\ amount > 0
    /\ ~withdrawals[n].stored
    /\ nodes[n].stored
    /\ nodes[n].deposited >= amount
    /\ withdrawals' = [withdrawals EXCEPT ![n] =
         [stored |-> TRUE, amount |-> amount,
          unlock_at |-> now + vaultConfig.withdraw_timelock]]
    /\ UNCHANGED <<vaultConfig, nodes, appetites, balance, now>>

\* Mutant: the end of the timelock wraps around.
RequestWraps(n, amount) ==
    /\ vaultConfig.stored
    /\ amount > 0
    /\ ~withdrawals[n].stored
    /\ nodes[n].stored
    /\ nodes[n].deposited - nodes[n].committed >= amount
    /\ withdrawals' = [withdrawals EXCEPT ![n] =
         [stored |-> TRUE, amount |-> amount,
          unlock_at |-> (now + vaultConfig.withdraw_timelock) % (U64_MAX + 1)]]
    /\ UNCHANGED <<vaultConfig, nodes, appetites, balance, now>>

request_withdrawal(n, amount) ==
    /\ vaultConfig.stored
    /\ amount > 0
    /\ ~withdrawals[n].stored
    /\ nodes[n].stored
    /\ nodes[n].deposited - nodes[n].committed >= amount
    /\ now + vaultConfig.withdraw_timelock <= U64_MAX
    /\ withdrawals' = [withdrawals EXCEPT ![n] =
         [stored |-> TRUE, amount |-> amount,
          unlock_at |-> now + vaultConfig.withdraw_timelock]]
    /\ UNCHANGED <<vaultConfig, nodes, appetites, balance, now>>

cancel_withdrawal(n) ==
    /\ vaultConfig.stored
    /\ withdrawals[n].stored
    /\ withdrawals' = [withdrawals EXCEPT ![n] = NoWithdrawal]
    /\ UNCHANGED <<vaultConfig, nodes, appetites, balance, now>>

\* Mutant: the timelock is not checked.
ExecuteEarly(n) ==
    LET amount == withdrawals[n].amount IN
    /\ vaultConfig.stored
    /\ withdrawals[n].stored
    /\ nodes[n].stored
    /\ nodes[n].deposited - nodes[n].committed >= amount
    /\ CanTransfer(balance, Usdc, VaultAddr, amount)
    /\ nodes' = [nodes EXCEPT ![n].deposited = @ - amount]
    /\ withdrawals' = [withdrawals EXCEPT ![n] = NoWithdrawal]
    /\ balance' = Transfer(balance, Usdc, VaultAddr, n, amount)
    /\ UNCHANGED <<vaultConfig, appetites, now>>

execute_withdrawal(n) ==
    LET amount == withdrawals[n].amount IN
    /\ vaultConfig.stored
    /\ withdrawals[n].stored
    /\ now >= withdrawals[n].unlock_at
    /\ nodes[n].stored
    /\ nodes[n].deposited - nodes[n].committed >= amount
    /\ CanTransfer(balance, Usdc, VaultAddr, amount)
    /\ nodes' = [nodes EXCEPT ![n].deposited = @ - amount]
    /\ withdrawals' = [withdrawals EXCEPT ![n] = NoWithdrawal]
    /\ balance' = Transfer(balance, Usdc, VaultAddr, n, amount)
    /\ UNCHANGED <<vaultConfig, appetites, now>>

-----------------------------------------------------------------------------
(* Appetite.                                                               *)

\* Mutant: re-arming keeps the age of the first backing.
KeepBackedAt(prev, active) == IF prev.stored THEN prev.backed_at ELSE now

\* Re-arming restarts the age of a backing; changing a live one does not.
BackedAt(prev, active) ==
    IF prev.stored /\ prev.active /\ active THEN prev.backed_at ELSE now

set_appetite(n, a, max_exposure, min_discount_bps, active) ==
    /\ vaultConfig.stored
    /\ max_exposure >= 0
    /\ min_discount_bps < BPS_DENOMINATOR
    /\ nodes[n].stored
    /\ appetites' = [appetites EXCEPT ![n][a] =
         [stored |-> TRUE, max_exposure |-> max_exposure, exposure |-> @.exposure,
          min_discount_bps |-> min_discount_bps, active |-> active,
          backed_at |-> BackedAt(@, active)]]
    /\ UNCHANGED <<vaultConfig, nodes, withdrawals, balance, now>>

reduce_exposure(n, a, amount) ==
    /\ vaultConfig.stored
    /\ amount > 0
    /\ appetites[n][a].stored
    /\ appetites' = [appetites EXCEPT ![n][a].exposure =
                        IF amount > @ THEN 0 ELSE @ - amount]
    /\ UNCHANGED <<vaultConfig, nodes, withdrawals, balance, now>>

-----------------------------------------------------------------------------
(* The hooks of the auction and the router.  The conditions and the new    *)
(* contents of the storage are operators on the storage as a value, since  *)
(* one call of the auction or of the router can make several of them.      *)

LockCapital(ns, n, amount) == [ns EXCEPT ![n].committed = @ + amount]
AddExposure(aps, n, a, amount) == [aps EXCEPT ![n][a].exposure = @ + amount]

\* The terms of the node that commit checks before it looks at the amount.
TermsAllow(ap, discount_bps) ==
    /\ ap.active
    /\ now - ap.backed_at >= MIN_BACKING_AGE
    /\ discount_bps >= ap.min_discount_bps

\* Mutant: the amount reserved for a withdrawal counts as free.
CommitIgnoresReserved(n, a, amount, discount_bps) ==
    /\ amount > 0
    /\ nodes[n].stored
    /\ appetites[n][a].stored
    /\ TermsAllow(appetites[n][a], discount_bps)
    /\ nodes[n].deposited - nodes[n].committed >= amount
    /\ appetites[n][a].exposure + amount <= appetites[n][a].max_exposure
    /\ amount <= single_fill_cap(n)

CommitAllowed(n, a, amount, discount_bps) ==
    /\ amount > 0
    /\ nodes[n].stored
    /\ appetites[n][a].stored
    /\ TermsAllow(appetites[n][a], discount_bps)
    /\ Free(n) >= amount
    /\ appetites[n][a].exposure + amount <= appetites[n][a].max_exposure
    /\ amount <= single_fill_cap(n)

\* Mutant: the exposure is not checked before it is reduced.
ReleaseUnchecked(ns, aps, n, a, amount) ==
    /\ amount > 0
    /\ ns[n].stored
    /\ aps[n][a].stored
    /\ ns[n].committed >= amount

ReleaseAllowed(ns, aps, n, a, amount) ==
    /\ amount > 0
    /\ ns[n].stored
    /\ aps[n][a].stored
    /\ ns[n].committed >= amount
    /\ aps[n][a].exposure >= amount

PayOutAllowed(ns, n, a, amount) ==
    /\ amount > 0
    /\ ns[n].stored
    /\ appetites[n][a].stored
    /\ ns[n].committed >= amount
    /\ ns[n].deposited >= amount

\* Mutant: a payout consumes the commitment and leaves the deposit.
PayKeepsDeposit(ns, n, amount) ==
    [ns EXCEPT ![n].committed = @ - amount, ![n].filled = @ + amount]

PayFromCommitted(ns, n, amount) ==
    [ns EXCEPT ![n].committed = @ - amount, ![n].deposited = @ - amount,
               ![n].filled = @ + amount]

\* auction.require_auth() and router.require_auth(): the wired contract calls.
FromAuction(caller) == vaultConfig.stored /\ vaultConfig.auction = caller
FromRouter(caller) == vaultConfig.stored /\ vaultConfig.router = caller

commit(caller, n, a, amount, discount_bps) ==
    /\ FromAuction(caller)
    /\ CommitAllowed(n, a, amount, discount_bps)
    /\ nodes' = LockCapital(nodes, n, amount)
    /\ appetites' = AddExposure(appetites, n, a, amount)
    /\ UNCHANGED <<vaultConfig, withdrawals, balance, now>>

release(caller, n, a, amount) ==
    /\ FromAuction(caller)
    /\ ReleaseAllowed(nodes, appetites, n, a, amount)
    /\ nodes' = LockCapital(nodes, n, -amount)
    /\ appetites' = AddExposure(appetites, n, a, -amount)
    /\ UNCHANGED <<vaultConfig, withdrawals, balance, now>>

pay_out(caller, n, a, to, amount) ==
    /\ FromRouter(caller)
    /\ PayOutAllowed(nodes, n, a, amount)
    /\ CanTransfer(balance, Usdc, VaultAddr, amount)
    /\ nodes' = PayFromCommitted(nodes, n, amount)
    /\ balance' = Transfer(balance, Usdc, VaultAddr, to, amount)
    /\ UNCHANGED <<vaultConfig, appetites, withdrawals, now>>

-----------------------------------------------------------------------------
(* Queries that decide something off-chain.                                *)

free_balance(n) == IF ~nodes[n].stored \/ Free(n) < 0 THEN 0 ELSE Free(n)

Least(x, y) == IF x < y THEN x ELSE y

\* Mutant: the quote leaves out the cap on a single fill.
QuoteWithoutCap(n, a, discount_bps) ==
    LET ap == appetites[n][a]
        capacity == Least(ap.max_exposure - ap.exposure, Free(n))
    IN  IF /\ vaultConfig.stored /\ nodes[n].stored /\ ap.stored
           /\ TermsAllow(ap, discount_bps)
           /\ capacity >= 0
        THEN capacity
        ELSE 0

quote_capacity(n, a, discount_bps) ==
    LET ap == appetites[n][a]
        capacity == Least(single_fill_cap(n),
                          Least(ap.max_exposure - ap.exposure, Free(n)))
    IN  IF /\ vaultConfig.stored /\ nodes[n].stored /\ ap.stored
           /\ TermsAllow(ap, discount_bps)
           /\ capacity >= 0
        THEN capacity
        ELSE 0

-----------------------------------------------------------------------------
(* The vault on its own.                                                   *)

EmptyVault ==
    /\ nodes = [n \in Nodes |-> NoNode]
    /\ appetites = [n \in Nodes |-> [a \in Assets |-> NoAppetite]]
    /\ withdrawals = [n \in Nodes |-> NoWithdrawal]
    /\ now = 0

VaultInit == TokenInit /\ vaultConfig = NoVaultConfig /\ EmptyVault

\* A ledger closes.
Tick ==
    /\ now < MaxTime
    /\ now' = now + 1
    /\ UNCHANGED <<vaultStorage, balance>>

VaultAdminCalls ==
    \/ \E admin \in Admins, m \in MinDeposits, c \in FillCaps, t \in Timelocks :
          vault_initialize(admin, m, c, t)
    \/ \E s \in Admins : \/ \E x \in Auctions : vault_set_auction(s, x)
                         \/ \E x \in Routers : vault_set_router(s, x)
                         \/ \E x \in Admins : vault_set_admin(s, x)
                         \/ \E c \in FillCaps : set_max_single_fill_bps(s, c)

NodeCalls ==
    \E n \in Nodes :
        \/ \E amt \in DepositAmounts : deposit(n, amt)
        \/ \E amt \in WithdrawAmounts : request_withdrawal(n, amt)
        \/ cancel_withdrawal(n)
        \/ execute_withdrawal(n)
        \/ \E a \in Assets, m \in Ceilings, d \in Discounts, on \in BOOLEAN :
              set_appetite(n, a, m, d, on)
        \/ \E a \in Assets, amt \in ReduceAmounts : reduce_exposure(n, a, amt)

AuctionCalls ==
    \E x \in Auctions, n \in Nodes, a \in Assets, amt \in BidAmounts :
        \/ \E d \in Discounts : commit(x, n, a, amt, d)
        \/ release(x, n, a, amt)

RouterCalls ==
    \E x \in Routers, n \in Nodes, a \in Assets, to \in Payees, amt \in BidAmounts :
        pay_out(x, n, a, to, amt)

VaultNext == Tick \/ VaultAdminCalls \/ NodeCalls \/ AuctionCalls \/ RouterCalls

VaultSpec == VaultInit /\ [][VaultNext]_vaultVars

-----------------------------------------------------------------------------
(* Properties.                                                             *)

\* Free balance is never overdrawn: deposited splits exactly into what live bids
\* lock, what a pending withdrawal reserves and what free_balance reports, whose
\* clamp at zero is never needed.  request_withdrawal checks its amount against
\* deposited - committed only, commit against deposited - committed - reserved, in
\* any order.
FreeBalanceCovered ==
    \A n \in Nodes :
        nodes[n].deposited = nodes[n].committed + reserved(n) + free_balance(n)

\* The vault is solvent: the USDC the contract holds covers the deposits of all
\* nodes together, so no node's withdrawal or payout spends another's capital.
VaultSolvent ==
    balance[Usdc][VaultAddr] >= Total([n \in Nodes |-> nodes[n].deposited])

\* What the slots of one node say of each other.  Part of the inductive invariant:
\* a node that has not joined has nothing, and a pending request asks for something.
SlotsConsistent ==
    \A n \in Nodes : /\ ~nodes[n].stored => nodes[n].deposited = 0
                     /\ withdrawals[n].stored => withdrawals[n].amount > 0

\* quote_capacity is exactly what commit would take: an amount is accepted if and
\* only if it lies between 1 and the quote.  The two are separate copies of the
\* same conditions in the code.
QuoteExact ==
    vaultConfig.stored =>
        \A n \in Nodes, a \in Assets, amt \in BidAmounts, d \in Discounts :
            CommitAllowed(n, a, amt, d) <=> amt \in 1 .. quote_capacity(n, a, d)

\* Nothing but time and the node itself stands between a node and a withdrawal it
\* requested: the second check of execute_withdrawal, and the transfer, succeed.
WithdrawalPayable ==
    \A n \in Nodes : withdrawals[n].stored =>
        /\ nodes[n].stored
        /\ nodes[n].deposited - nodes[n].committed >= withdrawals[n].amount
        /\ CanTransfer(balance, Usdc, VaultAddr, withdrawals[n].amount)
=============================================================================
