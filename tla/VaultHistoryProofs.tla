------------------------- MODULE VaultHistoryProofs -------------------------
(***************************************************************************)
(* Proofs about the time that passes in the vault, for any number of nodes *)
(* and assets and any clock: backings age before capital is committed      *)
(* under them, and withdrawals serve their timelock.                       *)
(***************************************************************************)
EXTENDS MCLpVault, CustodyProofs

\* backed_at is when an active backing was last switched on.
AgesAreTrue ==
    \A n \in Nodes, a \in Assets :
        appetites[n][a].active => /\ appetites[n][a].stored
                                  /\ appetites[n][a].backed_at = armedSince[n][a]

\* A pending request unlocks one timelock after it was made.  The timelock is that of
\* the present, since no setter changes it.
UnlocksAreTrue ==
    \A n \in Nodes :
        withdrawals[n].stored =>
            /\ vaultConfig.stored
            /\ withdrawals[n].unlock_at = requestedAt[n] + vaultConfig.withdraw_timelock

\* The inductive invariant: the storage remembers what the history recorded.
HistoryInv ==
    /\ VaultInv
    /\ armedSince \in [Nodes -> [Assets -> Nat]]
    /\ requestedAt \in [Nodes -> Nat]
    /\ AgesAreTrue
    /\ UnlocksAreTrue

-----------------------------------------------------------------------------
(* What a step may do to one slot.                                         *)

\* To the terms of a node for an asset.
AppetiteStep(n, a) ==
    LET ap == appetites[n][a]  next == appetites'[n][a] IN
    \/ next = ap
    \/ /\ next.stored /\ next.exposure = ap.exposure
       /\ next.backed_at = BackedAt(ap, next.active)
    \/ /\ next.stored = ap.stored /\ next.active = ap.active /\ next.backed_at = ap.backed_at
       /\ \/ next.exposure <= ap.exposure
          \/ ap.active /\ now - ap.backed_at >= MIN_BACKING_AGE

\* To the pending request of a node, which keeps the configuration in place.
WithdrawalStep(n) ==
    \/ withdrawals'[n] = withdrawals[n]
    \/ ~withdrawals'[n].stored
    \/ /\ ~withdrawals[n].stored
       /\ vaultConfig.stored /\ vaultConfig' = vaultConfig
       /\ withdrawals'[n].unlock_at = now + vaultConfig.withdraw_timelock

\* set_appetite, reduce_exposure, commit and release write one slot; no other call
\* writes any.
LEMMA AppetitesStep ==
  ASSUME VaultInv, [VaultNext]_vaultVars, NEW n \in Nodes, NEW a \in Assets
  PROVE  AppetiteStep(n, a)
<1>0. /\ appetites \in [Nodes -> [Assets -> AppetiteStates]] /\ now \in Nat
      /\ MIN_BACKING_AGE \in Nat
  BY VaultAssumption DEF VaultInv, VaultTypeOK
<1>1. CASE UNCHANGED appetites
  BY <1>1 DEF AppetiteStep
<1>2. ASSUME NEW m \in Nodes, NEW b \in Assets, NEW c \in Ceilings, NEW d \in Discounts,
             NEW on \in BOOLEAN, set_appetite(m, b, c, d, on)
      PROVE  AppetiteStep(n, a)
  BY <1>0, <1>2 DEF set_appetite, AppetiteStep, AppetiteStates
<1>3. ASSUME NEW m \in Nodes, NEW b \in Assets, NEW amt \in Int, reduce_exposure(m, b, amt)
      PROVE  AppetiteStep(n, a)
  BY <1>0, <1>3 DEF reduce_exposure, AppetiteStep, AppetiteStates
<1>4. ASSUME NEW x, NEW m \in Nodes, NEW b \in Assets, NEW amt \in Int, NEW d \in Nat,
             commit(x, m, b, amt, d)
      PROVE  AppetiteStep(n, a)
  BY <1>0, <1>4 DEF commit, CommitAllowed, TermsAllow, AddExposure, AppetiteStep, AppetiteStates
<1>5. ASSUME NEW x, NEW m \in Nodes, NEW b \in Assets, NEW amt \in Int, release(x, m, b, amt)
      PROVE  AppetiteStep(n, a)
  BY <1>0, <1>5 DEF release, ReleaseAllowed, AddExposure, AppetiteStep, AppetiteStates
<1>6. CASE Tick \/ UNCHANGED vaultVars
  BY <1>1, <1>6 DEF Tick, vaultVars, vaultStorage
<1>7. CASE VaultAdminCalls
  BY <1>1, <1>7 DEF VaultAdminCalls, vault_initialize, vault_set_auction, vault_set_router,
         vault_set_admin, set_max_single_fill_bps
<1>8. CASE NodeCalls
  <2>1. PICK m \in Nodes :
          \/ \E amt \in DepositAmounts : deposit(m, amt)
          \/ \E amt \in WithdrawAmounts : request_withdrawal(m, amt)
          \/ cancel_withdrawal(m)
          \/ execute_withdrawal(m)
          \/ \E b \in Assets, c \in Ceilings, d \in Discounts, on \in BOOLEAN :
                set_appetite(m, b, c, d, on)
          \/ \E b \in Assets, amt \in ReduceAmounts : reduce_exposure(m, b, amt)
    BY <1>8 DEF NodeCalls
  <2>2. CASE \/ \E amt \in DepositAmounts : deposit(m, amt)
             \/ \E amt \in WithdrawAmounts : request_withdrawal(m, amt)
             \/ cancel_withdrawal(m) \/ execute_withdrawal(m)
    BY <1>1, <2>2 DEF deposit, request_withdrawal, cancel_withdrawal, execute_withdrawal
  <2>3. ReduceAmounts \subseteq Int
    BY VaultAssumption
  <2> QED BY <1>2, <1>3, <2>1, <2>2, <2>3
<1>9. CASE AuctionCalls
  <2>1. BidAmounts \subseteq Int /\ Discounts \subseteq Nat
    BY VaultAssumption
  <2> QED BY <1>4, <1>5, <1>9, <2>1 DEF AuctionCalls
<1>10. CASE RouterCalls
  BY <1>1, <1>10 DEF RouterCalls, pay_out
<1> QED BY <1>6, <1>7, <1>8, <1>9, <1>10 DEF VaultNext

\* request_withdrawal, cancel_withdrawal and execute_withdrawal write one slot, and only
\* initialize, once, the timelock.
LEMMA WithdrawalsStep ==
  ASSUME VaultInv, [VaultNext]_vaultVars, NEW n \in Nodes
  PROVE  /\ WithdrawalStep(n)
         /\ vaultConfig.stored =>
              /\ vaultConfig'.stored
              /\ vaultConfig'.withdraw_timelock = vaultConfig.withdraw_timelock
<1>0. /\ withdrawals \in [Nodes -> WithdrawRequests] /\ vaultConfig \in VaultConfigs
  BY DEF VaultInv, VaultTypeOK
<1> DEFINE Goal == /\ WithdrawalStep(n)
                   /\ vaultConfig.stored =>
                        /\ vaultConfig'.stored
                        /\ vaultConfig'.withdraw_timelock = vaultConfig.withdraw_timelock
<1>1. CASE UNCHANGED <<vaultConfig, withdrawals>>
  BY <1>1 DEF WithdrawalStep
<1>2. ASSUME NEW m \in Nodes, NEW amt, request_withdrawal(m, amt) PROVE Goal
  BY <1>0, <1>2 DEF request_withdrawal, WithdrawalStep, WithdrawRequests
<1>3. ASSUME NEW m \in Nodes, cancel_withdrawal(m) \/ execute_withdrawal(m) PROVE Goal
  BY <1>0, <1>3 DEF cancel_withdrawal, execute_withdrawal, WithdrawalStep, NoWithdrawal
<1>4. CASE Tick \/ UNCHANGED vaultVars
  BY <1>1, <1>4 DEF Tick, vaultVars, vaultStorage
<1>5. CASE VaultAdminCalls
  <2>1. UNCHANGED withdrawals
    BY <1>5 DEF VaultAdminCalls, vault_initialize, vault_set_auction, vault_set_router,
           vault_set_admin, set_max_single_fill_bps
  <2>2. vaultConfig.stored => /\ vaultConfig'.stored
                              /\ vaultConfig'.withdraw_timelock = vaultConfig.withdraw_timelock
    BY <1>0, <1>5 DEF VaultAdminCalls, vault_initialize, vault_set_auction, vault_set_router,
           vault_set_admin, set_max_single_fill_bps, VaultConfigs
  <2> QED BY <2>1, <2>2 DEF WithdrawalStep
<1>6. CASE NodeCalls
  <2>1. PICK m \in Nodes :
          \/ \E amt \in DepositAmounts : deposit(m, amt)
          \/ \E amt \in WithdrawAmounts : request_withdrawal(m, amt)
          \/ cancel_withdrawal(m)
          \/ execute_withdrawal(m)
          \/ \E b \in Assets, c \in Ceilings, d \in Discounts, on \in BOOLEAN :
                set_appetite(m, b, c, d, on)
          \/ \E b \in Assets, amt \in ReduceAmounts : reduce_exposure(m, b, amt)
    BY <1>6 DEF NodeCalls
  <2>2. CASE \/ \E amt \in DepositAmounts : deposit(m, amt)
             \/ \E b \in Assets, c \in Ceilings, d \in Discounts, on \in BOOLEAN :
                  set_appetite(m, b, c, d, on)
             \/ \E b \in Assets, amt \in ReduceAmounts : reduce_exposure(m, b, amt)
    BY <1>1, <2>2 DEF deposit, set_appetite, reduce_exposure
  <2> QED BY <1>2, <1>3, <2>1, <2>2
<1>7. CASE AuctionCalls \/ RouterCalls
  BY <1>1, <1>7 DEF AuctionCalls, RouterCalls, commit, release, pay_out
<1> QED BY <1>4, <1>5, <1>6, <1>7 DEF VaultNext

\* USDC reaches a node with a pending request only when that request is executed.
LEMMA NodesArePaidWhenDue ==
  ASSUME VaultInv, [VaultNext]_vaultVars, NEW n \in Nodes,
         balance'[Usdc][n] > balance[Usdc][n]
  PROVE  withdrawals[n].stored /\ now >= withdrawals[n].unlock_at
<1>0. /\ balance \in [Tokens -> [Holders -> Nat]] /\ Usdc \in Tokens
      /\ n \in Holders /\ Nodes \subseteq Holders /\ VaultAddr \in Holders /\ VaultAddr \notin Nodes
      /\ balance[Usdc][n] \in Nat
  BY VaultAssumption, TokenAssumption DEF VaultInv, VaultTypeOK, TokenTypeOK
<1>1. CASE UNCHANGED balance
  BY <1>0, <1>1
<1>2. ASSUME NEW to \in Holders, to # n, NEW from \in Holders, NEW amt \in Int, amt >= 0,
             balance' = Transfer(balance, Usdc, from, to, amt)
      PROVE  FALSE
  BY <1>0, <1>2 DEF Transfer
<1>3. ASSUME NEW m \in Nodes, NEW amt \in Int, deposit(m, amt) PROVE FALSE
  BY <1>0, <1>2, <1>3 DEF deposit
<1>4. ASSUME NEW m \in Nodes, execute_withdrawal(m)
      PROVE  withdrawals[n].stored /\ now >= withdrawals[n].unlock_at
  <2>1. withdrawals[m].amount \in Nat
    BY DEF VaultInv, VaultTypeOK, WithdrawRequests
  <2>2. m = n
    BY <1>0, <1>2, <1>4, <2>1 DEF execute_withdrawal
  <2> QED BY <1>4, <2>2 DEF execute_withdrawal
<1>5. ASSUME NEW x, NEW m \in Nodes, NEW a \in Assets, NEW to \in Payees, NEW amt \in Int,
             pay_out(x, m, a, to, amt)
      PROVE  FALSE
  <2>1. to \in Holders /\ to # n
    BY NodesAreNotPayees, VaultAssumption
  <2> QED BY <1>0, <1>2, <1>5, <2>1 DEF pay_out, PayOutAllowed
<1>6. CASE Tick \/ UNCHANGED vaultVars
  BY <1>1, <1>6 DEF Tick, vaultVars
<1>7. CASE VaultAdminCalls
  BY <1>1, <1>7 DEF VaultAdminCalls, vault_initialize, vault_set_auction, vault_set_router,
         vault_set_admin, set_max_single_fill_bps
<1>8. CASE NodeCalls
  <2>1. PICK m \in Nodes :
          \/ \E amt \in DepositAmounts : deposit(m, amt)
          \/ \E amt \in WithdrawAmounts : request_withdrawal(m, amt)
          \/ cancel_withdrawal(m)
          \/ execute_withdrawal(m)
          \/ \E a \in Assets, c \in Ceilings, d \in Discounts, on \in BOOLEAN :
                set_appetite(m, a, c, d, on)
          \/ \E a \in Assets, amt \in ReduceAmounts : reduce_exposure(m, a, amt)
    BY <1>8 DEF NodeCalls
  <2>2. CASE \/ \E amt \in WithdrawAmounts : request_withdrawal(m, amt)
             \/ cancel_withdrawal(m)
             \/ \E a \in Assets, c \in Ceilings, d \in Discounts, on \in BOOLEAN :
                  set_appetite(m, a, c, d, on)
             \/ \E a \in Assets, amt \in ReduceAmounts : reduce_exposure(m, a, amt)
    BY <1>1, <2>2 DEF request_withdrawal, cancel_withdrawal, set_appetite, reduce_exposure
  <2>3. DepositAmounts \subseteq Int
    BY VaultAssumption
  <2> QED BY <1>3, <1>4, <2>1, <2>2, <2>3
<1>9. CASE AuctionCalls
  BY <1>1, <1>9 DEF AuctionCalls, commit, release
<1>10. CASE RouterCalls
  <2>1. BidAmounts \subseteq Int
    BY VaultAssumption
  <2> QED BY <1>5, <1>10, <2>1 DEF RouterCalls
<1> QED BY <1>6, <1>7, <1>8, <1>9, <1>10 DEF VaultNext

-----------------------------------------------------------------------------
(* The invariant.                                                          *)

\* Nothing has happened yet.
LEMMA HistoryInvInit == MCInit => HistoryInv
<1> SUFFICES ASSUME MCInit PROVE HistoryInv
  OBVIOUS
<1>1. VaultInv
  BY VaultInvInit DEF MCInit
<1>2. AgesAreTrue /\ UnlocksAreTrue
  BY DEF MCInit, VaultInit, EmptyVault, AgesAreTrue, UnlocksAreTrue, NoAppetite, NoWithdrawal
<1> QED BY <1>1, <1>2 DEF MCInit, HistoryInv

\* A step of the vault with its history is a step of the vault.
LEMMA HistoryStepIsVaultStep == [MCNext]_mcVars => [VaultNext]_vaultVars
BY DEF MCNext, mcVars

\* Storage and history move together.
LEMMA HistoryInvStep == HistoryInv /\ [MCNext]_mcVars => HistoryInv'
<1> SUFFICES ASSUME HistoryInv, [MCNext]_mcVars PROVE HistoryInv'
  OBVIOUS
<1>0. VaultInv /\ VaultInv' /\ [VaultNext]_vaultVars
  BY HistoryStepIsVaultStep, VaultInvStep DEF HistoryInv
<1>1. CASE UNCHANGED mcVars
  BY <1>0, <1>1 DEF mcVars, vaultVars, vaultStorage, HistoryInv, AgesAreTrue, UnlocksAreTrue
<1>2. CASE MCNext
  <2>0. now \in Nat
    BY <1>0 DEF VaultInv, VaultTypeOK
  <2>1. armedSince' \in [Nodes -> [Assets -> Nat]] /\ requestedAt' \in [Nodes -> Nat]
    BY <1>2, <2>0 DEF MCNext, HistoryInv
  <2>2. AgesAreTrue'
    <3> SUFFICES ASSUME NEW n \in Nodes, NEW a \in Assets, appetites'[n][a].active
                 PROVE  /\ appetites'[n][a].stored
                        /\ appetites'[n][a].backed_at = armedSince'[n][a]
      BY DEF AgesAreTrue
    <3>1. AppetiteStep(n, a)
      BY <1>0, AppetitesStep
    <3>2. armedSince'[n][a] = IF appetites[n][a].active THEN armedSince[n][a] ELSE now
      BY <1>2 DEF MCNext, Rearmed
    <3>3. appetites[n][a].active => /\ appetites[n][a].stored
                                    /\ appetites[n][a].backed_at = armedSince[n][a]
      BY DEF HistoryInv, AgesAreTrue
    <3> QED BY <3>1, <3>2, <3>3 DEF AppetiteStep, BackedAt
  <2>3. UnlocksAreTrue'
    <3> SUFFICES ASSUME NEW n \in Nodes, withdrawals'[n].stored
                 PROVE  /\ vaultConfig'.stored
                        /\ withdrawals'[n].unlock_at
                             = requestedAt'[n] + vaultConfig'.withdraw_timelock
      BY DEF UnlocksAreTrue
    <3>1. /\ WithdrawalStep(n)
          /\ vaultConfig.stored =>
               /\ vaultConfig'.stored
               /\ vaultConfig'.withdraw_timelock = vaultConfig.withdraw_timelock
      BY <1>0, WithdrawalsStep
    <3>2. requestedAt'[n] = IF withdrawals[n].stored THEN requestedAt[n] ELSE now
      BY <1>2 DEF MCNext
    <3>3. withdrawals[n].stored =>
            /\ vaultConfig.stored
            /\ withdrawals[n].unlock_at = requestedAt[n] + vaultConfig.withdraw_timelock
      BY DEF HistoryInv, UnlocksAreTrue
    <3> QED BY <3>1, <3>2, <3>3 DEF WithdrawalStep
  <2> QED BY <1>0, <2>1, <2>2, <2>3 DEF HistoryInv
<1> QED BY <1>1, <1>2

\* The invariant holds in every reachable state.
LEMMA HistoryInvariance == MCSpec => []HistoryInv
BY HistoryInvInit, HistoryInvStep, PTL DEF MCSpec

-----------------------------------------------------------------------------
(* The properties.                                                         *)

\* For any number of nodes and assets, in every order of switching terms on and off,
\* of bids and of divestments, the exposure of a node grows only under a backing that
\* has been on for MIN_BACKING_AGE without a pause.
THEOREM BackingsAge == MCSpec => AgedBeforeCommit
<1> DEFINE Aged == \A n \in Nodes, a \in Assets :
          appetites'[n][a].exposure > appetites[n][a].exposure =>
              /\ appetites[n][a].active
              /\ now - armedSince[n][a] >= MIN_BACKING_AGE
<1>1. ASSUME HistoryInv, [MCNext]_mcVars PROVE Aged
  <2> SUFFICES ASSUME NEW n \in Nodes, NEW a \in Assets,
                      appetites'[n][a].exposure > appetites[n][a].exposure
               PROVE  /\ appetites[n][a].active
                      /\ now - armedSince[n][a] >= MIN_BACKING_AGE
    OBVIOUS
  <2>1. VaultInv /\ [VaultNext]_vaultVars
    BY <1>1, HistoryStepIsVaultStep DEF HistoryInv
  <2>2. AppetiteStep(n, a)
    BY <2>1, AppetitesStep
  <2>3. /\ appetites[n][a].exposure \in Nat /\ appetites'[n][a].exposure \in Nat
    BY <2>1, VaultInvStep DEF VaultInv, VaultTypeOK, AppetiteStates
  <2>4. appetites[n][a].active /\ now - appetites[n][a].backed_at >= MIN_BACKING_AGE
    BY <2>2, <2>3 DEF AppetiteStep
  <2> QED BY <1>1, <2>4 DEF HistoryInv, AgesAreTrue
<1>2. HistoryInv /\ [MCNext]_mcVars => [Aged]_mcVars
  BY <1>1
<1> QED BY <1>2, HistoryInvariance, PTL DEF MCSpec, AgedBeforeCommit

\* For any number of nodes and every timelock, up to those whose end a u64 cannot hold, no
\* USDC of a pending request is back with its node before the timelock has passed since
\* the request, whatever the admin, the auction and the router do meanwhile.
THEOREM TimelocksAreServed == MCSpec => TimelockServed
<1> DEFINE Served == \A n \in Nodes :
          (withdrawals[n].stored /\ balance'[Usdc][n] > balance[Usdc][n])
            => now - requestedAt[n] >= vaultConfig.withdraw_timelock
<1>1. ASSUME HistoryInv, [MCNext]_mcVars PROVE Served
  <2> SUFFICES ASSUME NEW n \in Nodes, withdrawals[n].stored,
                      balance'[Usdc][n] > balance[Usdc][n]
               PROVE  now - requestedAt[n] >= vaultConfig.withdraw_timelock
    OBVIOUS
  <2>1. VaultInv /\ [VaultNext]_vaultVars
    BY <1>1, HistoryStepIsVaultStep DEF HistoryInv
  <2>2. now >= withdrawals[n].unlock_at
    BY <2>1, NodesArePaidWhenDue
  <2>3. withdrawals[n].unlock_at = requestedAt[n] + vaultConfig.withdraw_timelock
    BY <1>1 DEF HistoryInv, UnlocksAreTrue
  <2>4. now \in Nat /\ requestedAt[n] \in Nat /\ vaultConfig.withdraw_timelock \in Nat
    BY <1>1 DEF HistoryInv, VaultInv, VaultTypeOK, VaultConfigs
  <2> QED BY <2>2, <2>3, <2>4
<1>2. HistoryInv /\ [MCNext]_mcVars => [Served]_mcVars
  BY <1>1
<1> QED BY <1>2, HistoryInvariance, PTL DEF MCSpec, TimelockServed
=============================================================================
