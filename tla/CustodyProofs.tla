--------------------------- MODULE CustodyProofs ----------------------------
(***************************************************************************)
(* Proofs about what vault and router hold for others.  First the vault on *)
(* its own: for any number of nodes and assets, any amounts, and an        *)
(* auction and a router that call it as they please.  Then the router over *)
(* the vault it pays from: any number of exits and sellers, and an auction *)
(* that escrows, settles in parts and refunds as it pleases.               *)
(***************************************************************************)
EXTENDS SettlementRouter, FiniteSetTheorems, TLAPS

-----------------------------------------------------------------------------
(* The vault.                                                              *)

Deposits(ns) == [n \in Nodes |-> ns[n].deposited]

\* Free balance, without the clamp of free_balance.
Covered == \A n \in Nodes : nodes[n].committed + withdrawals[n].amount <= nodes[n].deposited

\* The inductive invariant.  Covered and VaultSolvent need each other: a payout or
\* a withdrawal leaves the vault solvent because it takes no more than the node has
\* deposited, and the transfer succeeds because the vault is solvent.
VaultInv ==
    /\ VaultTypeOK
    /\ Covered
    /\ VaultSolvent
    /\ SlotsConsistent

-----------------------------------------------------------------------------
(* Sums.  Total is a natural number, it is zero for the zero function, no  *)
(* value exceeds it, and an update of the function at one point moves it   *)
(* by the difference.                                                      *)

\* The units of one point.
UnitsAt(f, x) == {x} \X (1 .. f[x])

\* A point with value k has k units.
LEMMA UnitsAtFinite ==
  ASSUME NEW x, NEW k \in Nat
  PROVE  /\ IsFiniteSet({x} \X (1 .. k))
         /\ Cardinality({x} \X (1 .. k)) = k
<1>1. IsFiniteSet({x}) /\ Cardinality({x}) = 1
  BY FS_Singleton
<1>2. IsFiniteSet(1 .. k) /\ Cardinality(1 .. k) = k
  BY FS_Interval
<1>3. /\ IsFiniteSet({x} \X (1 .. k))
      /\ Cardinality({x} \X (1 .. k)) = Cardinality({x}) * Cardinality(1 .. k)
  BY <1>1, <1>2, FS_Product, Zenon
<1>4. 1 * k = k
  OBVIOUS
<1> QED BY <1>1, <1>2, <1>3, <1>4, Zenon

\* A finite domain has finitely many units.
LEMMA UnitsFinite ==
  ASSUME NEW S, IsFiniteSet(S), NEW f \in [S -> Nat]
  PROVE  IsFiniteSet(Units(f))
<1> DEFINE T == {UnitsAt(f, x) : x \in S}
           g == [x \in S |-> UnitsAt(f, x)]
<1>1. g \in Surjection(S, T)
  BY DEF Surjection
<1>2. IsFiniteSet(T)
  BY <1>1, FS_Surjection
<1>3. \A U \in T : IsFiniteSet(U)
  <2>1. SUFFICES ASSUME NEW x \in S PROVE IsFiniteSet(UnitsAt(f, x))
    OBVIOUS
  <2>2. f[x] \in Nat
    OBVIOUS
  <2> QED BY <2>2, UnitsAtFinite, Zenon DEF UnitsAt
<1>4. IsFiniteSet(UNION T)
  BY <1>2, <1>3, FS_UNION
<1>5. Units(f) = UNION T
  BY DEF Units, UnitsAt
<1> QED BY <1>4, <1>5

\* The sum is a natural number.
LEMMA TotalType ==
  ASSUME NEW S, IsFiniteSet(S), NEW f \in [S -> Nat]
  PROVE  Total(f) \in Nat
BY UnitsFinite, FS_CardinalityType DEF Total

\* The sum of zeros is zero.
LEMMA TotalZero ==
  ASSUME NEW S, NEW f \in [S -> Nat], \A x \in S : f[x] = 0
  PROVE  Total(f) = 0
<1>1. Units(f) = {}
  BY DEF Units
<1> QED BY <1>1, FS_EmptySet DEF Total

\* Taking the units of one point away leaves as many as the others have.
LEMMA TotalSplit ==
  ASSUME NEW S, IsFiniteSet(S), NEW f \in [S -> Nat], NEW x \in S
  PROVE  /\ IsFiniteSet(Units(f) \ UnitsAt(f, x))
         /\ Cardinality(Units(f) \ UnitsAt(f, x)) = Total(f) - f[x]
<1>1. IsFiniteSet(Units(f))
  BY UnitsFinite
<1>2. Units(f) \cap UnitsAt(f, x) = UnitsAt(f, x)
  BY DEF Units, UnitsAt
<1>3. f[x] \in Nat
  OBVIOUS
<1>4. Cardinality(UnitsAt(f, x)) = f[x]
  BY <1>3, UnitsAtFinite DEF UnitsAt
<1>5. /\ IsFiniteSet(Units(f) \ UnitsAt(f, x))
      /\ Cardinality(Units(f) \ UnitsAt(f, x)) =
            Cardinality(Units(f)) - Cardinality(Units(f) \cap UnitsAt(f, x))
  BY <1>1, FS_Difference, Zenon
<1> QED BY <1>2, <1>4, <1>5, Zenon DEF Total

\* No value exceeds the sum.
LEMMA TotalBounds ==
  ASSUME NEW S, IsFiniteSet(S), NEW f \in [S -> Nat], NEW x \in S
  PROVE  f[x] <= Total(f)
<1>1. Cardinality(Units(f) \ UnitsAt(f, x)) \in Nat
  BY TotalSplit, FS_CardinalityType
<1>2. Total(f) \in Nat
  BY TotalType
<1> QED BY <1>1, <1>2, TotalSplit

\* The one fact about sums: f and g agree except at x.
LEMMA TotalChange ==
  ASSUME NEW S, IsFiniteSet(S), NEW x \in S,
         NEW f \in [S -> Nat], NEW g \in [S -> Nat],
         \A y \in S : y # x => g[y] = f[y]
  PROVE  Total(g) = Total(f) - f[x] + g[x]
<1>1. Units(f) \ UnitsAt(f, x) = Units(g) \ UnitsAt(g, x)
  <2> DEFINE Rest(h) == UNION {UnitsAt(h, y) : y \in S \ {x}}
  <2>1. ASSUME NEW h \in [S -> Nat]
        PROVE  Units(h) \ UnitsAt(h, x) = Rest(h)
    BY DEF Units, UnitsAt
  <2>2. \A y \in S \ {x} : UnitsAt(f, y) = UnitsAt(g, y)
    BY DEF UnitsAt
  <2>3. Rest(f) = Rest(g)
    BY <2>2
  <2> QED BY <2>1, <2>3
<1>2. Total(f) \in Nat /\ Total(g) \in Nat
  BY TotalType
<1>3. Total(f) - f[x] = Total(g) - g[x]
  BY <1>1, TotalSplit
<1> QED BY <1>2, <1>3

-----------------------------------------------------------------------------
(* Transfers.                                                              *)

\* What a transfer that the token accepts does to the two balances it touches.
LEMMA TransferEffect ==
  ASSUME NEW b \in [Tokens -> [Holders -> Nat]], NEW t \in Tokens,
         NEW from \in Holders, NEW to \in Holders, NEW amount \in Nat,
         CanTransfer(b, t, from, amount)
  PROVE  LET c == Transfer(b, t, from, to, amount)
         IN  /\ c \in [Tokens -> [Holders -> Nat]]
             /\ c[t][from] >= b[t][from] - amount
             /\ from # to => c[t][to] = b[t][to] + amount
<1> DEFINE debited == [b[t] EXCEPT ![from] = @ - amount]
           moved == [debited EXCEPT ![to] = @ + amount]
<1>1. debited \in [Holders -> Nat] /\ debited[from] = b[t][from] - amount
  BY DEF CanTransfer
<1>2. from # to => debited[to] = b[t][to]
  OBVIOUS
<1>3. /\ moved \in [Holders -> Nat]
      /\ moved[from] >= debited[from]
      /\ moved[to] = debited[to] + amount
  <2> HIDE DEF debited
  <2> QED BY <1>1
<1>4. Transfer(b, t, from, to, amount) = [b EXCEPT ![t] = moved]
  BY DEF Transfer
<1> HIDE DEF moved, debited
<1>5. /\ [b EXCEPT ![t] = moved] \in [Tokens -> [Holders -> Nat]]
      /\ [b EXCEPT ![t] = moved][t] = moved
  BY <1>3
<1> QED BY <1>1, <1>2, <1>3, <1>4, <1>5

\* The deposits of all nodes move by what one node's deposit moves.
LEMMA DepositsMove ==
  ASSUME NEW ns \in [Nodes -> NodeStates], NEW ms \in [Nodes -> NodeStates],
         NEW n \in Nodes, \A m \in Nodes : m # n => ms[m].deposited = ns[m].deposited
  PROVE  /\ Total(Deposits(ns)) \in Nat
         /\ Total(Deposits(ms)) \in Nat
         /\ Total(Deposits(ms)) = Total(Deposits(ns)) - ns[n].deposited + ms[n].deposited
         /\ ns[n].deposited <= Total(Deposits(ns))
<1>1. Deposits(ns) \in [Nodes -> Nat] /\ Deposits(ms) \in [Nodes -> Nat]
  BY DEF Deposits, NodeStates
<1>2. IsFiniteSet(Nodes)
  BY VaultAssumption
<1>3. \A m \in Nodes : m # n => Deposits(ms)[m] = Deposits(ns)[m]
  BY DEF Deposits
<1>4. Deposits(ns)[n] = ns[n].deposited /\ Deposits(ms)[n] = ms[n].deposited
  BY DEF Deposits
<1>5. Total(Deposits(ns)) \in Nat /\ Total(Deposits(ms)) \in Nat
  BY <1>1, <1>2, TotalType
<1>6. Total(Deposits(ms)) = Total(Deposits(ns)) - Deposits(ns)[n] + Deposits(ms)[n]
  BY <1>1, <1>2, <1>3, TotalChange
<1>7. Deposits(ns)[n] <= Total(Deposits(ns))
  BY <1>1, <1>2, TotalBounds
<1> QED BY <1>4, <1>5, <1>6, <1>7

\* Solvency depends on the deposits and the vault's balance only.
LEMMA SolventUnchanged ==
  ASSUME VaultTypeOK, VaultTypeOK', VaultSolvent,
         balance' = balance, \A m \in Nodes : nodes'[m].deposited = nodes[m].deposited
  PROVE  VaultSolvent'
<1>1. Deposits(nodes') = Deposits(nodes)
  BY DEF Deposits
<1> QED BY <1>1 DEF VaultSolvent, Deposits

-----------------------------------------------------------------------------
(* The initial state and one lemma per group of actions.                   *)

\* The invariant holds of a deployed vault that nobody has called.
LEMMA VaultInvInit == VaultInit => VaultInv
<1> SUFFICES ASSUME VaultInit PROVE VaultInv
  OBVIOUS
<1> USE DEF VaultInit, EmptyVault, TokenInit
<1>1. VaultTypeOK
  BY TokenAssumption, VaultAssumption, AddressAssumption
     DEF VaultTypeOK, TokenTypeOK, NoVaultConfig, VaultConfigs, NoNode, NodeStates,
         NoAppetite, AppetiteStates, NoWithdrawal, WithdrawRequests
<1>2. Covered /\ SlotsConsistent
  BY DEF Covered, SlotsConsistent, NoNode, NoWithdrawal
<1>3. VaultSolvent
  <2>1. Deposits(nodes) \in [Nodes -> Nat] /\ \A n \in Nodes : Deposits(nodes)[n] = 0
    BY DEF Deposits, NoNode
  <2>2. Total(Deposits(nodes)) = 0
    BY <2>1, TotalZero
  <2>3. balance[Usdc][VaultAddr] \in Nat
    BY <1>1, TokenAssumption, VaultAssumption DEF VaultTypeOK, TokenTypeOK
  <2> QED BY <2>2, <2>3 DEF VaultSolvent, Deposits
<1> QED BY <1>1, <1>2, <1>3 DEF VaultInv

\* A step that keeps deposits, commitments, requests and balances keeps everything
\* but the types of the configuration, the appetites and the clock.
LEMMA CapitalUntouched ==
  ASSUME VaultInv, VaultTypeOK', UNCHANGED <<nodes, withdrawals, balance>>
  PROVE  VaultInv'
<1>1. VaultSolvent'
  BY SolventUnchanged DEF VaultInv
<1>2. Covered' /\ SlotsConsistent'
  BY DEF VaultInv, Covered, SlotsConsistent
<1> QED BY <1>1, <1>2 DEF VaultInv

\* initialize and the setters write the configuration only.
LEMMA AdminCallsKeepInv ==
  ASSUME VaultInv, VaultAdminCalls
  PROVE  VaultInv'
<1>1. UNCHANGED <<nodes, appetites, withdrawals, balance, now>>
  BY DEF VaultAdminCalls, vault_initialize, vault_set_auction, vault_set_router,
         vault_set_admin, set_max_single_fill_bps
<1>2. vaultConfig' \in VaultConfigs
  <2> USE DEF VaultInv, VaultTypeOK, VaultConfigs
  <2>1. CASE \E admin \in Admins, m \in MinDeposits, c \in FillCaps, t \in Timelocks :
                 vault_initialize(admin, m, c, t)
    BY <2>1, VaultAssumption DEF vault_initialize
  <2>2. CASE \E s \in Admins, x \in Auctions : vault_set_auction(s, x)
    BY <2>2 DEF vault_set_auction
  <2>3. CASE \E s \in Admins, x \in Routers : vault_set_router(s, x)
    BY <2>3 DEF vault_set_router
  <2>4. CASE \E s \in Admins, x \in Admins : vault_set_admin(s, x)
    BY <2>4 DEF vault_set_admin
  <2>5. CASE \E s \in Admins, c \in FillCaps : set_max_single_fill_bps(s, c)
    BY <2>5, VaultAssumption DEF set_max_single_fill_bps
  <2> QED BY <2>1, <2>2, <2>3, <2>4, <2>5 DEF VaultAdminCalls
<1>3. VaultTypeOK'
  BY <1>1, <1>2 DEF VaultInv, VaultTypeOK, TokenTypeOK
<1> QED BY <1>1, <1>3, CapitalUntouched

\* Time alone changes nothing a node owns.
LEMMA TickKeepsInv ==
  ASSUME VaultInv, Tick
  PROVE  VaultInv'
<1>1. VaultTypeOK'
  BY DEF VaultInv, VaultTypeOK, TokenTypeOK, Tick, vaultStorage
<1> QED BY <1>1, CapitalUntouched DEF Tick, vaultStorage

\* A deposit raises the node's record and the vault's balance alike.
LEMMA DepositKeepsInv ==
  ASSUME VaultInv, NEW n \in Nodes, NEW amount \in Int, deposit(n, amount)
  PROVE  VaultInv'
<1> USE DEF deposit
<1>1. amount \in Nat /\ n \in Holders /\ VaultAddr \in Holders /\ n # VaultAddr /\ Usdc \in Tokens
  BY VaultAssumption, TokenAssumption
<1>2. nodes \in [Nodes -> NodeStates] /\ balance \in [Tokens -> [Holders -> Nat]]
  BY DEF VaultInv, VaultTypeOK, TokenTypeOK
<1>3. /\ balance' \in [Tokens -> [Holders -> Nat]]
      /\ balance'[Usdc][VaultAddr] = balance[Usdc][VaultAddr] + amount
  BY <1>1, <1>2, TransferEffect
<1>4. /\ nodes' \in [Nodes -> NodeStates]
      /\ nodes'[n].deposited = nodes[n].deposited + amount
      /\ nodes'[n].committed = nodes[n].committed /\ nodes'[n].stored
      /\ \A m \in Nodes : m # n => nodes'[m] = nodes[m]
  BY <1>1, <1>2 DEF NodeStates
<1>5. VaultTypeOK'
  BY <1>3, <1>4 DEF VaultInv, VaultTypeOK, TokenTypeOK
<1>6. Covered' /\ SlotsConsistent'
  BY <1>1, <1>2, <1>4 DEF VaultInv, VaultTypeOK, Covered, SlotsConsistent, NodeStates,
                          WithdrawRequests
<1>7. VaultSolvent'
  <2>1. /\ Total(Deposits(nodes)) \in Nat
        /\ Total(Deposits(nodes')) = Total(Deposits(nodes)) + amount
    BY <1>1, <1>2, <1>4, DepositsMove DEF NodeStates
  <2>2. balance[Usdc][VaultAddr] \in Nat /\ balance[Usdc][VaultAddr] >= Total(Deposits(nodes))
    BY <1>1, <1>2 DEF VaultInv, VaultSolvent, Deposits
  <2>3. balance'[Usdc][VaultAddr] >= Total(Deposits(nodes'))
    BY <1>1, <1>3, <2>1, <2>2
  <2> QED BY <2>3 DEF VaultSolvent, Deposits
<1> QED BY <1>5, <1>6, <1>7 DEF VaultInv

\* USDC leaves the vault: no more than the node has deposited, and its deposit
\* shrinks by as much.
LEMMA OutflowKeepsSolvent ==
  ASSUME VaultInv, NEW n \in Nodes, NEW to \in Holders, NEW amount \in Nat,
         CanTransfer(balance, Usdc, VaultAddr, amount),
         balance' = Transfer(balance, Usdc, VaultAddr, to, amount),
         nodes' \in [Nodes -> NodeStates],
         nodes'[n].deposited = nodes[n].deposited - amount,
         \A m \in Nodes : m # n => nodes'[m] = nodes[m]
  PROVE  balance' \in [Tokens -> [Holders -> Nat]] /\ VaultSolvent'
<1>1. VaultAddr \in Holders /\ Usdc \in Tokens
  BY VaultAssumption, TokenAssumption
<1>2. nodes \in [Nodes -> NodeStates] /\ balance \in [Tokens -> [Holders -> Nat]]
  BY DEF VaultInv, VaultTypeOK, TokenTypeOK
<1>3. /\ balance' \in [Tokens -> [Holders -> Nat]]
      /\ balance'[Usdc][VaultAddr] >= balance[Usdc][VaultAddr] - amount
  BY <1>1, <1>2, TransferEffect
<1>4. nodes[n].deposited \in Nat
  BY <1>2 DEF NodeStates
<1>5. /\ Total(Deposits(nodes)) \in Nat
      /\ Total(Deposits(nodes')) = Total(Deposits(nodes)) - amount
  BY <1>2, <1>4, DepositsMove
<1>6. balance[Usdc][VaultAddr] \in Nat /\ balance[Usdc][VaultAddr] >= Total(Deposits(nodes))
  BY <1>1, <1>2 DEF VaultInv, VaultSolvent, Deposits
<1>7. balance'[Usdc][VaultAddr] \in Nat
  BY <1>1, <1>3
<1>8. balance'[Usdc][VaultAddr] >= Total(Deposits(nodes'))
  BY <1>3, <1>5, <1>6, <1>7
<1> QED BY <1>3, <1>8 DEF VaultSolvent, Deposits

\* The reservation is checked against deposited - committed, which Covered then
\* keeps away from every later commit.
LEMMA RequestKeepsInv ==
  ASSUME VaultInv, NEW n \in Nodes, NEW amount \in Int, request_withdrawal(n, amount)
  PROVE  VaultInv'
<1> USE DEF request_withdrawal, VaultInv
<1>1. amount \in Nat /\ now + vaultConfig.withdraw_timelock \in Nat
  BY DEF VaultTypeOK, VaultConfigs
<1>2. withdrawals' \in [Nodes -> WithdrawRequests]
  BY <1>1 DEF VaultTypeOK, WithdrawRequests
<1>3. VaultTypeOK'
  BY <1>2 DEF VaultTypeOK, TokenTypeOK
<1>4. /\ withdrawals'[n].amount = amount
      /\ \A m \in Nodes : m # n => withdrawals'[m] = withdrawals[m]
  BY DEF VaultTypeOK
<1>5. Covered'
  BY <1>1, <1>4 DEF Covered, VaultTypeOK, NodeStates
<1>6. SlotsConsistent'
  BY <1>1, <1>4 DEF SlotsConsistent
<1>7. VaultSolvent'
  BY <1>3, SolventUnchanged
<1> QED BY <1>3, <1>5, <1>6, <1>7

\* Cancelling a request returns its amount to the free balance.
LEMMA CancelWithdrawalKeepsInv ==
  ASSUME VaultInv, NEW n \in Nodes, cancel_withdrawal(n)
  PROVE  VaultInv'
<1> USE DEF cancel_withdrawal, VaultInv
<1>1. VaultTypeOK'
  BY DEF VaultTypeOK, TokenTypeOK, NoWithdrawal, WithdrawRequests
<1>2. /\ withdrawals'[n].amount = 0 /\ ~withdrawals'[n].stored
      /\ \A m \in Nodes : m # n => withdrawals'[m] = withdrawals[m]
  BY DEF VaultTypeOK, NoWithdrawal
<1>3. Covered' /\ SlotsConsistent'
  BY <1>2 DEF Covered, SlotsConsistent, VaultTypeOK, NodeStates, WithdrawRequests
<1>4. VaultSolvent'
  BY <1>1, SolventUnchanged
<1> QED BY <1>1, <1>3, <1>4

\* An executed withdrawal takes the reserved amount out of record and balance.
LEMMA ExecuteKeepsInv ==
  ASSUME VaultInv, NEW n \in Nodes, execute_withdrawal(n)
  PROVE  VaultInv'
<1> DEFINE amount == withdrawals[n].amount
<1> USE DEF execute_withdrawal
<1>1. /\ nodes \in [Nodes -> NodeStates] /\ withdrawals \in [Nodes -> WithdrawRequests]
      /\ amount \in Nat /\ nodes[n].deposited \in Nat /\ nodes[n].committed \in Nat
      /\ nodes[n].committed + amount <= nodes[n].deposited
  BY DEF VaultInv, VaultTypeOK, NodeStates, WithdrawRequests, Covered
<1>2. /\ nodes' \in [Nodes -> NodeStates]
      /\ nodes'[n].deposited = nodes[n].deposited - amount
      /\ nodes'[n].committed = nodes[n].committed /\ nodes'[n].stored = nodes[n].stored
      /\ \A m \in Nodes : m # n => nodes'[m] = nodes[m]
  <2>1. nodes' = [nodes EXCEPT ![n].deposited = @ - amount]
    OBVIOUS
  <2>2. nodes[n].deposited - amount \in Nat
    BY <1>1
  <2> HIDE DEF amount, execute_withdrawal
  <2> QED BY <1>1, <2>1, <2>2 DEF NodeStates
<1>3. /\ withdrawals' \in [Nodes -> WithdrawRequests]
      /\ withdrawals'[n].amount = 0 /\ ~withdrawals'[n].stored
      /\ \A m \in Nodes : m # n => withdrawals'[m] = withdrawals[m]
  BY <1>1 DEF NoWithdrawal, WithdrawRequests
<1>4. n \in Holders
  BY VaultAssumption
<1>5. balance' \in [Tokens -> [Holders -> Nat]] /\ VaultSolvent'
  BY <1>1, <1>2, <1>4, OutflowKeepsSolvent
<1>6. VaultTypeOK'
  BY <1>2, <1>3, <1>5 DEF VaultInv, VaultTypeOK, TokenTypeOK
<1>7. Covered' /\ SlotsConsistent'
  BY <1>1, <1>2, <1>3 DEF VaultInv, Covered, SlotsConsistent
<1> QED BY <1>5, <1>6, <1>7 DEF VaultInv

\* set_appetite writes the terms of one backing.
LEMMA AppetiteKeepsInv ==
  ASSUME VaultInv, NEW n \in Nodes, NEW a \in Assets, NEW m \in Int, NEW d \in Nat,
         NEW on \in BOOLEAN, set_appetite(n, a, m, d, on)
  PROVE  VaultInv'
<1> USE DEF set_appetite
<1>1. appetites \in [Nodes -> [Assets -> AppetiteStates]] /\ now \in Nat /\ m \in Nat
  BY DEF VaultInv, VaultTypeOK
<1>2. appetites[n][a] \in AppetiteStates
  BY <1>1
<1>3. BackedAt(appetites[n][a], on) \in Nat
  BY <1>1, <1>2 DEF BackedAt, AppetiteStates
<1>4. appetites' \in [Nodes -> [Assets -> AppetiteStates]]
  BY <1>1, <1>2, <1>3 DEF AppetiteStates
<1>5. VaultTypeOK'
  BY <1>4 DEF VaultInv, VaultTypeOK, TokenTypeOK
<1> QED BY <1>5, CapitalUntouched

\* reduce_exposure clamps at zero, and touches no capital.
LEMMA ReduceKeepsInv ==
  ASSUME VaultInv, NEW n \in Nodes, NEW a \in Assets, NEW amount \in Int,
         reduce_exposure(n, a, amount)
  PROVE  VaultInv'
<1> USE DEF reduce_exposure
<1>1. appetites \in [Nodes -> [Assets -> AppetiteStates]]
  BY DEF VaultInv, VaultTypeOK
<1>2. appetites' \in [Nodes -> [Assets -> AppetiteStates]]
  BY <1>1 DEF AppetiteStates
<1>3. VaultTypeOK'
  BY <1>2 DEF VaultInv, VaultTypeOK, TokenTypeOK
<1> QED BY <1>3, CapitalUntouched

\* Changing one exposure keeps the type of the appetites.
LEMMA ExposureType ==
  ASSUME NEW aps \in [Nodes -> [Assets -> AppetiteStates]], NEW n \in Nodes, NEW a \in Assets,
         NEW amount \in Int, aps[n][a].exposure + amount \in Nat
  PROVE  AddExposure(aps, n, a, amount) \in [Nodes -> [Assets -> AppetiteStates]]
<1> DEFINE ap == [aps[n][a] EXCEPT !.exposure = @ + amount]
           row == [aps[n] EXCEPT ![a] = ap]
<1>1. ap \in AppetiteStates
  BY DEF AppetiteStates
<1>2. AddExposure(aps, n, a, amount) = [aps EXCEPT ![n] = row]
  BY DEF AddExposure
<1>3. row \in [Assets -> AppetiteStates]
  <2> HIDE DEF ap
  <2> QED BY <1>1
<1> HIDE DEF row
<1> QED BY <1>2, <1>3

\* A commit takes free balance only, so what it locks and what a withdrawal
\* reserves still fit into the deposit.
LEMMA CommitKeepsInv ==
  ASSUME VaultInv, NEW x, NEW n \in Nodes, NEW a \in Assets, NEW amount \in Int,
         NEW d \in Nat, commit(x, n, a, amount, d)
  PROVE  VaultInv'
<1> USE DEF commit, CommitAllowed, Free, reserved, LockCapital, AddExposure
<1>1. /\ nodes \in [Nodes -> NodeStates] /\ withdrawals \in [Nodes -> WithdrawRequests]
      /\ appetites \in [Nodes -> [Assets -> AppetiteStates]] /\ amount \in Nat
  BY DEF VaultInv, VaultTypeOK
<1>2. /\ nodes' \in [Nodes -> NodeStates]
      /\ nodes'[n].committed = nodes[n].committed + amount
      /\ \A m \in Nodes : /\ nodes'[m].deposited = nodes[m].deposited
                          /\ nodes'[m].stored = nodes[m].stored
                          /\ m # n => nodes'[m] = nodes[m]
  BY <1>1 DEF NodeStates
<1>3. appetites' \in [Nodes -> [Assets -> AppetiteStates]]
  <2>1. appetites[n][a].exposure + amount \in Nat
    BY <1>1 DEF AppetiteStates
  <2> HIDE DEF AddExposure
  <2> QED BY <1>1, <2>1, ExposureType
<1>4. VaultTypeOK'
  BY <1>2, <1>3 DEF VaultInv, VaultTypeOK, TokenTypeOK
<1>5. Covered' /\ SlotsConsistent'
  BY <1>1, <1>2 DEF VaultInv, Covered, SlotsConsistent, NodeStates, WithdrawRequests
<1>6. VaultSolvent'
  BY <1>2, <1>4, SolventUnchanged DEF VaultInv
<1> QED BY <1>4, <1>5, <1>6 DEF VaultInv

\* A release unlocks at most what is committed.
LEMMA ReleaseKeepsInv ==
  ASSUME VaultInv, NEW x, NEW n \in Nodes, NEW a \in Assets, NEW amount \in Int,
         release(x, n, a, amount)
  PROVE  VaultInv'
<1> USE DEF release, ReleaseAllowed, LockCapital, AddExposure
<1>1. /\ nodes \in [Nodes -> NodeStates] /\ withdrawals \in [Nodes -> WithdrawRequests]
      /\ appetites \in [Nodes -> [Assets -> AppetiteStates]] /\ amount \in Nat
  BY DEF VaultInv, VaultTypeOK
<1>2. /\ nodes' \in [Nodes -> NodeStates]
      /\ nodes'[n].committed = nodes[n].committed - amount
      /\ \A m \in Nodes : /\ nodes'[m].deposited = nodes[m].deposited
                          /\ nodes'[m].stored = nodes[m].stored
                          /\ m # n => nodes'[m] = nodes[m]
  <2>1. nodes[n].committed + (-amount) = nodes[n].committed - amount
    BY <1>1 DEF NodeStates
  <2>2. nodes[n].committed - amount \in Nat
    BY <1>1 DEF NodeStates
  <2>3. nodes' = [nodes EXCEPT ![n].committed = nodes[n].committed - amount]
    BY <1>1, <2>1
  <2> HIDE DEF release
  <2> QED BY <1>1, <2>2, <2>3 DEF NodeStates
<1>3. appetites' \in [Nodes -> [Assets -> AppetiteStates]]
  <2>1. -amount \in Int /\ appetites[n][a].exposure + (-amount) \in Nat
    BY <1>1 DEF AppetiteStates
  <2> HIDE DEF AddExposure
  <2> QED BY <1>1, <2>1, ExposureType
<1>4. VaultTypeOK'
  BY <1>2, <1>3 DEF VaultInv, VaultTypeOK, TokenTypeOK
<1>5. Covered' /\ SlotsConsistent'
  BY <1>1, <1>2 DEF VaultInv, Covered, SlotsConsistent, NodeStates, WithdrawRequests
<1>6. VaultSolvent'
  BY <1>2, <1>4, SolventUnchanged DEF VaultInv
<1> QED BY <1>4, <1>5, <1>6 DEF VaultInv

\* A payout takes committed capital out of record and balance.
LEMMA PayOutKeepsInv ==
  ASSUME VaultInv, NEW x, NEW n \in Nodes, NEW a \in Assets, NEW to \in Payees,
         NEW amount \in Int, pay_out(x, n, a, to, amount)
  PROVE  VaultInv'
<1> USE DEF pay_out, PayOutAllowed, PayFromCommitted
<1>1. /\ nodes \in [Nodes -> NodeStates] /\ withdrawals \in [Nodes -> WithdrawRequests]
      /\ amount \in Nat /\ to \in Holders
  BY VaultAssumption DEF VaultInv, VaultTypeOK
<1>2. /\ nodes' \in [Nodes -> NodeStates]
      /\ nodes'[n].committed = nodes[n].committed - amount
      /\ nodes'[n].deposited = nodes[n].deposited - amount
      /\ nodes'[n].stored = nodes[n].stored
      /\ \A m \in Nodes : m # n => nodes'[m] = nodes[m]
  <2>1. /\ nodes[n].committed - amount \in Nat /\ nodes[n].deposited - amount \in Nat
        /\ nodes[n].filled + amount \in Nat
    BY <1>1 DEF NodeStates
  <2>2. nodes' = [nodes EXCEPT ![n].committed = nodes[n].committed - amount,
                               ![n].deposited = nodes[n].deposited - amount,
                               ![n].filled = nodes[n].filled + amount]
    BY <1>1
  <2> HIDE DEF pay_out
  <2> QED BY <1>1, <2>1, <2>2 DEF NodeStates
<1>3. balance' \in [Tokens -> [Holders -> Nat]] /\ VaultSolvent'
  BY <1>1, <1>2, OutflowKeepsSolvent
<1>4. VaultTypeOK'
  BY <1>2, <1>3 DEF VaultInv, VaultTypeOK, TokenTypeOK
<1>5. Covered' /\ SlotsConsistent'
  BY <1>1, <1>2 DEF VaultInv, Covered, SlotsConsistent, NodeStates, WithdrawRequests
<1> QED BY <1>3, <1>4, <1>5 DEF VaultInv

-----------------------------------------------------------------------------
(* The theorems.                                                           *)

\* VaultInv is inductive.
LEMMA VaultInvStep == VaultInv /\ [VaultNext]_vaultVars => VaultInv'
<1> SUFFICES ASSUME VaultInv, [VaultNext]_vaultVars PROVE VaultInv'
  OBVIOUS
<1>1. CASE Tick
  BY <1>1, TickKeepsInv
<1>2. CASE VaultAdminCalls
  BY <1>2, AdminCallsKeepInv
<1>3. CASE NodeCalls
  <2>1. PICK n \in Nodes :
          \/ \E amt \in DepositAmounts : deposit(n, amt)
          \/ \E amt \in WithdrawAmounts : request_withdrawal(n, amt)
          \/ cancel_withdrawal(n)
          \/ execute_withdrawal(n)
          \/ \E a \in Assets, m \in Ceilings, d \in Discounts, on \in BOOLEAN :
                set_appetite(n, a, m, d, on)
          \/ \E a \in Assets, amt \in ReduceAmounts : reduce_exposure(n, a, amt)
    BY <1>3 DEF NodeCalls
  <2>2. CASE \E amt \in DepositAmounts : deposit(n, amt)
    BY <2>2, DepositKeepsInv, VaultAssumption
  <2>3. CASE \E amt \in WithdrawAmounts : request_withdrawal(n, amt)
    BY <2>3, RequestKeepsInv, VaultAssumption
  <2>4. CASE cancel_withdrawal(n)
    BY <2>4, CancelWithdrawalKeepsInv
  <2>5. CASE execute_withdrawal(n)
    BY <2>5, ExecuteKeepsInv
  <2>6. CASE \E a \in Assets, m \in Ceilings, d \in Discounts, on \in BOOLEAN :
                set_appetite(n, a, m, d, on)
    BY <2>6, AppetiteKeepsInv, VaultAssumption
  <2>7. CASE \E a \in Assets, amt \in ReduceAmounts : reduce_exposure(n, a, amt)
    BY <2>7, ReduceKeepsInv, VaultAssumption
  <2> QED BY <2>1, <2>2, <2>3, <2>4, <2>5, <2>6, <2>7
<1>4. CASE AuctionCalls
  <2>1. PICK x \in Auctions, n \in Nodes, a \in Assets, amt \in BidAmounts :
          (\E d \in Discounts : commit(x, n, a, amt, d)) \/ release(x, n, a, amt)
    BY <1>4 DEF AuctionCalls
  <2>2. amt \in Int /\ Discounts \subseteq Nat
    BY VaultAssumption
  <2> QED BY <2>1, <2>2, CommitKeepsInv, ReleaseKeepsInv
<1>5. CASE RouterCalls
  BY <1>5, PayOutKeepsInv, VaultAssumption DEF RouterCalls
<1>6. CASE UNCHANGED vaultVars
  <2>1. VaultTypeOK'
    BY <1>6 DEF vaultVars, vaultStorage, VaultInv, VaultTypeOK, TokenTypeOK
  <2> QED BY <1>6, <2>1, CapitalUntouched DEF vaultVars, vaultStorage
<1> QED BY <1>1, <1>2, <1>3, <1>4, <1>5, <1>6 DEF VaultNext

\* The invariant holds in every reachable state.
LEMMA VaultInvariance == VaultSpec => []VaultInv
BY VaultInvInit, VaultInvStep, PTL DEF VaultSpec

\* The storage of the vault stays within its types, for all inputs.  The code keeps
\* deposited, committed and exposure in signed i128, whose checked arithmetic lets a
\* subtraction go below zero: none ever does.
THEOREM VaultTypeCorrect == VaultSpec => []VaultTypeOK
<1>1. VaultInv => VaultTypeOK
  BY DEF VaultInv
<1> QED BY <1>1, VaultInvariance, PTL

\* No sequence of deposits, requests, commits, releases and payouts overdraws a
\* node's free balance.
THEOREM FreeBalanceSafe == VaultSpec => []FreeBalanceCovered
<1>1. VaultInv => FreeBalanceCovered
  <2> SUFFICES ASSUME VaultInv, NEW n \in Nodes
               PROVE  nodes[n].deposited = nodes[n].committed + reserved(n) + free_balance(n)
    BY DEF FreeBalanceCovered
  <2>1. /\ nodes[n].deposited \in Nat /\ nodes[n].committed \in Nat
        /\ withdrawals[n].amount \in Nat
        /\ nodes[n].committed + withdrawals[n].amount <= nodes[n].deposited
        /\ ~nodes[n].stored => nodes[n].deposited = 0
    BY DEF VaultInv, VaultTypeOK, NodeStates, WithdrawRequests, Covered, SlotsConsistent
  <2> QED BY <2>1 DEF free_balance, Free, reserved
<1> QED BY <1>1, VaultInvariance, PTL

\* The vault never owes the nodes more USDC than it holds.
THEOREM VaultIsSolvent == VaultSpec => []VaultSolvent
<1>1. VaultInv => VaultSolvent
  BY DEF VaultInv
<1> QED BY <1>1, VaultInvariance, PTL

\* The re-check of execute_withdrawal "against live state" never fails, and neither
\* does its transfer: a request that was accepted is payable until it is executed
\* or cancelled.
THEOREM WithdrawalsPayable == VaultSpec => []WithdrawalPayable
<1>1. VaultInv => WithdrawalPayable
  <2> SUFFICES ASSUME VaultInv, NEW n \in Nodes, withdrawals[n].stored
               PROVE  /\ nodes[n].stored
                      /\ nodes[n].deposited - nodes[n].committed >= withdrawals[n].amount
                      /\ CanTransfer(balance, Usdc, VaultAddr, withdrawals[n].amount)
    BY DEF WithdrawalPayable
  <2>1. /\ nodes \in [Nodes -> NodeStates]
        /\ nodes[n].deposited \in Nat /\ nodes[n].committed \in Nat
        /\ withdrawals[n].amount \in Nat /\ withdrawals[n].amount > 0
        /\ nodes[n].committed + withdrawals[n].amount <= nodes[n].deposited
        /\ ~nodes[n].stored => nodes[n].deposited = 0
    BY DEF VaultInv, VaultTypeOK, NodeStates, WithdrawRequests, Covered, SlotsConsistent
  <2>2. nodes[n].stored /\ nodes[n].deposited - nodes[n].committed >= withdrawals[n].amount
    BY <2>1
  <2>3. Total(Deposits(nodes)) \in Nat /\ nodes[n].deposited <= Total(Deposits(nodes))
    BY <2>1, DepositsMove
  <2>4. balance[Usdc][VaultAddr] \in Nat /\ balance[Usdc][VaultAddr] >= Total(Deposits(nodes))
    BY TokenAssumption, VaultAssumption
       DEF VaultInv, VaultTypeOK, TokenTypeOK, VaultSolvent, Deposits
  <2>5. CanTransfer(balance, Usdc, VaultAddr, withdrawals[n].amount)
    BY <2>1, <2>3, <2>4 DEF CanTransfer
  <2> QED BY <2>2, <2>5
<1> QED BY <1>1, VaultInvariance, PTL

\* In every reachable state quote_capacity is exactly the range of amounts that
\* commit accepts.
THEOREM QuoteIsExact == VaultSpec => []QuoteExact
<1>1. VaultInv => QuoteExact
  <2> SUFFICES ASSUME VaultInv, vaultConfig.stored, NEW n \in Nodes, NEW a \in Assets,
                      NEW amt \in BidAmounts, NEW d \in Discounts
               PROVE  CommitAllowed(n, a, amt, d) <=> amt \in 1 .. quote_capacity(n, a, d)
    BY DEF QuoteExact
  <2> DEFINE cap == single_fill_cap(n)
             room == appetites[n][a].max_exposure - appetites[n][a].exposure
             free == Free(n)
             terms == nodes[n].stored /\ appetites[n][a].stored /\ TermsAllow(appetites[n][a], d)
  <2>1. amt \in Int /\ room \in Int /\ free \in Int /\ cap \in Int
    <3>1. /\ nodes[n].deposited \in Nat /\ nodes[n].committed \in Nat
          /\ withdrawals[n].amount \in Nat /\ vaultConfig.max_single_fill_bps \in Nat
          /\ appetites[n][a] \in AppetiteStates
      BY AddressAssumption
         DEF VaultInv, VaultTypeOK, NodeStates, WithdrawRequests, VaultConfigs
    <3>2. nodes[n].deposited * vaultConfig.max_single_fill_bps \in Nat
      BY <3>1
    <3> QED BY <3>1, <3>2, VaultAssumption, AddressAssumption
            DEF AppetiteStates, Free, reserved, single_fill_cap
  <2>2. CommitAllowed(n, a, amt, d) <=>
          amt > 0 /\ terms /\ free >= amt /\ amt <= room /\ amt <= cap
    <3>1. appetites[n][a].exposure \in Nat /\ appetites[n][a].max_exposure \in Nat
      BY DEF VaultInv, VaultTypeOK, AppetiteStates
    <3>2. appetites[n][a].exposure + amt <= appetites[n][a].max_exposure <=> amt <= room
      BY <2>1, <3>1
    <3> QED BY <3>2, Zenon DEF CommitAllowed
  <2>3. quote_capacity(n, a, d) =
          IF terms /\ Least(cap, Least(room, free)) >= 0
          THEN Least(cap, Least(room, free)) ELSE 0
    BY DEF quote_capacity
  <2> HIDE DEF cap, room, free, terms
  <2> QED BY <2>1, <2>2, <2>3 DEF Least
<1> QED BY <1>1, VaultInvariance, PTL

-----------------------------------------------------------------------------
(* The router.                                                             *)

\* What each exit has in escrow of the asset a.
Held(es, a) == [id \in ExitIds |-> IF es[id].asset = a THEN es[id].amount ELSE 0]

\* What the slots of the router say: a stored configuration names a treasury, a
\* stored escrow a seller and an asset, and an empty slot holds nothing.
RouterSlots ==
    /\ routerConfig.stored => routerConfig.treasury \in Treasuries
    /\ \A id \in ExitIds :
          IF escrows[id].stored
          THEN escrows[id].seller \in Sellers /\ escrows[id].asset \in Assets
          ELSE escrows[id] = NoEscrow

\* The inductive invariant: the vault's, and the escrows backed by tokens.
RouterInv ==
    /\ VaultInv
    /\ RouterTypeOK
    /\ RouterSlots
    /\ EscrowBacked

-----------------------------------------------------------------------------
(* Transfers, payouts and sums.                                            *)

\* A transfer takes from the sender only.
LEMMA TransferSpares ==
  ASSUME NEW b \in [Tokens -> [Holders -> Nat]], NEW t \in Tokens,
         NEW from \in Holders, NEW to \in Holders, NEW amount \in Nat,
         CanTransfer(b, t, from, amount),
         NEW u \in Tokens, NEW h \in Holders, u # t \/ h # from
  PROVE  Transfer(b, t, from, to, amount)[u][h] >= b[u][h]
<1> DEFINE debited == [b[t] EXCEPT ![from] = @ - amount]
           moved == [debited EXCEPT ![to] = @ + amount]
<1>1. debited \in [Holders -> Nat] /\ (h # from => debited[h] = b[t][h])
  BY DEF CanTransfer
<1>2. moved \in [Holders -> Nat] /\ moved[h] >= debited[h]
  <2> HIDE DEF debited
  <2> QED BY <1>1
<1>3. Transfer(b, t, from, to, amount) = [b EXCEPT ![t] = moved]
  BY DEF Transfer
<1> HIDE DEF moved, debited
<1>4. CASE u # t
  BY <1>3, <1>4
<1>5. CASE u = t
  BY <1>1, <1>2, <1>3, <1>5
<1> QED BY <1>4, <1>5

\* What every balance is after a transfer between two addresses.
LEMMA TransferExact ==
  ASSUME NEW b \in [Tokens -> [Holders -> Nat]], NEW t \in Tokens,
         NEW from \in Holders, NEW to \in Holders, from # to, NEW amount \in Nat,
         CanTransfer(b, t, from, amount), NEW u \in Tokens, NEW h \in Holders
  PROVE  Transfer(b, t, from, to, amount)[u][h] =
            b[u][h] + (IF u = t /\ h = to THEN amount ELSE 0)
                    - (IF u = t /\ h = from THEN amount ELSE 0)
<1> DEFINE debited == [b[t] EXCEPT ![from] = @ - amount]
           moved == [debited EXCEPT ![to] = @ + amount]
<1>1. /\ debited \in [Holders -> Nat]
      /\ debited[h] = IF h = from THEN b[t][h] - amount ELSE b[t][h]
      /\ b[u][h] \in Nat
  BY DEF CanTransfer
<1>2. moved[h] = IF h = to THEN debited[h] + amount ELSE debited[h]
  <2> HIDE DEF debited
  <2> QED BY <1>1
<1>3. Transfer(b, t, from, to, amount) = [b EXCEPT ![t] = moved]
  BY DEF Transfer
<1> HIDE DEF moved, debited
<1>4. [b EXCEPT ![t] = moved][u] = IF u = t THEN moved ELSE b[u]
  OBVIOUS
<1>5. CASE u # t
  <2>1. Transfer(b, t, from, to, amount)[u][h] = b[u][h]
    BY <1>3, <1>4, <1>5
  <2> QED BY <1>1, <1>5, <2>1
<1>6. CASE u = t
  <2>1. Transfer(b, t, from, to, amount)[u][h] = moved[h]
    BY <1>3, <1>4, <1>6
  <2>2. b[t][h] \in Nat
    BY <1>1, <1>6
  <2> QED BY <1>1, <1>2, <1>6, <2>1, <2>2
<1> QED BY <1>5, <1>6

\* The same for all balances at once.
LEMMA TransferAll ==
  ASSUME NEW b \in [Tokens -> [Holders -> Nat]], NEW t \in Tokens,
         NEW from \in Holders, NEW to \in Holders, from # to, NEW amount \in Nat,
         CanTransfer(b, t, from, amount), NEW c, c = Transfer(b, t, from, to, amount)
  PROVE  /\ c \in [Tokens -> [Holders -> Nat]]
         /\ \A u \in Tokens, h \in Holders :
               c[u][h] = b[u][h] + (IF u = t /\ h = to THEN amount ELSE 0)
                                 - (IF u = t /\ h = from THEN amount ELSE 0)
<1>1. c \in [Tokens -> [Holders -> Nat]]
  BY TransferEffect
<1>2. ASSUME NEW u \in Tokens, NEW h \in Holders
      PROVE  c[u][h] = b[u][h] + (IF u = t /\ h = to THEN amount ELSE 0)
                               - (IF u = t /\ h = from THEN amount ELSE 0)
  BY TransferExact
<1> QED BY <1>1, <1>2

\* One payout takes the amount off what the node has committed and deposited.
LEMMA PayEffect ==
  ASSUME NEW ns \in [Nodes -> NodeStates], NEW n \in Nodes, NEW amount \in Nat,
         ns[n].committed >= amount, ns[n].deposited >= amount
  PROVE  LET ms == PayFromCommitted(ns, n, amount)
         IN  /\ ms \in [Nodes -> NodeStates]
             /\ ms[n].committed = ns[n].committed - amount
             /\ ms[n].deposited = ns[n].deposited - amount
             /\ ms[n].filled = ns[n].filled + amount
             /\ ms[n].stored = ns[n].stored
             /\ \A m \in Nodes : m # n => ms[m] = ns[m]
<1>1. /\ ns[n].committed - amount \in Nat /\ ns[n].deposited - amount \in Nat
      /\ ns[n].filled + amount \in Nat
  BY DEF NodeStates
<1> DEFINE ms == PayFromCommitted(ns, n, amount)
<1>2. ms = [ns EXCEPT ![n].committed = ns[n].committed - amount,
                      ![n].deposited = ns[n].deposited - amount,
                      ![n].filled = ns[n].filled + amount]
  BY DEF PayFromCommitted
<1> HIDE DEF ms
<1>3. /\ ms \in [Nodes -> NodeStates]
      /\ ms[n].committed = ns[n].committed - amount
      /\ ms[n].deposited = ns[n].deposited - amount
      /\ ms[n].filled = ns[n].filled + amount
      /\ ms[n].stored = ns[n].stored
      /\ \A m \in Nodes : m # n => ms[m] = ns[m]
  BY <1>1, <1>2 DEF NodeStates
<1> QED BY <1>3 DEF ms

\* The sum over the escrows of an asset is defined.
LEMMA HeldType ==
  ASSUME NEW es \in [ExitIds -> EscrowStates], NEW a
  PROVE  /\ IsFiniteSet(ExitIds)
         /\ Held(es, a) \in [ExitIds -> Nat]
         /\ Total(Held(es, a)) \in Nat
<1>1. Held(es, a) \in [ExitIds -> Nat]
  BY DEF Held, EscrowStates
<1>2. IsFiniteSet(ExitIds)
  BY AddressAssumption, FS_Interval DEF ExitIds
<1> QED BY <1>1, <1>2, TotalType

\* The escrows of an asset move by what one escrow of it moves.
LEMMA HeldMove ==
  ASSUME NEW es \in [ExitIds -> EscrowStates], NEW fs \in [ExitIds -> EscrowStates],
         NEW id \in ExitIds, \A x \in ExitIds : x # id => fs[x] = es[x], NEW a
  PROVE  /\ Total(Held(es, a)) \in Nat
         /\ Total(Held(fs, a)) \in Nat
         /\ Total(Held(fs, a)) = Total(Held(es, a)) - Held(es, a)[id] + Held(fs, a)[id]
         /\ Held(es, a)[id] <= Total(Held(es, a))
<1>1. Held(es, a) \in [ExitIds -> Nat] /\ Held(fs, a) \in [ExitIds -> Nat]
  BY HeldType
<1>2. IsFiniteSet(ExitIds)
  BY HeldType
<1>3. \A x \in ExitIds : x # id => Held(fs, a)[x] = Held(es, a)[x]
  BY DEF Held
<1>4. Total(Held(es, a)) \in Nat /\ Total(Held(fs, a)) \in Nat
  BY HeldType
<1>5. Total(Held(fs, a)) = Total(Held(es, a)) - Held(es, a)[id] + Held(fs, a)[id]
  BY <1>1, <1>2, <1>3, TotalChange
<1>6. Held(es, a)[id] <= Total(Held(es, a))
  BY <1>1, <1>2, TotalBounds
<1> QED BY <1>4, <1>5, <1>6

\* EscrowBacked in terms of Held.
LEMMA BackedByHeld ==
  EscrowBacked <=> \A a \in Assets : balance[a][RouterAddr] >= Total(Held(escrows, a))
BY DEF EscrowBacked, EscrowedFor, Held

\* A step that leaves the escrows alone and takes no token from the router keeps
\* them backed.
LEMMA BackedUntouched ==
  ASSUME RouterInv, RouterTypeOK', UNCHANGED escrows,
         \A a \in Assets : balance'[a][RouterAddr] >= balance[a][RouterAddr]
  PROVE  EscrowBacked'
<1>1. \A a \in Assets : /\ balance[a][RouterAddr] \in Nat
                        /\ balance'[a][RouterAddr] \in Nat
  BY RouterAssumption, TokenAssumption DEF RouterInv, RouterTypeOK, VaultTypeOK, TokenTypeOK
<1>2. ASSUME NEW a \in Assets
      PROVE  balance'[a][RouterAddr] >= EscrowedFor(a)'
  <2>1. EscrowedFor(a)' = EscrowedFor(a)
    BY DEF EscrowedFor
  <2>2. balance[a][RouterAddr] >= EscrowedFor(a)
    BY DEF RouterInv, EscrowBacked
  <2>3. EscrowedFor(a) \in Nat
    <3>1. escrows \in [ExitIds -> EscrowStates]
      BY DEF RouterInv, RouterTypeOK
    <3>2. EscrowedFor(a) = Total(Held(escrows, a))
      BY DEF Held, EscrowedFor
    <3> QED BY <3>1, <3>2, HeldType
  <2> QED BY <1>1, <2>1, <2>2, <2>3
<1> QED BY <1>2 DEF EscrowBacked

\* One escrow changes: the escrows stay backed if the router's balance of every
\* asset moves at least as far up, or at most as far down, as that escrow.
LEMMA BackedMove ==
  ASSUME RouterInv, NEW id \in ExitIds,
         balance' \in [Tokens -> [Holders -> Nat]],
         escrows' \in [ExitIds -> EscrowStates],
         \A x \in ExitIds : x # id => escrows'[x] = escrows[x],
         \A a \in Assets : balance'[a][RouterAddr] - balance[a][RouterAddr] >=
                               Held(escrows', a)[id] - Held(escrows, a)[id]
  PROVE  EscrowBacked'
<1> SUFFICES ASSUME NEW a \in Assets
             PROVE  balance'[a][RouterAddr] >= EscrowedFor(a)'
  BY DEF EscrowBacked
<1>1. balance[a][RouterAddr] \in Nat /\ balance'[a][RouterAddr] \in Nat
  BY RouterAssumption, TokenAssumption DEF RouterInv, RouterTypeOK, VaultTypeOK, TokenTypeOK
<1>2. escrows \in [ExitIds -> EscrowStates]
  BY DEF RouterInv, RouterTypeOK
<1>3. Held(escrows, a)[id] \in Nat /\ Held(escrows', a)[id] \in Nat
  BY <1>2, HeldType
<1>4. /\ Total(Held(escrows, a)) \in Nat
      /\ Total(Held(escrows', a)) \in Nat
      /\ Total(Held(escrows', a)) =
            Total(Held(escrows, a)) - Held(escrows, a)[id] + Held(escrows', a)[id]
  BY <1>2, HeldMove
<1>5. balance[a][RouterAddr] >= Total(Held(escrows, a))
  BY BackedByHeld DEF RouterInv
<1>6. balance'[a][RouterAddr] >= Total(Held(escrows', a))
  BY <1>1, <1>3, <1>4, <1>5
<1>7. EscrowedFor(a)' = Total(Held(escrows', a))
  BY DEF EscrowedFor, Held
<1> QED BY <1>6, <1>7

\* A step that leaves the vault's storage alone and takes no USDC from it.
LEMMA VaultUntouched ==
  ASSUME VaultInv, UNCHANGED <<vaultStorage, now>>,
         balance' \in [Tokens -> [Holders -> Nat]],
         balance'[Usdc][VaultAddr] >= balance[Usdc][VaultAddr]
  PROVE  VaultInv'
<1>1. VaultTypeOK' /\ Covered' /\ SlotsConsistent'
  BY DEF VaultInv, VaultTypeOK, TokenTypeOK, Covered, SlotsConsistent, vaultStorage
<1>2. VaultSolvent'
  <2>1. nodes' = nodes /\ nodes \in [Nodes -> NodeStates]
    BY DEF VaultInv, VaultTypeOK, vaultStorage
  <2>2. Total(Deposits(nodes)) \in Nat
    <3>1. Deposits(nodes) \in [Nodes -> Nat]
      BY <2>1 DEF Deposits, NodeStates
    <3> QED BY <3>1, VaultAssumption, TotalType
  <2>3. balance[Usdc][VaultAddr] >= Total(Deposits(nodes))
    BY DEF VaultInv, VaultSolvent, Deposits
  <2>4. balance[Usdc][VaultAddr] \in Nat /\ balance'[Usdc][VaultAddr] \in Nat
    BY TokenAssumption, VaultAssumption DEF VaultInv, VaultTypeOK, TokenTypeOK
  <2>5. balance'[Usdc][VaultAddr] >= Total(Deposits(nodes'))
    BY <2>1, <2>2, <2>3, <2>4
  <2> QED BY <2>5 DEF VaultSolvent, Deposits
<1> QED BY <1>1, <1>2 DEF VaultInv

-----------------------------------------------------------------------------
(* One lemma per call.                                                     *)

\* The vault's own calls take no token from the router: nodes and the vault are
\* the only senders.
LEMMA VaultCallsKeepInv ==
  ASSUME RouterInv, Tick \/ VaultAdminCalls \/ NodeCalls \/ AuctionCalls,
         UNCHANGED routerStorage
  PROVE  RouterInv'
<1>1. VaultInv'
  BY VaultInvStep DEF RouterInv, VaultNext
<1>2. RouterTypeOK' /\ RouterSlots'
  BY <1>1 DEF RouterInv, RouterTypeOK, RouterSlots, routerStorage, VaultInv
<1>3. balance \in [Tokens -> [Holders -> Nat]]
  BY DEF RouterInv, VaultInv, VaultTypeOK, TokenTypeOK
<1>4. /\ RouterAddr \in Holders /\ RouterAddr \notin Nodes /\ RouterAddr # VaultAddr
      /\ VaultAddr \in Holders /\ Nodes \subseteq Holders /\ Usdc \in Tokens
      /\ Assets \subseteq Tokens
  BY RouterAssumption, VaultAssumption, TokenAssumption
<1>5. \A a \in Assets : balance'[a][RouterAddr] >= balance[a][RouterAddr]
  <2>1. CASE UNCHANGED balance
    BY <1>3, <1>4, <2>1
  <2>2. CASE \E n \in Nodes, amt \in DepositAmounts : deposit(n, amt)
    <3>1. PICK n \in Nodes, amt \in DepositAmounts : deposit(n, amt)
      BY <2>2
    <3>2. amt \in Nat
      BY <3>1, VaultAssumption DEF deposit
    <3> QED BY <1>3, <1>4, <3>1, <3>2, TransferSpares DEF deposit
  <2>3. CASE \E n \in Nodes : execute_withdrawal(n)
    <3>1. PICK n \in Nodes : execute_withdrawal(n)
      BY <2>3
    <3>2. withdrawals[n].amount \in Nat
      BY DEF RouterInv, VaultInv, VaultTypeOK, WithdrawRequests
    <3> QED BY <1>3, <1>4, <3>1, <3>2, TransferSpares DEF execute_withdrawal
  <2>4. \/ UNCHANGED balance
        \/ \E n \in Nodes, amt \in DepositAmounts : deposit(n, amt)
        \/ \E n \in Nodes : execute_withdrawal(n)
    BY DEF Tick, VaultAdminCalls, NodeCalls, AuctionCalls, vault_initialize,
           vault_set_auction, vault_set_router, vault_set_admin, set_max_single_fill_bps,
           request_withdrawal, cancel_withdrawal, set_appetite, reduce_exposure,
           commit, release
  <2> QED BY <2>1, <2>2, <2>3, <2>4
<1>6. EscrowBacked'
  BY <1>2, <1>5, BackedUntouched DEF routerStorage
<1> QED BY <1>1, <1>2, <1>6 DEF RouterInv

\* initialize and the setters write the configuration only.
LEMMA RouterAdminCallsKeepInv ==
  ASSUME RouterInv, RouterAdminCalls
  PROVE  RouterInv'
<1>1. UNCHANGED <<vaultVars, escrows>>
  BY DEF RouterAdminCalls, router_initialize, router_set_auction, router_set_admin,
         set_treasury, set_protocol_fee_bps
<1>2. VaultInv'
  BY <1>1, VaultInvStep DEF RouterInv
<1>3. /\ routerConfig' \in RouterConfigs
      /\ routerConfig'.stored => routerConfig'.treasury \in Treasuries
  <2> USE DEF RouterInv, RouterTypeOK, RouterConfigs, RouterSlots
  <2>1. CASE \E admin \in Admins, t \in Treasuries, f \in Fees :
                 router_initialize(admin, t, f)
    BY <2>1, RouterAssumption DEF router_initialize
  <2>2. CASE \E g \in Admins, x \in Auctions : router_set_auction(g, x)
    BY <2>2 DEF router_set_auction
  <2>3. CASE \E g \in Admins, x \in Admins : router_set_admin(g, x)
    BY <2>3 DEF router_set_admin
  <2>4. CASE \E g \in Admins, x \in Treasuries : set_treasury(g, x)
    BY <2>4 DEF set_treasury
  <2>5. CASE \E g \in Admins, f \in Fees : set_protocol_fee_bps(g, f)
    BY <2>5, RouterAssumption DEF set_protocol_fee_bps
  <2> QED BY <2>1, <2>2, <2>3, <2>4, <2>5 DEF RouterAdminCalls
<1>4. RouterTypeOK' /\ RouterSlots'
  BY <1>1, <1>2, <1>3 DEF RouterInv, RouterTypeOK, RouterSlots, VaultInv
<1>5. \A a \in Assets : balance'[a][RouterAddr] >= balance[a][RouterAddr]
  <2>1. \A a \in Assets : balance[a][RouterAddr] \in Nat
    BY RouterAssumption, TokenAssumption DEF RouterInv, VaultInv, VaultTypeOK, TokenTypeOK
  <2> QED BY <1>1, <2>1 DEF vaultVars
<1>6. EscrowBacked'
  BY <1>1, <1>4, <1>5, BackedUntouched
<1> QED BY <1>2, <1>4, <1>6 DEF RouterInv

\* An escrow moves the seller's tokens in and records as many.
LEMMA EscrowKeepsInv ==
  ASSUME RouterInv, NEW c, NEW id \in ExitIds, NEW p \in Sellers, NEW a \in Assets,
         NEW amount \in Int, escrow(c, id, p, a, amount),
         UNCHANGED <<vaultStorage, now, routerConfig>>
  PROVE  RouterInv'
<1> DEFINE slot == [stored |-> TRUE, seller |-> p, asset |-> a, amount |-> amount]
<1>1. /\ amount \in Nat /\ ~escrows[id].stored /\ CanTransfer(balance, a, p, amount)
      /\ balance' = Transfer(balance, a, p, RouterAddr, amount)
      /\ escrows' = [escrows EXCEPT ![id] = slot]
  BY DEF escrow
<1>2. /\ p \in Holders /\ RouterAddr \in Holders /\ VaultAddr \in Holders
      /\ p # RouterAddr /\ p # VaultAddr /\ a \in Tokens /\ Usdc \in Tokens
      /\ Assets \subseteq Tokens
  BY RouterAssumption, VaultAssumption, TokenAssumption
<1>3. /\ balance \in [Tokens -> [Holders -> Nat]] /\ escrows \in [ExitIds -> EscrowStates]
      /\ VaultInv
  BY DEF RouterInv, RouterTypeOK, VaultInv, VaultTypeOK, TokenTypeOK
<1>4. /\ balance' \in [Tokens -> [Holders -> Nat]]
      /\ balance'[a][RouterAddr] = balance[a][RouterAddr] + amount
  <2>1. /\ amount \in Nat /\ CanTransfer(balance, a, p, amount)
        /\ balance' = Transfer(balance, a, p, RouterAddr, amount)
    BY <1>1
  <2>2. /\ p \in Holders /\ RouterAddr \in Holders /\ p # RouterAddr /\ a \in Tokens
        /\ balance \in [Tokens -> [Holders -> Nat]]
    BY <1>2, <1>3
  <2> QED BY <2>1, <2>2, TransferEffect
<1>5. /\ balance'[Usdc][VaultAddr] >= balance[Usdc][VaultAddr]
      /\ \A b \in Assets : balance'[b][RouterAddr] >= balance[b][RouterAddr]
  BY <1>1, <1>2, <1>3, TransferSpares
<1>6. VaultInv'
  BY <1>3, <1>4, <1>5, VaultUntouched
<1>7. /\ slot \in EscrowStates /\ escrows' \in [ExitIds -> EscrowStates]
      /\ escrows'[id] = slot /\ \A x \in ExitIds : x # id => escrows'[x] = escrows[x]
  BY <1>1, <1>3 DEF EscrowStates
<1>8. RouterTypeOK' /\ RouterSlots'
  BY <1>6, <1>7 DEF RouterInv, RouterTypeOK, RouterSlots, VaultInv
<1>9. ASSUME NEW b \in Assets
      PROVE  balance'[b][RouterAddr] - balance[b][RouterAddr] >=
                 Held(escrows', b)[id] - Held(escrows, b)[id]
  <2>1. escrows[id] = NoEscrow
    BY <1>1 DEF RouterInv, RouterSlots
  <2>2. Held(escrows, b)[id] = 0 /\ Held(escrows', b)[id] = IF b = a THEN amount ELSE 0
    BY <1>7, <2>1 DEF Held, NoEscrow
  <2>3. balance[b][RouterAddr] \in Nat /\ balance'[b][RouterAddr] \in Nat
    BY <1>2, <1>3, <1>4
  <2> QED BY <1>1, <1>4, <1>5, <2>2, <2>3
<1>10. EscrowBacked'
  BY <1>4, <1>7, <1>9, BackedMove
<1> QED BY <1>6, <1>8, <1>10 DEF RouterInv

\* A refund returns what the escrow holds and clears it, whatever else the call does
\* to the vault's storage.
LEMMA RefundMoves ==
  ASSUME RouterInv, NEW c, NEW id \in ExitIds, refund(c, id)
  PROVE  /\ balance' \in [Tokens -> [Holders -> Nat]]
         /\ balance'[Usdc][VaultAddr] >= balance[Usdc][VaultAddr]
         /\ escrows' \in [ExitIds -> EscrowStates] /\ escrows'[id] = NoEscrow
         /\ \A x \in ExitIds : x # id => escrows'[x] = escrows[x]
         /\ EscrowBacked'
<1> DEFINE esc == escrows[id]
<1>1. /\ esc.stored /\ CanTransfer(balance, esc.asset, RouterAddr, esc.amount)
      /\ balance' = Transfer(balance, esc.asset, RouterAddr, esc.seller, esc.amount)
      /\ escrows' = [escrows EXCEPT ![id] = NoEscrow]
  BY DEF refund
<1>2. balance \in [Tokens -> [Holders -> Nat]] /\ escrows \in [ExitIds -> EscrowStates]
  BY DEF RouterInv, RouterTypeOK, VaultTypeOK, TokenTypeOK
<1>3. esc.seller \in Sellers /\ esc.asset \in Assets /\ esc.amount \in Nat
  BY <1>1, <1>2 DEF RouterInv, RouterSlots, EscrowStates
<1>4. /\ esc.seller \in Holders /\ RouterAddr \in Holders /\ VaultAddr \in Holders
      /\ RouterAddr # VaultAddr /\ esc.asset \in Tokens /\ Usdc \in Tokens
      /\ Assets \subseteq Tokens
  BY <1>3, RouterAssumption, VaultAssumption, TokenAssumption
<1> HIDE DEF esc
<1>5. /\ balance' \in [Tokens -> [Holders -> Nat]]
      /\ balance'[esc.asset][RouterAddr] >= balance[esc.asset][RouterAddr] - esc.amount
  BY <1>1, <1>2, <1>3, <1>4, TransferEffect
<1>6. /\ balance'[Usdc][VaultAddr] >= balance[Usdc][VaultAddr]
      /\ \A b \in Assets : b # esc.asset => balance'[b][RouterAddr] >= balance[b][RouterAddr]
  BY <1>1, <1>2, <1>3, <1>4, TransferSpares
<1>7. /\ escrows' \in [ExitIds -> EscrowStates] /\ escrows'[id] = NoEscrow
      /\ \A x \in ExitIds : x # id => escrows'[x] = escrows[x]
  BY <1>1, <1>2 DEF EscrowStates, NoEscrow
<1>8. ASSUME NEW b \in Assets
      PROVE  balance'[b][RouterAddr] - balance[b][RouterAddr] >=
                 Held(escrows', b)[id] - Held(escrows, b)[id]
  <2>1. /\ Held(escrows, b)[id] = IF b = esc.asset THEN esc.amount ELSE 0
        /\ Held(escrows', b)[id] = 0
    BY <1>7 DEF Held, NoEscrow, esc
  <2>2. balance[b][RouterAddr] \in Nat /\ balance'[b][RouterAddr] \in Nat
    BY <1>2, <1>4, <1>5
  <2> QED BY <1>3, <1>5, <1>6, <2>1, <2>2
<1>9. EscrowBacked'
  BY <1>5, <1>7, <1>8, BackedMove
<1> QED BY <1>5, <1>6, <1>7, <1>9

\* A refund keeps the invariant of the router and of a vault it does not touch.
LEMMA RefundKeepsInv ==
  ASSUME RouterInv, NEW c, NEW id \in ExitIds, refund(c, id),
         UNCHANGED <<vaultStorage, now, routerConfig>>
  PROVE  RouterInv'
<1>1. /\ balance' \in [Tokens -> [Holders -> Nat]]
      /\ balance'[Usdc][VaultAddr] >= balance[Usdc][VaultAddr]
      /\ escrows' \in [ExitIds -> EscrowStates] /\ escrows'[id] = NoEscrow
      /\ \A x \in ExitIds : x # id => escrows'[x] = escrows[x]
      /\ EscrowBacked'
  BY RefundMoves
<1>2. VaultInv'
  BY <1>1, VaultUntouched DEF RouterInv
<1>3. RouterTypeOK' /\ RouterSlots'
  BY <1>1, <1>2 DEF RouterInv, RouterTypeOK, RouterSlots, VaultInv, NoEscrow
<1> QED BY <1>1, <1>2, <1>3 DEF RouterInv

\* The fee is a floored fraction of the gross: a natural number.
LEMMA FeeType ==
  ASSUME routerConfig \in RouterConfigs, NEW u \in Nat
  PROVE  protocol_fee(u) \in Nat
<1>1. routerConfig.protocol_fee_bps \in Nat
  BY RouterAssumption DEF RouterConfigs
<1>2. u * routerConfig.protocol_fee_bps \in Nat
  BY <1>1
<1>3. \A x \in Nat, y \in Nat \ {0} : x \div y \in Nat
  OBVIOUS
<1> QED BY <1>2, <1>3, AddressAssumption DEF protocol_fee

\* The payments of a settlement, on the node's record: both together take the gross
\* off its deposit and its commitment.
LEMMA SettlePays ==
  ASSUME RouterInv, NEW c, NEW id \in ExitIds, NEW n \in Nodes, NEW k \in Int,
         NEW u \in Int, settle(c, id, n, k, u)
  PROVE  /\ u \in Nat
         /\ nodes' \in [Nodes -> NodeStates]
         /\ nodes'[n].deposited = nodes[n].deposited - u
         /\ nodes'[n].committed = nodes[n].committed - u
         /\ nodes'[n].filled = nodes[n].filled + u
         /\ nodes'[n].stored = nodes[n].stored
         /\ \A m \in Nodes : m # n => nodes'[m] = nodes[m]
<1> DEFINE fee == protocol_fee(u)
           net == u - fee
           paid == PayFromCommitted(nodes, n, net)
<1>1. u \in Nat /\ u > 0
  BY DEF settle
<1>2. fee \in Nat
  BY <1>1, FeeType DEF RouterInv, RouterTypeOK
<1>3. /\ net > 0 /\ nodes[n].committed >= net /\ nodes[n].deposited >= net
      /\ fee > 0 => paid[n].committed >= fee /\ paid[n].deposited >= fee
      /\ nodes' = IF fee > 0 THEN PayFromCommitted(paid, n, fee) ELSE paid
  BY DEF settle, PayOutAllowed
<1>4. /\ nodes \in [Nodes -> NodeStates] /\ nodes[n].deposited \in Nat /\ nodes[n].committed \in Nat
      /\ nodes[n].filled \in Nat
  BY DEF RouterInv, VaultInv, VaultTypeOK, NodeStates
<1>5. net \in Nat /\ net + fee = u
  BY <1>1, <1>2, <1>3
<1> HIDE DEF fee, net
<1>6. /\ paid \in [Nodes -> NodeStates]
      /\ paid[n].committed = nodes[n].committed - net
      /\ paid[n].deposited = nodes[n].deposited - net
      /\ paid[n].filled = nodes[n].filled + net
      /\ paid[n].stored = nodes[n].stored
      /\ \A m \in Nodes : m # n => paid[m] = nodes[m]
  BY <1>3, <1>4, <1>5, PayEffect
<1> HIDE DEF paid
<1>7. CASE fee > 0
  <2>1. /\ nodes' \in [Nodes -> NodeStates]
        /\ nodes'[n].committed = paid[n].committed - fee
        /\ nodes'[n].deposited = paid[n].deposited - fee
        /\ nodes'[n].filled = paid[n].filled + fee
        /\ nodes'[n].stored = paid[n].stored
        /\ \A m \in Nodes : m # n => nodes'[m] = paid[m]
    BY <1>2, <1>3, <1>6, <1>7, PayEffect
  <2> QED BY <1>1, <1>2, <1>4, <1>5, <1>6, <2>1
<1>8. CASE ~(fee > 0)
  BY <1>1, <1>2, <1>3, <1>4, <1>5, <1>6, <1>8
<1> QED BY <1>7, <1>8

\* The transfers of a settlement: the vault loses at most the gross in USDC, the
\* router at most the tokens that are sold.
LEMMA SettleMoves ==
  ASSUME RouterInv, NEW c, NEW id \in ExitIds, NEW n \in Nodes, NEW k \in Int,
         NEW u \in Int, settle(c, id, n, k, u)
  PROVE  /\ balance' \in [Tokens -> [Holders -> Nat]]
         /\ balance'[Usdc][VaultAddr] >= balance[Usdc][VaultAddr] - u
         /\ balance'[escrows[id].asset][RouterAddr] >= balance[escrows[id].asset][RouterAddr] - k
         /\ \A b \in Assets : b # escrows[id].asset =>
                balance'[b][RouterAddr] >= balance[b][RouterAddr]
<1> DEFINE esc == escrows[id]
           fee == protocol_fee(u)
           net == u - fee
           sellerPaid == Transfer(balance, Usdc, VaultAddr, esc.seller, net)
           treasury == routerConfig.treasury
           cashMoved == IF fee > 0 THEN Transfer(sellerPaid, Usdc, VaultAddr, treasury, fee)
                        ELSE sellerPaid
<1>1. /\ u \in Nat /\ k \in Nat /\ esc.stored /\ net > 0 /\ routerConfig.stored
      /\ CanTransfer(balance, Usdc, VaultAddr, net)
      /\ fee > 0 => CanTransfer(sellerPaid, Usdc, VaultAddr, fee)
      /\ CanTransfer(cashMoved, esc.asset, RouterAddr, k)
      /\ balance' = Transfer(cashMoved, esc.asset, RouterAddr, n, k)
  BY DEF settle, PayOutAllowed, RouterFromAuction
<1>2. fee \in Nat
  BY <1>1, FeeType DEF RouterInv, RouterTypeOK
<1>3. net \in Nat /\ net + fee = u
  BY <1>1, <1>2
<1>4. balance \in [Tokens -> [Holders -> Nat]]
  BY DEF RouterInv, VaultInv, VaultTypeOK, TokenTypeOK
<1>5. esc.seller \in Sellers /\ esc.asset \in Assets /\ treasury \in Treasuries
  BY <1>1 DEF RouterInv, RouterSlots
<1>6. /\ esc.seller \in Holders /\ treasury \in Holders /\ n \in Holders
      /\ RouterAddr \in Holders /\ VaultAddr \in Holders /\ RouterAddr # VaultAddr
      /\ esc.asset \in Tokens /\ Usdc \in Tokens /\ Assets \subseteq Tokens
  BY <1>5, RouterAssumption, VaultAssumption, TokenAssumption
<1> HIDE DEF fee, net, esc, treasury
<1>7. /\ sellerPaid \in [Tokens -> [Holders -> Nat]]
      /\ sellerPaid[Usdc][VaultAddr] >= balance[Usdc][VaultAddr] - net
  BY <1>1, <1>3, <1>4, <1>6, TransferEffect
<1>8. \A b \in Tokens : sellerPaid[b][RouterAddr] >= balance[b][RouterAddr]
  BY <1>1, <1>3, <1>4, <1>6, TransferSpares
<1> HIDE DEF sellerPaid
<1>9. /\ cashMoved \in [Tokens -> [Holders -> Nat]]
      /\ cashMoved[Usdc][VaultAddr] >= balance[Usdc][VaultAddr] - u
      /\ \A b \in Tokens : cashMoved[b][RouterAddr] >= balance[b][RouterAddr]
  <2>1. /\ \A b \in Tokens : sellerPaid[b][RouterAddr] \in Nat /\ balance[b][RouterAddr] \in Nat
        /\ sellerPaid[Usdc][VaultAddr] \in Nat /\ balance[Usdc][VaultAddr] \in Nat
    BY <1>4, <1>6, <1>7
  <2>2. CASE fee > 0
    <3> DEFINE paidBoth == Transfer(sellerPaid, Usdc, VaultAddr, treasury, fee)
    <3>1. /\ paidBoth \in [Tokens -> [Holders -> Nat]]
          /\ paidBoth[Usdc][VaultAddr] >= sellerPaid[Usdc][VaultAddr] - fee
      BY <1>1, <1>2, <1>6, <1>7, <2>2, TransferEffect
    <3>2. \A b \in Tokens : paidBoth[b][RouterAddr] >= sellerPaid[b][RouterAddr]
      BY <1>1, <1>2, <1>6, <1>7, <2>2, TransferSpares
    <3>3. cashMoved = paidBoth
      BY <2>2
    <3> HIDE DEF paidBoth, cashMoved
    <3>4. \A b \in Tokens : paidBoth[b][RouterAddr] \in Nat /\ paidBoth[b][VaultAddr] \in Nat
      BY <1>6, <3>1
    <3> QED BY <1>2, <1>3, <1>6, <1>7, <1>8, <2>1, <3>1, <3>2, <3>3, <3>4
  <2>3. CASE ~(fee > 0)
    <3>1. cashMoved = sellerPaid
      BY <2>3
    <3> HIDE DEF cashMoved
    <3> QED BY <1>2, <1>3, <1>7, <1>8, <2>1, <2>3, <3>1
  <2> QED BY <2>2, <2>3
<1> HIDE DEF cashMoved
<1>10. /\ balance' \in [Tokens -> [Holders -> Nat]]
       /\ balance'[esc.asset][RouterAddr] >= cashMoved[esc.asset][RouterAddr] - k
  BY <1>1, <1>6, <1>9, TransferEffect
<1>11. /\ balance'[Usdc][VaultAddr] >= cashMoved[Usdc][VaultAddr]
       /\ \A b \in Assets : b # esc.asset => balance'[b][RouterAddr] >= cashMoved[b][RouterAddr]
  BY <1>1, <1>6, <1>9, TransferSpares
<1>12. \A b \in Tokens, h \in {RouterAddr, VaultAddr} :
          balance[b][h] \in Nat /\ balance'[b][h] \in Nat /\ cashMoved[b][h] \in Nat
  BY <1>4, <1>6, <1>9, <1>10
<1> QED BY <1>1, <1>6, <1>9, <1>10, <1>11, <1>12 DEF esc

\* A settlement keeps the vault's invariant: the gross leaves the deposit, the
\* commitment and the vault's balance alike.
LEMMA SettleKeepsVault ==
  ASSUME RouterInv, NEW c, NEW id \in ExitIds, NEW n \in Nodes, NEW k \in Int,
         NEW u \in Int, settle(c, id, n, k, u),
         UNCHANGED <<vaultConfig, appetites, withdrawals, now>>
  PROVE  VaultInv'
<1>1. /\ u \in Nat
      /\ nodes' \in [Nodes -> NodeStates]
      /\ nodes'[n].deposited = nodes[n].deposited - u
      /\ nodes'[n].committed = nodes[n].committed - u
      /\ nodes'[n].stored = nodes[n].stored
      /\ \A m \in Nodes : m # n => nodes'[m] = nodes[m]
  BY SettlePays
<1>2. /\ balance' \in [Tokens -> [Holders -> Nat]]
      /\ balance'[Usdc][VaultAddr] >= balance[Usdc][VaultAddr] - u
  BY SettleMoves
<1>3. VaultInv /\ nodes \in [Nodes -> NodeStates] /\ nodes[n].deposited \in Nat
  BY DEF RouterInv, VaultInv, VaultTypeOK, NodeStates
<1>4. VaultTypeOK'
  BY <1>1, <1>2, <1>3 DEF VaultInv, VaultTypeOK, TokenTypeOK
<1>5. Covered' /\ SlotsConsistent'
  <2>1. \A m \in Nodes : /\ nodes[m].deposited \in Nat /\ nodes[m].committed \in Nat
                         /\ withdrawals[m].amount \in Nat
                         /\ nodes[m].committed + withdrawals[m].amount <= nodes[m].deposited
    BY DEF RouterInv, VaultInv, VaultTypeOK, Covered, NodeStates, WithdrawRequests
  <2>2. Covered'
    BY <1>1, <2>1 DEF Covered
  <2>3. nodes'[n].deposited \in Nat
    BY <1>1 DEF NodeStates
  <2>4. SlotsConsistent'
    BY <1>1, <1>3, <2>1, <2>3 DEF VaultInv, SlotsConsistent
  <2> QED BY <2>2, <2>4
<1>6. VaultSolvent'
  <2>1. /\ Total(Deposits(nodes)) \in Nat
        /\ Total(Deposits(nodes')) = Total(Deposits(nodes)) - u
    BY <1>1, <1>3, DepositsMove
  <2>2. balance[Usdc][VaultAddr] >= Total(Deposits(nodes))
    BY <1>3 DEF VaultInv, VaultSolvent, Deposits
  <2>3. balance[Usdc][VaultAddr] \in Nat /\ balance'[Usdc][VaultAddr] \in Nat
    BY <1>2, <1>3, VaultAssumption, TokenAssumption DEF VaultInv, VaultTypeOK, TokenTypeOK
  <2>4. balance'[Usdc][VaultAddr] >= Total(Deposits(nodes'))
    BY <1>1, <1>2, <2>1, <2>2, <2>3
  <2> QED BY <2>4 DEF VaultSolvent, Deposits
<1> QED BY <1>4, <1>5, <1>6 DEF VaultInv

\* A settlement, in whole or in part, takes off the escrow what leaves the router.
LEMMA SettleKeepsInv ==
  ASSUME RouterInv, NEW c, NEW id \in ExitIds, NEW n \in Nodes, NEW k \in Int,
         NEW u \in Int, settle(c, id, n, k, u),
         UNCHANGED <<vaultConfig, appetites, withdrawals, now, routerConfig>>
  PROVE  RouterInv'
<1> DEFINE esc == escrows[id]
           left == AfterSale(esc, k)
<1>1. VaultInv'
  BY SettleKeepsVault
<1>2. /\ k \in Nat /\ k > 0 /\ esc.stored /\ k <= esc.amount
      /\ escrows' = [escrows EXCEPT ![id] = left]
  BY DEF settle
<1>3. escrows \in [ExitIds -> EscrowStates]
  BY DEF RouterInv, RouterTypeOK
<1>4. esc \in EscrowStates /\ esc.seller \in Sellers /\ esc.asset \in Assets /\ esc.amount \in Nat
  BY <1>2, <1>3 DEF RouterInv, RouterSlots, EscrowStates
<1>5. /\ left \in EscrowStates
      /\ left.amount = esc.amount - k
      /\ IF left.stored THEN left.seller = esc.seller /\ left.asset = esc.asset
         ELSE left = NoEscrow
  <2> HIDE DEF esc
  <2>1. CASE esc.amount = k
    BY <1>4, <2>1 DEF AfterSale, NoEscrow, EscrowStates
  <2>2. CASE esc.amount # k
    <3>1. esc.amount - k \in Nat
      BY <1>2, <1>4
    <3>2. left = [esc EXCEPT !.amount = esc.amount - k]
      BY <2>2 DEF AfterSale
    <3> HIDE DEF left
    <3> QED BY <1>2, <1>4, <3>1, <3>2 DEF EscrowStates
  <2> QED BY <2>1, <2>2
<1> HIDE DEF left
<1>6. /\ escrows' \in [ExitIds -> EscrowStates] /\ escrows'[id] = left
      /\ \A x \in ExitIds : x # id => escrows'[x] = escrows[x]
  BY <1>2, <1>3, <1>5
<1>7. RouterTypeOK'
  BY <1>1, <1>6 DEF RouterInv, RouterTypeOK, VaultInv
<1>8. RouterSlots'
  BY <1>4, <1>5, <1>6 DEF RouterInv, RouterSlots
<1>9. /\ balance' \in [Tokens -> [Holders -> Nat]]
      /\ balance'[esc.asset][RouterAddr] >= balance[esc.asset][RouterAddr] - k
      /\ \A b \in Assets : b # esc.asset => balance'[b][RouterAddr] >= balance[b][RouterAddr]
  BY SettleMoves
<1>10. ASSUME NEW b \in Assets
       PROVE  balance'[b][RouterAddr] - balance[b][RouterAddr] >=
                 Held(escrows', b)[id] - Held(escrows, b)[id]
  <2>1. Held(escrows, b)[id] = IF b = esc.asset THEN esc.amount ELSE 0
    BY DEF Held
  <2>2. Held(escrows', b)[id] = IF left.asset = b THEN left.amount ELSE 0
    BY <1>6 DEF Held
  <2>3. Held(escrows', b)[id] = IF b = esc.asset THEN esc.amount - k ELSE 0
    <3> HIDE DEF esc
    <3>1. CASE left.stored
      BY <1>5, <2>2, <3>1
    <3>2. CASE ~left.stored
      <4>1. left = NoEscrow /\ left.amount = 0 /\ esc.amount - k = 0
        BY <1>5, <3>2 DEF NoEscrow
      <4> QED BY <2>2, <4>1
    <3> QED BY <3>1, <3>2
  <2>4. balance[b][RouterAddr] \in Nat /\ balance'[b][RouterAddr] \in Nat
    BY <1>9, RouterAssumption, TokenAssumption
       DEF RouterInv, VaultInv, VaultTypeOK, TokenTypeOK
  <2> HIDE DEF esc
  <2> QED BY <1>2, <1>4, <1>9, <2>1, <2>3, <2>4
<1>11. EscrowBacked'
  BY <1>6, <1>9, <1>10, BackedMove
<1> QED BY <1>1, <1>7, <1>8, <1>11 DEF RouterInv

-----------------------------------------------------------------------------
(* The theorems.                                                           *)

\* RouterInv holds before the first call.
LEMMA RouterInvInit == RouterInit => RouterInv
<1> SUFFICES ASSUME RouterInit PROVE RouterInv
  OBVIOUS
<1>1. VaultInv
  BY VaultInvInit DEF RouterInit
<1>2. RouterTypeOK /\ RouterSlots
  BY <1>1, RouterAssumption, AddressAssumption
     DEF RouterInit, RouterTypeOK, RouterSlots, VaultInv, NoRouterConfig, RouterConfigs,
         NoEscrow, EscrowStates
<1>3. ASSUME NEW a \in Assets
      PROVE  balance[a][RouterAddr] >= Total(Held(escrows, a))
  <2>1. Held(escrows, a) \in [ExitIds -> Nat] /\ \A id \in ExitIds : Held(escrows, a)[id] = 0
    BY DEF RouterInit, Held, NoEscrow
  <2>2. Total(Held(escrows, a)) = 0
    BY <2>1, TotalZero
  <2>3. balance[a][RouterAddr] \in Nat
    BY <1>1, RouterAssumption, TokenAssumption DEF VaultInv, VaultTypeOK, TokenTypeOK
  <2> QED BY <2>2, <2>3
<1> QED BY <1>1, <1>2, <1>3, BackedByHeld DEF RouterInv

\* Every step keeps RouterInv.
LEMMA RouterInvStep == RouterInv /\ [RouterNext]_routerVars => RouterInv'
<1> SUFFICES ASSUME RouterInv, [RouterNext]_routerVars PROVE RouterInv'
  OBVIOUS
<1>1. CASE (Tick \/ VaultAdminCalls \/ NodeCalls \/ AuctionCalls) /\ UNCHANGED routerStorage
  BY <1>1, VaultCallsKeepInv
<1>2. CASE RouterAdminCalls
  BY <1>2, RouterAdminCallsKeepInv
<1>3. CASE ExitCalls
  <2>1. PICK x \in Auctions, id \in ExitIds :
        \/ /\ \E p \in Sellers, a \in Assets, amt \in SaleAmounts : escrow(x, id, p, a, amt)
           /\ UNCHANGED <<vaultStorage, now, routerConfig>>
        \/ /\ \E n \in Nodes, amt \in SaleAmounts, u \in BidAmounts : settle(x, id, n, amt, u)
           /\ UNCHANGED <<vaultConfig, appetites, withdrawals, now, routerConfig>>
        \/ /\ refund(x, id)
           /\ UNCHANGED <<vaultStorage, now, routerConfig>>
    BY <1>3 DEF ExitCalls
  <2>2. SaleAmounts \subseteq Int /\ BidAmounts \subseteq Int
    BY RouterAssumption, VaultAssumption
  <2> QED BY <2>1, <2>2, EscrowKeepsInv, SettleKeepsInv, RefundKeepsInv
<1>4. CASE UNCHANGED routerVars
  <2>1. UNCHANGED <<vaultVars, routerConfig, escrows>>
    BY <1>4 DEF routerVars, routerStorage
  <2>2. VaultInv'
    BY <2>1, VaultInvStep DEF RouterInv
  <2>3. RouterTypeOK' /\ RouterSlots'
    BY <2>1, <2>2 DEF RouterInv, RouterTypeOK, RouterSlots, VaultInv
  <2>4. EscrowBacked'
    BY <2>1 DEF RouterInv, EscrowBacked, EscrowedFor, vaultVars
  <2> QED BY <2>2, <2>3, <2>4 DEF RouterInv
<1> QED BY <1>1, <1>2, <1>3, <1>4 DEF RouterNext

\* RouterInv holds in every reachable state.
LEMMA RouterInvariance == RouterSpec => []RouterInv
BY RouterInvInit, RouterInvStep, PTL DEF RouterSpec

\* For any number of exits, sellers and nodes the router holds the tokens of every
\* escrow it has recorded, through partial settlements, refunds and escrows made
\* again under an old identifier.
THEOREM EscrowsStayBacked == RouterSpec => []EscrowBacked
<1>1. RouterInv => EscrowBacked
  BY DEF RouterInv
<1> QED BY <1>1, RouterInvariance, PTL

\* Settling through the router, with its two payouts in one step, never lets the
\* vault owe its nodes more USDC than it holds.
THEOREM SettlementKeepsVaultSolvent == RouterSpec => []VaultSolvent
<1>1. RouterInv => VaultSolvent
  BY DEF RouterInv, VaultInv
<1> QED BY <1>1, RouterInvariance, PTL

-----------------------------------------------------------------------------
(* Delivery against payment.                                               *)

\* The fee is never above its ceiling: the division rounds it down.
LEMMA FeeBounded ==
  ASSUME routerConfig \in RouterConfigs, NEW u \in Nat
  PROVE  protocol_fee(u) * BPS_DENOMINATOR <= u * MAX_PROTOCOL_FEE_BPS
<1> DEFINE bps == routerConfig.protocol_fee_bps
<1>1. /\ bps \in Nat /\ bps <= MAX_PROTOCOL_FEE_BPS /\ MAX_PROTOCOL_FEE_BPS \in Nat
      /\ BPS_DENOMINATOR \in Nat \ {0}
  BY RouterAssumption, AddressAssumption DEF RouterConfigs
<1>2. u * bps \in Nat /\ u * MAX_PROTOCOL_FEE_BPS \in Nat /\ u * bps <= u * MAX_PROTOCOL_FEE_BPS
  <2> HIDE DEF bps
  <2>1. \A x, y, z \in Nat : y <= z => x * y <= x * z
    <3> SUFFICES ASSUME NEW x \in Nat, NEW y \in Nat, NEW z \in Nat, y <= z
                 PROVE  x * y <= x * z
      OBVIOUS
    <3>1. z - y \in Nat /\ z = y + (z - y)
      OBVIOUS
    <3>2. x * (z - y) \in Nat /\ x * z = x * y + x * (z - y)
      BY <3>1
    <3> QED BY <3>2
  <2> QED BY <1>1, <2>1
<1>3. \A x \in Nat, y \in Nat \ {0} : (x \div y) * y <= x
  OBVIOUS
<1>4. protocol_fee(u) * BPS_DENOMINATOR <= u * bps
  BY <1>1, <1>2, <1>3 DEF protocol_fee
<1>5. protocol_fee(u) * BPS_DENOMINATOR \in Nat
  BY <1>1, FeeType
<1> QED BY <1>2, <1>4, <1>5

\* What one transfer does to all balances.
LEMMA PartiesPaid ==
  ASSUME RouterInv, NEW t \in Tokens, NEW from \in Holders, NEW to \in Holders, from # to,
         NEW k \in Nat, CanTransfer(balance, t, from, k),
         balance' = Transfer(balance, t, from, to, k)
  PROVE  \A u \in Tokens, h \in Holders :
            balance'[u][h] = balance[u][h] + (IF u = t /\ h = to THEN k ELSE 0)
                                           - (IF u = t /\ h = from THEN k ELSE 0)
<1>1. balance \in [Tokens -> [Holders -> Nat]]
  BY DEF RouterInv, RouterTypeOK, VaultTypeOK, TokenTypeOK
<1> DEFINE b == Transfer(balance, t, from, to, k)
<1>2. \A u \in Tokens, h \in Holders :
         b[u][h] = balance[u][h] + (IF u = t /\ h = to THEN k ELSE 0)
                                 - (IF u = t /\ h = from THEN k ELSE 0)
  BY <1>1, TransferAll
<1> HIDE DEF b
<1>3. balance' = b
  BY DEF b
<1> QED BY <1>2, <1>3

\* The balance of token t that a settlement leaves a holder h other than the vault: the
\* seller gets the net and the treasury the fee, both from the vault, and the node the tokens
\* from the router.
SettledBalance(id, n, k, u, t, h) ==
    balance[t][h]
      + (IF t = Usdc /\ h = escrows[id].seller THEN u - protocol_fee(u) ELSE 0)
      + (IF t = Usdc /\ h = routerConfig.treasury THEN protocol_fee(u) ELSE 0)
      + (IF t = escrows[id].asset /\ h = n THEN k ELSE 0)
      - (IF t = escrows[id].asset /\ h = RouterAddr THEN k ELSE 0)

\* The transfers of a settlement to the last unit, for every token and holder but the vault.
LEMMA SettleBalances ==
  ASSUME RouterInv, VaultAddr \notin Treasuries, NEW c, NEW id \in ExitIds, NEW n \in Nodes,
         NEW k \in Int, NEW u \in Int, settle(c, id, n, k, u)
  PROVE  \A t \in Tokens, h \in Holders \ {VaultAddr} :
            balance'[t][h] = SettledBalance(id, n, k, u, t, h)
<1> TAKE t \in Tokens, h \in Holders \ {VaultAddr}
<1> DEFINE a == escrows[id].asset
           p == escrows[id].seller
           tr == routerConfig.treasury
           fee == protocol_fee(u)
           net == u - fee
           sellerPaid == Transfer(balance, Usdc, VaultAddr, p, net)
           bothPaid == Transfer(sellerPaid, Usdc, VaultAddr, tr, fee)
           cashMoved == IF fee > 0 THEN bothPaid ELSE sellerPaid
<1>1. /\ u \in Nat /\ k \in Nat /\ escrows[id].stored /\ net > 0 /\ routerConfig.stored
      /\ CanTransfer(balance, Usdc, VaultAddr, net)
      /\ fee > 0 => CanTransfer(sellerPaid, Usdc, VaultAddr, fee)
      /\ CanTransfer(cashMoved, a, RouterAddr, k)
      /\ balance' = Transfer(cashMoved, a, RouterAddr, n, k)
  BY DEF settle, PayOutAllowed, RouterFromAuction
<1>2. fee \in Nat /\ net \in Nat
  BY <1>1, FeeType DEF RouterInv, RouterTypeOK
<1>3. balance \in [Tokens -> [Holders -> Nat]]
  BY DEF RouterInv, VaultInv, VaultTypeOK, TokenTypeOK
<1>4. p \in Sellers /\ a \in Assets /\ tr \in Treasuries
  BY <1>1 DEF RouterInv, RouterSlots
<1>5. /\ p \in Holders /\ tr \in Holders /\ n \in Holders /\ RouterAddr \in Holders
      /\ VaultAddr \in Holders /\ a \in Tokens /\ Usdc \in Tokens
      /\ p # VaultAddr /\ tr # VaultAddr /\ n # RouterAddr
      /\ h \in Holders /\ h # VaultAddr
  BY <1>4, RouterAssumption, VaultAssumption, TokenAssumption
<1> HIDE DEF a, p, tr, fee, net
<1>6. /\ sellerPaid \in [Tokens -> [Holders -> Nat]]
      /\ \A s \in Tokens, g \in Holders :
            sellerPaid[s][g] = balance[s][g] + (IF s = Usdc /\ g = p THEN net ELSE 0)
                                             - (IF s = Usdc /\ g = VaultAddr THEN net ELSE 0)
  <2>1. /\ CanTransfer(balance, Usdc, VaultAddr, net) /\ net \in Nat /\ VaultAddr # p
        /\ VaultAddr \in Holders /\ p \in Holders /\ Usdc \in Tokens
        /\ balance \in [Tokens -> [Holders -> Nat]]
    BY <1>1, <1>2, <1>3, <1>5
  <2> QED BY <2>1, TransferAll
<1> HIDE DEF sellerPaid
<1>7. /\ cashMoved \in [Tokens -> [Holders -> Nat]]
      /\ cashMoved[t][h] = sellerPaid[t][h] + (IF t = Usdc /\ h = tr THEN fee ELSE 0)
  <2>1. sellerPaid[t][h] \in Nat
    BY <1>5, <1>6
  <2>2. CASE fee > 0
    <3>1. /\ bothPaid \in [Tokens -> [Holders -> Nat]]
          /\ \A s \in Tokens, g \in Holders :
                bothPaid[s][g] = sellerPaid[s][g] + (IF s = Usdc /\ g = tr THEN fee ELSE 0)
                                                  - (IF s = Usdc /\ g = VaultAddr THEN fee ELSE 0)
      <4>1. /\ CanTransfer(sellerPaid, Usdc, VaultAddr, fee) /\ fee \in Nat /\ VaultAddr # tr
            /\ VaultAddr \in Holders /\ tr \in Holders /\ Usdc \in Tokens
            /\ sellerPaid \in [Tokens -> [Holders -> Nat]]
        BY <1>1, <1>2, <1>5, <1>6, <2>2
      <4> QED BY <4>1, TransferAll
    <3> HIDE DEF bothPaid
    <3> QED BY <1>2, <1>5, <2>1, <2>2, <3>1
  <2>3. CASE ~(fee > 0)
    BY <1>2, <1>6, <2>1, <2>3
  <2> QED BY <2>2, <2>3
<1> HIDE DEF cashMoved
<1>8. \A s \in Tokens, g \in Holders :
         balance'[s][g] = cashMoved[s][g] + (IF s = a /\ g = n THEN k ELSE 0)
                                          - (IF s = a /\ g = RouterAddr THEN k ELSE 0)
  <2> DEFINE delivered == Transfer(cashMoved, a, RouterAddr, n, k)
  <2>1. \A s \in Tokens, g \in Holders :
           delivered[s][g] = cashMoved[s][g] + (IF s = a /\ g = n THEN k ELSE 0)
                                             - (IF s = a /\ g = RouterAddr THEN k ELSE 0)
    <3>1. /\ CanTransfer(cashMoved, a, RouterAddr, k) /\ k \in Nat /\ RouterAddr # n
          /\ RouterAddr \in Holders /\ n \in Holders /\ a \in Tokens
          /\ cashMoved \in [Tokens -> [Holders -> Nat]]
      BY <1>1, <1>5, <1>7
    <3> QED BY <3>1, TransferAll
  <2> HIDE DEF delivered
  <2> QED BY <1>1, <2>1 DEF delivered
<1> DEFINE c1 == IF t = Usdc /\ h = p THEN net ELSE 0
           c2 == IF t = Usdc /\ h = tr THEN fee ELSE 0
           c3 == IF t = a /\ h = n THEN k ELSE 0
           c4 == IF t = a /\ h = RouterAddr THEN k ELSE 0
<1>9. c1 \in Nat /\ c2 \in Nat /\ c3 \in Nat /\ c4 \in Nat /\ balance[t][h] \in Nat
  BY <1>1, <1>2, <1>3, <1>5
<1>10. /\ sellerPaid[t][h] = balance[t][h] + c1 - 0
       /\ cashMoved[t][h] = sellerPaid[t][h] + c2
       /\ balance'[t][h] = cashMoved[t][h] + c3 - c4
  BY <1>5, <1>6, <1>7, <1>8
<1> HIDE DEF c1, c2, c3, c4
<1>11. balance'[t][h] = balance[t][h] + c1 + c2 + c3 - c4
  BY <1>9, <1>10
<1> QED BY <1>11 DEF SettledBalance, a, p, tr, fee, net, c1, c2, c3, c4

\* What SettleBalances says of those who take part, when they are distinct.
LEMMA SettleDelivers ==
  ASSUME PartiesDistinct, RouterInv, NEW c, NEW id \in ExitIds, NEW n \in Nodes,
         NEW k \in Int, NEW u \in Int, settle(c, id, n, k, u)
  PROVE  /\ balance'[escrows[id].asset][n] - balance[escrows[id].asset][n] = k
         /\ balance'[Usdc][escrows[id].seller] - balance[Usdc][escrows[id].seller] =
               u - protocol_fee(u)
         /\ balance'[Usdc][routerConfig.treasury] - balance[Usdc][routerConfig.treasury] =
               protocol_fee(u)
<1> DEFINE a == escrows[id].asset
           p == escrows[id].seller
           tr == routerConfig.treasury
           fee == protocol_fee(u)
<1>1. escrows[id].stored /\ routerConfig.stored /\ u \in Nat /\ k \in Nat
  BY DEF settle, RouterFromAuction
<1>2. fee \in Nat
  BY <1>1, FeeType DEF RouterInv, RouterTypeOK
<1>3. p \in Sellers /\ a \in Assets /\ tr \in Treasuries
  BY <1>1 DEF RouterInv, RouterSlots
<1>4. VaultAddr \notin Treasuries
  BY DEF PartiesDistinct
<1>5. /\ p \in Holders \ {VaultAddr} /\ tr \in Holders \ {VaultAddr} /\ n \in Holders \ {VaultAddr}
      /\ a \in Tokens /\ Usdc \in Tokens /\ tr # p /\ n # RouterAddr /\ p # RouterAddr /\ a # Usdc
  BY <1>3, RouterAssumption, VaultAssumption, TokenAssumption DEF PartiesDistinct
<1>6. balance \in [Tokens -> [Holders -> Nat]]
  BY DEF RouterInv, VaultInv, VaultTypeOK, TokenTypeOK
<1>7. balance[a][n] \in Nat /\ balance[Usdc][p] \in Nat /\ balance[Usdc][tr] \in Nat
  BY <1>5, <1>6
<1>8. \A t \in Tokens, h \in Holders \ {VaultAddr} :
         balance'[t][h] = SettledBalance(id, n, k, u, t, h)
  BY <1>4, SettleBalances
<1> HIDE DEF a, p, tr, fee
<1>9. /\ balance'[a][n] = balance[a][n] + 0 + 0 + k - 0
      /\ balance'[Usdc][p] = balance[Usdc][p] + (u - fee) + 0 + 0 - 0
      /\ balance'[Usdc][tr] = balance[Usdc][tr] + 0 + fee + 0 - 0
  BY <1>5, <1>8 DEF SettledBalance, a, p, tr, fee
<1> QED BY <1>1, <1>2, <1>7, <1>9 DEF a, p, tr, fee

\* What DeliveryAgainstPayment asks of one exit in one step.
Delivered(id) ==
    LET esc == escrows[id]
        sold == esc.amount - escrows'[id].amount
    IN  (esc.stored /\ escrows'[id] # esc) =>
          \/ /\ ~escrows'[id].stored
             /\ Gain(esc.asset, esc.seller) = esc.amount
             /\ UNCHANGED nodes
             /\ Gain(Usdc, VaultAddr) = 0
          \/ \E n \in Nodes :
               LET gross == nodes'[n].filled - nodes[n].filled
                   fee == Gain(Usdc, routerConfig.treasury)
               IN  /\ gross > 0 /\ Gain(esc.asset, n) = sold
                   /\ Gain(Usdc, esc.seller) = quote_net(gross)
                   /\ fee = gross - quote_net(gross)
                   /\ fee * BPS_DENOMINATOR <= gross * MAX_PROTOCOL_FEE_BPS
                   /\ nodes[n].deposited - nodes'[n].deposited = gross
                   /\ nodes[n].committed - nodes'[n].committed = gross

\* A refund gives back everything and moves no USDC of the vault.
LEMMA RefundDelivers ==
  ASSUME RouterInv, NEW c, NEW id \in ExitIds, refund(c, id), UNCHANGED nodes
  PROVE  Delivered(id)
<1> DEFINE esc == escrows[id]
<1>1. /\ esc.stored /\ CanTransfer(balance, esc.asset, RouterAddr, esc.amount)
      /\ balance' = Transfer(balance, esc.asset, RouterAddr, esc.seller, esc.amount)
      /\ escrows' = [escrows EXCEPT ![id] = NoEscrow]
  BY DEF refund
<1>2. balance \in [Tokens -> [Holders -> Nat]] /\ escrows \in [ExitIds -> EscrowStates]
  BY DEF RouterInv, RouterTypeOK, VaultTypeOK, TokenTypeOK
<1>3. esc.seller \in Sellers /\ esc.asset \in Assets /\ esc.amount \in Nat
  BY <1>1, <1>2 DEF RouterInv, RouterSlots, EscrowStates
<1>4. /\ esc.seller \in Holders /\ RouterAddr \in Holders /\ VaultAddr \in Holders
      /\ RouterAddr # VaultAddr /\ RouterAddr # esc.seller /\ VaultAddr # esc.seller
      /\ esc.asset \in Tokens /\ Usdc \in Tokens
  BY <1>3, RouterAssumption, VaultAssumption, TokenAssumption
<1>5. ~escrows'[id].stored
  BY <1>1, <1>2 DEF NoEscrow
<1>6. balance[esc.asset][esc.seller] \in Nat /\ balance[Usdc][VaultAddr] \in Nat
  BY <1>2, <1>4
<1> HIDE DEF esc
<1>7. \A t \in Tokens, h \in Holders :
         balance'[t][h] = balance[t][h]
            + (IF t = esc.asset /\ h = esc.seller THEN esc.amount ELSE 0)
            - (IF t = esc.asset /\ h = RouterAddr THEN esc.amount ELSE 0)
  <2> DEFINE a == esc.asset
             p == esc.seller
             k == esc.amount
             refunded == Transfer(balance, a, RouterAddr, p, k)
  <2>1. /\ CanTransfer(balance, a, RouterAddr, k) /\ k \in Nat
        /\ RouterAddr # p /\ RouterAddr \in Holders /\ p \in Holders
        /\ a \in Tokens /\ balance \in [Tokens -> [Holders -> Nat]]
    BY <1>1, <1>2, <1>3, <1>4
  <2> HIDE DEF a, p, k
  <2>2. \A t \in Tokens, h \in Holders :
           refunded[t][h] = balance[t][h] + (IF t = a /\ h = p THEN k ELSE 0)
                                          - (IF t = a /\ h = RouterAddr THEN k ELSE 0)
    BY <2>1, TransferAll
  <2> HIDE DEF refunded
  <2>3. balance' = refunded
    BY <1>1 DEF refunded, a, p, k
  <2> QED BY <2>2, <2>3 DEF a, p, k
<1>8. Gain(esc.asset, esc.seller) = esc.amount /\ Gain(Usdc, VaultAddr) = 0
  BY <1>3, <1>4, <1>6, <1>7 DEF Gain
<1> QED BY <1>5, <1>8 DEF Delivered, esc

\* A settlement, in whole or in part, delivers what it sells to the node whose
\* commitment pays the gross.
LEMMA SettlementDelivers ==
  ASSUME PartiesDistinct, RouterInv, NEW c, NEW id \in ExitIds, NEW n \in Nodes,
         NEW k \in Int, NEW u \in Int, settle(c, id, n, k, u)
  PROVE  Delivered(id)
<1> DEFINE esc == escrows[id]
           gross == nodes'[n].filled - nodes[n].filled
           paid == Gain(Usdc, routerConfig.treasury)
<1>1. /\ u \in Nat /\ u > 0
      /\ nodes'[n].deposited = nodes[n].deposited - u
      /\ nodes'[n].committed = nodes[n].committed - u
      /\ nodes'[n].filled = nodes[n].filled + u
  BY SettlePays DEF settle
<1>2. nodes[n].filled \in Nat /\ nodes[n].committed \in Nat /\ nodes[n].deposited \in Nat
  BY DEF RouterInv, VaultInv, VaultTypeOK, NodeStates
<1>3. /\ gross = u /\ nodes[n].deposited - nodes'[n].deposited = gross
      /\ nodes[n].committed - nodes'[n].committed = gross
  BY <1>1, <1>2
<1>4. routerConfig \in RouterConfigs /\ escrows \in [ExitIds -> EscrowStates]
  BY DEF RouterInv, RouterTypeOK
<1>5. Gain(esc.asset, n) = k /\ Gain(Usdc, esc.seller) = quote_net(u) /\ paid = protocol_fee(u)
  BY <1>1, SettleDelivers DEF Gain, quote_net, protocol_fee
<1>6. protocol_fee(u) = u - quote_net(u)
  <2>1. protocol_fee(u) \in Nat /\ quote_net(u) = u - protocol_fee(u)
    BY <1>1, <1>4, FeeType DEF quote_net, protocol_fee
  <2> QED BY <1>1, <2>1
<1>7. paid * BPS_DENOMINATOR <= gross * MAX_PROTOCOL_FEE_BPS
  BY <1>1, <1>3, <1>4, <1>5, FeeBounded
<1>8. esc.amount - escrows'[id].amount = k
  <2>1. /\ escrows'[id] = AfterSale(esc, k) /\ k \in Nat /\ esc \in EscrowStates
    BY <1>4 DEF settle
  <2>2. esc.amount \in Nat
    BY <2>1 DEF EscrowStates
  <2> HIDE DEF esc
  <2>3. CASE esc.amount = k
    BY <2>1, <2>2, <2>3 DEF AfterSale, NoEscrow
  <2>4. CASE esc.amount # k
    <3>1. escrows'[id].amount = esc.amount - k
      BY <2>1, <2>4 DEF AfterSale, EscrowStates
    <3> QED BY <2>1, <2>2, <3>1
  <2> QED BY <2>3, <2>4
<1>9. /\ gross > 0 /\ Gain(esc.asset, n) = esc.amount - escrows'[id].amount
      /\ Gain(Usdc, esc.seller) = quote_net(gross)
      /\ paid = gross - quote_net(gross)
  BY <1>1, <1>3, <1>5, <1>6, <1>8
<1> QED BY <1>3, <1>7, <1>9, Zenon DEF Delivered

\* Escrowed tokens leave only against payment or back to their seller: for any number of
\* exits and nodes, partial settlements included, whatever the wired auction calls, as
\* long as fee, seller and vault are different parties.
THEOREM TokensAgainstPayment == PartiesDistinct => (RouterSpec => DeliveryAgainstPayment)
<1> SUFFICES ASSUME PartiesDistinct PROVE RouterSpec => DeliveryAgainstPayment
  OBVIOUS
<1> DEFINE AllDelivered ==
      \A id \in ExitIds :
          LET esc == escrows[id]
              sold == esc.amount - escrows'[id].amount
          IN  (esc.stored /\ escrows'[id] # esc) =>
                \/ /\ ~escrows'[id].stored
                   /\ Gain(esc.asset, esc.seller) = esc.amount
                   /\ UNCHANGED nodes
                   /\ Gain(Usdc, VaultAddr) = 0
                \/ \E n \in Nodes :
                     LET gross == nodes'[n].filled - nodes[n].filled
                         fee == Gain(Usdc, routerConfig.treasury)
                     IN  /\ gross > 0 /\ Gain(esc.asset, n) = sold
                         /\ Gain(Usdc, esc.seller) = quote_net(gross)
                         /\ fee = gross - quote_net(gross)
                         /\ fee * BPS_DENOMINATOR <= gross * MAX_PROTOCOL_FEE_BPS
                         /\ nodes[n].deposited - nodes'[n].deposited = gross
                         /\ nodes[n].committed - nodes'[n].committed = gross
<1>1. ASSUME RouterInv, RouterNext, NEW id \in ExitIds
      PROVE  Delivered(id)
  <2>1. CASE UNCHANGED escrows
    BY <2>1 DEF Delivered
  <2>2. CASE ExitCalls
    <3>1. PICK x \in Auctions, y \in ExitIds :
        \/ \E p \in Sellers, a \in Assets, amt \in SaleAmounts : escrow(x, y, p, a, amt)
        \/ \E n \in Nodes, amt \in SaleAmounts, u \in BidAmounts : settle(x, y, n, amt, u)
        \/ refund(x, y) /\ UNCHANGED nodes
      BY <2>2 DEF ExitCalls, vaultStorage
    <3>2. escrows \in [ExitIds -> EscrowStates]
      BY <1>1 DEF RouterInv, RouterTypeOK
    <3>3. CASE y # id
      <4>1. escrows'[id] = escrows[id]
        BY <3>1, <3>2, <3>3 DEF escrow, settle, refund
      <4> QED BY <4>1 DEF Delivered
    <3>4. CASE y = id
      <4>1. CASE \E p \in Sellers, a \in Assets, amt \in SaleAmounts : escrow(x, id, p, a, amt)
        BY <4>1 DEF escrow, Delivered
      <4>2. CASE \E n \in Nodes, amt \in SaleAmounts, u \in BidAmounts : settle(x, id, n, amt, u)
        <5>1. SaleAmounts \subseteq Int /\ BidAmounts \subseteq Int
          BY RouterAssumption, VaultAssumption
        <5> QED BY <1>1, <4>2, <5>1, SettlementDelivers
      <4>3. CASE refund(x, id) /\ UNCHANGED nodes
        BY <1>1, <4>3, RefundDelivers
      <4> QED BY <3>1, <3>4, <4>1, <4>2, <4>3
    <3> QED BY <3>3, <3>4
  <2>3. CASE UNCHANGED routerStorage
    BY <2>1, <2>3 DEF routerStorage
  <2>4. CASE RouterAdminCalls
    BY <2>1, <2>4 DEF RouterAdminCalls, router_initialize, router_set_auction,
                      router_set_admin, set_treasury, set_protocol_fee_bps
  <2> QED BY <1>1, <2>2, <2>3, <2>4 DEF RouterNext
<1>2. RouterInv /\ [RouterNext]_routerVars => [AllDelivered]_routerVars
  BY <1>1 DEF Delivered
<1> QED BY <1>2, RouterInvariance, PTL DEF RouterSpec, DeliveryAgainstPayment
=============================================================================
