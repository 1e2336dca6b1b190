----------------------- MODULE MarketRefinementProofs -----------------------
(***************************************************************************)
(* The exit layer implements the market of ExitMarket for every value of   *)
(* the constants: seen through what each party owns, a call of any of the  *)
(* four contracts is a step of the market or changes nothing.  And the     *)
(* market serves first who waited longest, by the history that             *)
(* MCExitAuction keeps of the lines.                                       *)
(***************************************************************************)
EXTENDS MCExitAuction, ExitAuctionProofs, SequenceTheorems

\* The market's deals.
Deals == [id \in ExitIds |-> DealOf(exits[id])]

\* A call that leaves exits, lines and everybody's wealth alone changes nothing in the
\* market.
LEMMA NothingSold ==
  ASSUME UNCHANGED <<exits, queues, OwnedBy>>
  PROVE  UNCHANGED Market!marketVars
BY DEF Market!marketVars, DealOf

\* The market starts where the layer does.
LEMMA MarketOpens ==
  ASSUME LayerInv, balance = InitialBalance, nodes = [n \in Nodes |-> NoNode],
         escrows = [id \in ExitIds |-> NoEscrow],
         queues = [a \in Assets |-> <<>>], NothingOpened
  PROVE  Market!MarketInit
<1>1. \A id \in ExitIds : DealOf(exits[id]) = Market!NoDeal
  BY DEF NothingOpened, NoExit, DealOf, Market!NoDeal
<1>2. ASSUME NEW t \in Tokens, NEW h \in Parties
      PROVE  balance[t][h] + Kept(t, h) = InitialBalance[t][h]
  <2>1. h \in Holders
    BY VaultAssumption, RouterAssumption DEF Parties
  <2>2. InitialBalance[t][h] \in Nat
    BY <2>1, TokenAssumption
  <2>3. EscrowedBy(t, h) = 0
    <3> DEFINE f == [id \in ExitIds |->
            IF escrows[id].stored /\ escrows[id].asset = t /\ escrows[id].seller = h
            THEN escrows[id].amount ELSE 0]
    <3>1. f \in [ExitIds -> Nat] /\ \A id \in ExitIds : f[id] = 0
      BY DEF NoEscrow
    <3> HIDE DEF f
    <3>2. Total(f) = 0
      BY <3>1, TotalZero
    <3> QED BY <3>2 DEF f, EscrowedBy
  <2>4. Kept(t, h) = 0
    BY <2>3 DEF Kept, NoNode
  <2> QED BY <2>2, <2>4
<1> QED BY <1>1, <1>2 DEF Market!MarketInit, OwnedBy

-----------------------------------------------------------------------------
(* What the parties own.                                                   *)

\* The escrows of one seller in one token, exit by exit.
Slots(es, t, p) ==
    [id \in ExitIds |-> IF es[id].stored /\ es[id].asset = t /\ es[id].seller = p
                        THEN es[id].amount ELSE 0]

\* What is kept in escrow for a seller is a number.
LEMMA SlotsType ==
  ASSUME NEW es \in [ExitIds -> EscrowStates], NEW t, NEW p
  PROVE  /\ IsFiniteSet(ExitIds)
         /\ Slots(es, t, p) \in [ExitIds -> Nat]
         /\ Total(Slots(es, t, p)) \in Nat
<1>1. Slots(es, t, p) \in [ExitIds -> Nat]
  BY DEF Slots, EscrowStates
<1>2. IsFiniteSet(ExitIds)
  BY AddressAssumption, FS_Interval DEF ExitIds
<1> QED BY <1>1, <1>2, TotalType

\* It moves by what one escrow moves.
LEMMA EscrowedMove ==
  ASSUME escrows \in [ExitIds -> EscrowStates], escrows' \in [ExitIds -> EscrowStates],
         NEW id \in ExitIds, \A x \in ExitIds : x # id => escrows'[x] = escrows[x],
         NEW t, NEW p
  PROVE  EscrowedBy(t, p)' =
            EscrowedBy(t, p) - Slots(escrows, t, p)[id] + Slots(escrows', t, p)[id]
<1>1. EscrowedBy(t, p) = Total(Slots(escrows, t, p))
  BY DEF EscrowedBy, Slots
<1>2. EscrowedBy(t, p)' = Total(Slots(escrows', t, p))
  BY DEF EscrowedBy, Slots
<1>3. /\ IsFiniteSet(ExitIds)
      /\ Slots(escrows, t, p) \in [ExitIds -> Nat] /\ Slots(escrows', t, p) \in [ExitIds -> Nat]
  BY SlotsType
<1>4. \A x \in ExitIds : x # id => Slots(escrows', t, p)[x] = Slots(escrows, t, p)[x]
  BY DEF Slots
<1>5. Total(Slots(escrows', t, p)) =
         Total(Slots(escrows, t, p)) - Slots(escrows, t, p)[id] + Slots(escrows', t, p)[id]
  BY <1>3, <1>4, TotalChange
<1> QED BY <1>1, <1>2, <1>5

\* The parties hold tokens, and neither the vault nor the router is one of them.
LEMMA PartiesOutside ==
  /\ Parties \subseteq Holders \ {VaultAddr, RouterAddr}
  /\ Nodes \subseteq Parties /\ Sellers \subseteq Parties /\ Treasuries \subseteq Parties
  /\ VaultAddr \in Holders /\ RouterAddr \in Holders
  /\ Usdc \in Tokens /\ Assets \subseteq Tokens
BY TokenAssumption, VaultAssumption, RouterAssumption, TreasuryOutside DEF Parties

\* What a party owns is the sum of three natural numbers.
LEMMA OwnedType ==
  ASSUME RouterInv, NEW t \in Tokens, NEW h \in Parties
  PROVE  /\ balance[t][h] \in Nat
         /\ EscrowedBy(t, h) \in Nat
         /\ h \in Nodes => nodes[h].deposited \in Nat
         /\ Kept(t, h) \in Nat
         /\ OwnedBy[t][h] = balance[t][h] + Kept(t, h)
<1>1. /\ balance \in [Tokens -> [Holders -> Nat]] /\ nodes \in [Nodes -> NodeStates]
      /\ escrows \in [ExitIds -> EscrowStates]
  BY DEF RouterInv, RouterTypeOK, VaultTypeOK, TokenTypeOK
<1>2. balance[t][h] \in Nat
  BY <1>1, PartiesOutside
<1>3. EscrowedBy(t, h) \in Nat
  <2>1. EscrowedBy(t, h) = Total(Slots(escrows, t, h))
    BY DEF EscrowedBy, Slots
  <2> QED BY <1>1, <2>1, SlotsType
<1>4. h \in Nodes => nodes[h].deposited \in Nat
  BY <1>1 DEF NodeStates
<1>5. Kept(t, h) \in Nat
  BY <1>3, <1>4 DEF Kept
<1> QED BY <1>2, <1>3, <1>4, <1>5 DEF OwnedBy

\* Nobody's wealth changes if what an address loses is kept for it, and the other way
\* around.
LEMMA WealthStays ==
  ASSUME \A t \in Tokens, h \in Parties :
            balance'[t][h] + Kept(t, h)' = balance[t][h] + Kept(t, h)
  PROVE  UNCHANGED OwnedBy
BY DEF OwnedBy

\* Deposits and withdrawals move USDC between a node's address and its account in the
\* vault; nothing else that a node calls moves any.
LEMMA NodesKeepWealth ==
  ASSUME RouterInv, NodeCalls, UNCHANGED escrows
  PROVE  UNCHANGED OwnedBy
<1>1. \A t \in Tokens, h \in Parties : EscrowedBy(t, h)' = EscrowedBy(t, h)
  BY DEF EscrowedBy
<1>2. nodes \in [Nodes -> NodeStates] /\ withdrawals \in [Nodes -> WithdrawRequests]
  BY DEF RouterInv, RouterTypeOK, VaultTypeOK
<1>3. CASE UNCHANGED <<balance, nodes>>
  <2>1. \A t \in Tokens, h \in Parties : Kept(t, h)' = Kept(t, h)
    BY <1>1, <1>3 DEF Kept
  <2> QED BY <1>3, <2>1, WealthStays
<1>4. ASSUME NEW n \in Nodes, NEW k \in Nat, NEW from \in Holders, NEW to \in Holders,
             CanTransfer(balance, Usdc, from, k),
             balance' = Transfer(balance, Usdc, from, to, k),
             \A m \in Nodes : m # n => nodes'[m] = nodes[m],
             \/ from = n /\ to = VaultAddr /\ nodes'[n].deposited = nodes[n].deposited + k
             \/ from = VaultAddr /\ to = n /\ nodes'[n].deposited = nodes[n].deposited - k
      PROVE  UNCHANGED OwnedBy
  <2>1. SUFFICES ASSUME NEW t \in Tokens, NEW h \in Parties
                 PROVE  balance'[t][h] + Kept(t, h)' = balance[t][h] + Kept(t, h)
    BY WealthStays
  <2>2. h \in Holders /\ h # VaultAddr /\ n # VaultAddr /\ from # to /\ Usdc \in Tokens
    BY <1>4, PartiesOutside
  <2>3. balance'[t][h] = balance[t][h] + (IF t = Usdc /\ h = to THEN k ELSE 0)
                                       - (IF t = Usdc /\ h = from THEN k ELSE 0)
    BY <1>4, <2>2, PartiesPaid
  <2>4. /\ balance[t][h] \in Nat /\ EscrowedBy(t, h) \in Nat
        /\ h \in Nodes => nodes[h].deposited \in Nat
    BY OwnedType
  <2>5. CASE t = Usdc /\ h = n
    <3>1. /\ Kept(t, h) = nodes[n].deposited + (IF h \in Sellers THEN EscrowedBy(t, h) ELSE 0)
          /\ Kept(t, h)' = nodes'[n].deposited + (IF h \in Sellers THEN EscrowedBy(t, h) ELSE 0)
      BY <1>1, <2>5 DEF Kept
    <3> QED BY <1>4, <2>2, <2>3, <2>4, <2>5, <3>1
  <2>6. CASE ~(t = Usdc /\ h = n)
    <3>1. Kept(t, h)' = Kept(t, h)
      BY <1>1, <1>4, <2>6 DEF Kept
    <3>2. balance'[t][h] = balance[t][h]
      BY <1>4, <2>2, <2>3, <2>4, <2>6
    <3> QED BY <3>1, <3>2
  <2> QED BY <2>5, <2>6
<1>5. CASE \E n \in Nodes, amt \in DepositAmounts : deposit(n, amt)
  <2>1. PICK n \in Nodes, amt \in DepositAmounts : deposit(n, amt)
    BY <1>5
  <2>2. amt \in Nat
    BY <2>1, VaultAssumption DEF deposit
  <2>3. /\ CanTransfer(balance, Usdc, n, amt)
        /\ balance' = Transfer(balance, Usdc, n, VaultAddr, amt)
        /\ nodes'[n].deposited = nodes[n].deposited + amt
        /\ \A m \in Nodes : m # n => nodes'[m] = nodes[m]
    BY <1>2, <2>1 DEF deposit, NodeStates
  <2>4. n \in Holders /\ VaultAddr \in Holders
    BY PartiesOutside
  <2> QED BY <1>4, <2>2, <2>3, <2>4
<1>6. CASE \E n \in Nodes : execute_withdrawal(n)
  <2>1. PICK n \in Nodes : execute_withdrawal(n)
    BY <1>6
  <2> DEFINE k == withdrawals[n].amount
  <2>2. k \in Nat
    BY <1>2 DEF WithdrawRequests
  <2>3. /\ CanTransfer(balance, Usdc, VaultAddr, k)
        /\ balance' = Transfer(balance, Usdc, VaultAddr, n, k)
        /\ nodes'[n].deposited = nodes[n].deposited - k
        /\ \A m \in Nodes : m # n => nodes'[m] = nodes[m]
    BY <1>2, <2>1 DEF execute_withdrawal, NodeStates
  <2>4. n \in Holders /\ VaultAddr \in Holders
    BY PartiesOutside
  <2> HIDE DEF k
  <2> QED BY <1>4, <2>2, <2>3, <2>4
<1> QED BY <1>3, <1>5, <1>6
        DEF NodeCalls, request_withdrawal, cancel_withdrawal, set_appetite, reduce_exposure

-----------------------------------------------------------------------------
(* One lemma per call.                                                     *)

\* The clock, the admins and the nodes' own calls change nothing in the market.
LEMMA QuietSteps ==
  ASSUME RouterInv,
         \/ LayerTick
         \/ AdminCalls
         \/ NodeCalls /\ UNCHANGED <<routerStorage, queueVars, auctionStorage>>
         \/ UNCHANGED layerVars
  PROVE  UNCHANGED Market!marketVars
<1>1. CASE NodeCalls /\ UNCHANGED <<routerStorage, queueVars, auctionStorage>>
  <2>1. UNCHANGED <<escrows, exits, queues>>
    BY <1>1 DEF routerStorage, queueVars, auctionStorage
  <2> QED BY <1>1, <2>1, NodesKeepWealth, NothingSold
<1>2. CASE UNCHANGED <<balance, nodes, escrows, exits, queues>>
  <2>1. UNCHANGED OwnedBy
    BY <1>2 DEF OwnedBy, Kept, EscrowedBy
  <2> QED BY <1>2, <2>1, NothingSold
<1>3. CASE LayerTick
  BY <1>2, <1>3 DEF LayerTick, Tick, vaultStorage, routerStorage, queueVars, auctionStorage
<1>4. CASE UNCHANGED layerVars
  BY <1>2, <1>4 DEF layerVars, routerVars, vaultVars, vaultStorage, routerStorage, queueVars,
                    auctionStorage
<1>5. CASE AdminCalls
  <2>1. CASE VaultAdminCalls /\ UNCHANGED <<routerStorage, queueVars, auctionStorage>>
    BY <1>2, <2>1 DEF VaultAdminCalls, vault_initialize, vault_set_auction, vault_set_router,
                      vault_set_admin, set_max_single_fill_bps, routerStorage, queueVars,
                      auctionStorage
  <2>2. CASE RouterAdminCalls /\ UNCHANGED <<queueVars, auctionStorage>>
    BY <1>2, <2>2 DEF RouterAdminCalls, router_initialize, router_set_auction,
                      router_set_admin, set_treasury, set_protocol_fee_bps, vaultVars,
                      vaultStorage, queueVars, auctionStorage
  <2>3. CASE QueueAdminCalls /\ UNCHANGED <<routerVars, auctionStorage>>
    BY <1>2, <2>3 DEF QueueAdminCalls, queue_initialize, queue_set_auction, routerVars,
                      vaultVars, vaultStorage, routerStorage, auctionStorage
  <2>4. CASE \E admin \in Admins : auction_initialize(admin)
    BY <1>2, <2>4 DEF auction_initialize, routerVars, vaultVars, vaultStorage, routerStorage,
                      queueVars
  <2>5. CASE \E g, x \in Admins : auction_set_admin(g, x)
    BY <1>2, <2>5 DEF auction_set_admin, routerVars, vaultVars, vaultStorage, routerStorage,
                      queueVars
  <2> QED BY <1>5, <2>1, <2>2, <2>3, <2>4, <2>5 DEF AdminCalls
<1> QED BY <1>1, <1>3, <1>4, <1>5

\* The escrow that open_exit writes stays the seller's.
LEMMA OpenKeepsWealth ==
  ASSUME LayerInv, NEW p \in Sellers, NEW a \in Assets, NEW k \in Int,
         escrow(AuctionAddr, next_id, p, a, k), next_id \in ExitIds, UNCHANGED nodes
  PROVE  UNCHANGED OwnedBy /\ k \in 1 .. OwnedBy[a][p]
<1> DEFINE id == next_id
           esc == [stored |-> TRUE, seller |-> p, asset |-> a, amount |-> k]
<1>1. /\ k > 0 /\ k \in Nat /\ ~escrows[id].stored /\ CanTransfer(balance, a, p, k)
      /\ balance' = Transfer(balance, a, p, RouterAddr, k)
      /\ escrows' = [escrows EXCEPT ![id] = esc]
  BY DEF escrow
<1>2. RouterInv /\ escrows \in [ExitIds -> EscrowStates]
  BY DEF LayerInv, RouterInv, RouterTypeOK
<1>3. /\ a \in Tokens /\ p \in Holders /\ p \in Parties /\ RouterAddr \in Holders
      /\ p # RouterAddr /\ Usdc \in Tokens
  BY PartiesOutside
<1>4. esc \in EscrowStates
  BY <1>1 DEF EscrowStates
<1>5. /\ escrows' \in [ExitIds -> EscrowStates] /\ escrows'[id] = esc
      /\ \A x \in ExitIds : x # id => escrows'[x] = escrows[x]
  BY <1>1, <1>2, <1>4
<1>6. \A u \in Tokens, h \in Holders :
            balance'[u][h] = balance[u][h] + (IF u = a /\ h = RouterAddr THEN k ELSE 0)
                                           - (IF u = a /\ h = p THEN k ELSE 0)
  BY <1>1, <1>2, <1>3, PartiesPaid
<1>7. ASSUME NEW t \in Tokens, NEW h \in Parties
      PROVE  balance'[t][h] + Kept(t, h)' = balance[t][h] + Kept(t, h)
  <2>1. /\ balance[t][h] \in Nat /\ EscrowedBy(t, h) \in Nat
        /\ h \in Nodes => nodes[h].deposited \in Nat
    BY <1>2, OwnedType
  <2>2. h \in Holders /\ h # RouterAddr
    BY PartiesOutside
  <2>3. EscrowedBy(t, h)' =
           EscrowedBy(t, h) - Slots(escrows, t, h)[id] + Slots(escrows', t, h)[id]
    BY <1>2, <1>5, EscrowedMove
  <2>4. /\ Slots(escrows, t, h)[id] = 0
        /\ Slots(escrows', t, h)[id] = IF t = a /\ h = p THEN k ELSE 0
    BY <1>1, <1>5 DEF Slots
  <2>5. EscrowedBy(t, h)' = EscrowedBy(t, h) + (IF t = a /\ h = p THEN k ELSE 0)
    BY <1>1, <2>1, <2>3, <2>4
  <2>6. balance'[t][h] = balance[t][h] - (IF t = a /\ h = p THEN k ELSE 0)
    BY <1>1, <1>6, <2>1, <2>2
  <2>7. CASE t = a /\ h = p
    <3>1. /\ EscrowedBy(t, h)' = EscrowedBy(t, h) + k /\ balance'[t][h] = balance[t][h] - k
          /\ h \in Sellers
      BY <2>5, <2>6, <2>7
    <3>2. Kept(t, h)' = Kept(t, h) + k
      BY <1>1, <2>1, <3>1 DEF Kept
    <3>3. Kept(t, h) \in Nat
      BY <1>2, OwnedType
    <3> QED BY <1>1, <2>1, <3>1, <3>2, <3>3
  <2>8. CASE ~(t = a /\ h = p)
    <3>1. EscrowedBy(t, h)' = EscrowedBy(t, h) /\ balance'[t][h] = balance[t][h]
      BY <2>1, <2>5, <2>6, <2>8
    <3> QED BY <3>1 DEF Kept
  <2> QED BY <2>7, <2>8
<1>8. UNCHANGED OwnedBy
  BY <1>7, WealthStays
<1>9. k \in 1 .. OwnedBy[a][p]
  <2>1. /\ balance[a][p] \in Nat /\ Kept(a, p) \in Nat
        /\ OwnedBy[a][p] = balance[a][p] + Kept(a, p)
    BY <1>2, <1>3, OwnedType
  <2>2. balance[a][p] >= k
    BY <1>1 DEF CanTransfer
  <2> QED BY <1>1, <2>1, <2>2
<1> QED BY <1>8, <1>9

\* One exit changes, and its deal with it.
LEMMA DealWritten ==
  ASSUME exits \in [ExitIds -> ExitStates], NEW id \in ExitIds, NEW e,
         exits' = [exits EXCEPT ![id] = e]
  PROVE  Deals' = [Deals EXCEPT ![id] = DealOf(e)]
BY DEF Deals, DealOf

\* Another bidder and price make another deal.
LEMMA DealRebid ==
  ASSUME NEW ex, NEW e,
         e.status = ex.status, e.seller = ex.seller, e.asset = ex.asset,
         e.amount = ex.amount, e.min_accept_usdc = ex.min_accept_usdc
  PROVE  DealOf(e) = [DealOf(ex) EXCEPT !.bidder = e.best_node, !.price = e.best_usdc]
<1> DEFINE n == e.best_node
           u == e.best_usdc
           d == [DealOf(ex) EXCEPT !.bidder = n]
<1>1. d = [status |-> ex.status, seller |-> ex.seller, asset |-> ex.asset, amount |-> ex.amount,
           reserve |-> ex.min_accept_usdc, bidder |-> n, price |-> ex.best_usdc]
  BY DEF DealOf
<1>2. [DealOf(ex) EXCEPT !.bidder = e.best_node, !.price = e.best_usdc] = [d EXCEPT !.price = u]
  OBVIOUS
<1> HIDE DEF d
<1>3. [d EXCEPT !.price = u] =
         [status |-> ex.status, seller |-> ex.seller, asset |-> ex.asset, amount |-> ex.amount,
          reserve |-> ex.min_accept_usdc, bidder |-> n, price |-> u]
  BY <1>1
<1>4. DealOf(e) = [d EXCEPT !.price = u]
  BY <1>3 DEF DealOf
<1> QED BY <1>2, <1>4

\* A cancelled exit is a deal called off.
LEMMA DealCalledOff ==
  ASSUME NEW ex, NEW e,
         e.status = "Cancelled", e.seller = ex.seller, e.asset = ex.asset,
         e.amount = ex.amount, e.min_accept_usdc = ex.min_accept_usdc,
         e.best_node = NoAddr, e.best_usdc = 0
  PROVE  DealOf(e) = [DealOf(ex) EXCEPT !.status = "Cancelled", !.bidder = NoAddr, !.price = 0]
<1> DEFINE d == [DealOf(ex) EXCEPT !.status = "Cancelled"]
           f == [d EXCEPT !.bidder = NoAddr]
<1>1. d = [status |-> "Cancelled", seller |-> ex.seller, asset |-> ex.asset,
           amount |-> ex.amount, reserve |-> ex.min_accept_usdc, bidder |-> ex.best_node,
           price |-> ex.best_usdc]
  BY DEF DealOf
<1>2. [DealOf(ex) EXCEPT !.status = "Cancelled", !.bidder = NoAddr, !.price = 0] =
         [f EXCEPT !.price = 0]
  OBVIOUS
<1> HIDE DEF d
<1>3. f = [status |-> "Cancelled", seller |-> ex.seller, asset |-> ex.asset,
           amount |-> ex.amount, reserve |-> ex.min_accept_usdc, bidder |-> NoAddr,
           price |-> ex.best_usdc]
  BY <1>1
<1> HIDE DEF f
<1>4. DealOf(e) = [f EXCEPT !.price = 0]
  BY <1>3 DEF DealOf
<1> QED BY <1>2, <1>4

\* open_exit offers the tokens.
LEMMA OpenOffers ==
  ASSUME LayerInv, NEW p \in Sellers, NEW a \in Assets, NEW k \in Int,
         NEW r \in Int, NEW m \in Reserves, NEW d \in Nat, open_exit(p, a, k, r, m, d)
  PROVE  Market!MarketNext
<1> DEFINE id == next_id
           e == [status |-> "Open", seller |-> p, asset |-> a, amount |-> k,
                 reference_usdc |-> r, min_accept_usdc |-> m,
                 closes_at |-> now + d, best_node |-> NoAddr, best_usdc |-> 0]
           deal == [status |-> "Open", seller |-> p, asset |-> a, amount |-> k,
                    reserve |-> m, bidder |-> NoAddr, price |-> 0]
<1>1. /\ id <= MaxExits /\ m >= 0
      /\ escrow(AuctionAddr, id, p, a, k)
      /\ exits' = [exits EXCEPT ![id] = e]
      /\ UNCHANGED <<nodes, queues>>
  BY DEF open_exit, vaultStorage, queueVars
<1>2. id \in ExitIds
  BY <1>1, AddressAssumption DEF LayerInv, AuctionTypeOK, ExitIds
<1>3. exits \in [ExitIds -> ExitStates] /\ exits[id] = NoExit
  BY <1>2 DEF LayerInv, AuctionTypeOK, AuctionSlots, ExitIds
<1>4. UNCHANGED OwnedBy /\ k \in 1 .. OwnedBy[a][p]
  BY <1>1, <1>2, OpenKeepsWealth
<1>5. m \in Reserves \cap Nat
  BY <1>1, AuctionAssumption
<1>6. DealOf(e) = deal /\ Deals[id] = Market!NoDeal
  BY <1>2, <1>3 DEF DealOf, NoExit, Market!NoDeal, Deals
<1>7. Deals' = [Deals EXCEPT ![id] = deal]
  <2> HIDE DEF e
  <2> QED BY <1>1, <1>2, <1>3, <1>6, DealWritten
<1> HIDE DEF id, e
<1>8. Market!Offer(id, p, a)
  BY <1>1, <1>4, <1>5, <1>6, <1>7 DEF Market!Offer, Deals
<1> QED BY <1>2, <1>8 DEF Market!MarketNext

\* A step that moves no token, no escrow and no deposit leaves everybody's wealth alone.
LEMMA NothingMoves ==
  ASSUME UNCHANGED <<balance, escrows>>,
         \A m \in Nodes : nodes'[m].deposited = nodes[m].deposited
  PROVE  UNCHANGED OwnedBy
<1>1. \A t \in Tokens, h \in Parties : EscrowedBy(t, h)' = EscrowedBy(t, h)
  BY DEF EscrowedBy
<1>2. \A t \in Tokens, h \in Parties : Kept(t, h)' = Kept(t, h)
  BY <1>1 DEF Kept
<1> QED BY <1>2, WealthStays

\* place_bid is a higher bid that the bidder owns.
LEMMA BidBids ==
  ASSUME LayerInv, NEW n \in Nodes, NEW id \in ExitIds, NEW u \in Int, place_bid(n, id, u)
  PROVE  Market!MarketNext
<1> DEFINE ex == exits[id]
           locked == LockCapital(nodes, n, u)
           exposed == AddExposure(appetites, n, ex.asset, u)
           e == [ex EXCEPT !.best_node = n, !.best_usdc = u]
<1>1. /\ Live(ex) /\ u > ex.best_usdc /\ u > 0
      /\ Free(n) >= u
      /\ release_best(locked, exposed, ex)
      /\ exits' = [exits EXCEPT ![id] = e]
      /\ UNCHANGED <<balance, escrows, queues>>
  BY DEF place_bid, Beats, CommitAllowed, queueVars, routerStorage
<1>2. /\ RouterInv /\ nodes \in [Nodes -> NodeStates]
      /\ appetites \in [Nodes -> [Assets -> AppetiteStates]]
      /\ withdrawals \in [Nodes -> WithdrawRequests]
      /\ exits \in [ExitIds -> ExitStates]
  BY DEF LayerInv, RouterInv, RouterTypeOK, VaultTypeOK, AuctionTypeOK
<1>3. ex \in ExitStates /\ ex.asset \in Assets /\ ex.best_usdc \in Nat
  BY <1>1, LiveExit
<1>4. \A m \in Nodes : nodes'[m].deposited = nodes[m].deposited
  <2>1. nodes[n].committed + u \in Nat
    BY <1>1, <1>2 DEF NodeStates
  <2>2. /\ locked \in [Nodes -> NodeStates]
        /\ \A m \in Nodes : locked[m].deposited = nodes[m].deposited
    BY <1>2, <2>1, LockEffect
  <2>3. exposed \in [Nodes -> [Assets -> AppetiteStates]]
    <3>1. appetites[n][ex.asset].exposure + u \in Nat
      BY <1>1, <1>2, <1>3 DEF AppetiteStates
    <3> QED BY <1>2, <1>3, <3>1, ExposureType
  <2> HIDE DEF locked, exposed, ex
  <2> QED BY <1>1, <1>3, <2>2, <2>3, ReleaseEffect
<1>5. UNCHANGED OwnedBy
  BY <1>1, <1>4, NothingMoves
<1>6. u \in (ex.best_usdc + 1) .. OwnedBy[Usdc][n]
  <2>1. n \in Parties /\ Usdc \in Tokens
    BY PartiesOutside
  <2>2. /\ balance[Usdc][n] \in Nat /\ EscrowedBy(Usdc, n) \in Nat
        /\ OwnedBy[Usdc][n] = balance[Usdc][n] + Kept(Usdc, n)
    BY <1>2, <2>1, OwnedType
  <2>3. /\ nodes[n].deposited \in Nat /\ nodes[n].committed \in Nat
        /\ withdrawals[n].amount \in Nat
    BY <1>2 DEF NodeStates, WithdrawRequests
  <2>4. Kept(Usdc, n) >= nodes[n].deposited /\ Kept(Usdc, n) \in Nat
    BY <2>2, <2>3 DEF Kept
  <2>5. u <= nodes[n].deposited
    BY <1>1, <2>3 DEF Free, reserved
  <2> QED BY <1>1, <1>3, <2>2, <2>3, <2>4, <2>5
<1>7. /\ Deals[id] = DealOf(ex)
      /\ DealOf(ex).status \in Market!Waiting /\ DealOf(ex).price = ex.best_usdc
      /\ DealOf(e) = [DealOf(ex) EXCEPT !.bidder = n, !.price = u]
  <2>1. Deals[id] = DealOf(ex)
    BY DEF Deals
  <2>2. DealOf(ex).status \in Market!Waiting /\ DealOf(ex).price = ex.best_usdc
    <3> HIDE DEF ex
    <3> QED BY <1>1 DEF DealOf, Live, Market!Waiting
  <2>3. DealOf(e) = [DealOf(ex) EXCEPT !.bidder = n, !.price = u]
    <3> HIDE DEF ex
    <3>1. /\ e.status = ex.status /\ e.seller = ex.seller /\ e.asset = ex.asset
          /\ e.amount = ex.amount /\ e.min_accept_usdc = ex.min_accept_usdc
          /\ e.best_node = n /\ e.best_usdc = u
      BY <1>3 DEF ExitStates
    <3> HIDE DEF e
    <3>2. DealOf(e) = [DealOf(ex) EXCEPT !.bidder = e.best_node, !.price = e.best_usdc]
      BY <3>1, DealRebid
    <3> QED BY <3>1, <3>2
  <2> QED BY <2>1, <2>2, <2>3
<1>8. Deals' = [Deals EXCEPT ![id] = DealOf(e)]
  <2> HIDE DEF e
  <2> QED BY <1>1, <1>2, DealWritten
<1>9. Deals' = [Deals EXCEPT ![id].bidder = n, ![id].price = u]
  <2> HIDE DEF e, ex
  <2> QED BY <1>7, <1>8 DEF Deals
<1> HIDE DEF e
<1>10. Market!Bid(id, n)
  BY <1>1, <1>5, <1>6, <1>7, <1>9 DEF Market!Bid, Deals
<1> QED BY <1>10 DEF Market!MarketNext

\* A window that ends without a sale puts the exit at the back of its line.
LEMMA CloseJoins ==
  ASSUME LayerInv, NEW id \in ExitIds, exits[id].status = "Open",
         enqueue(AuctionAddr, exits[id].asset, id),
         exits' = [exits EXCEPT ![id].status = "Queued"], UNCHANGED routerVars
  PROVE  Market!MarketNext
<1> DEFINE ex == exits[id]
           e == [ex EXCEPT !.status = "Queued"]
<1>1. UNCHANGED OwnedBy
  BY NothingMoves DEF routerVars, vaultVars, vaultStorage, routerStorage
<1>2. exits \in [ExitIds -> ExitStates] /\ ex \in ExitStates
  BY DEF LayerInv, AuctionTypeOK
<1>3. exits' = [exits EXCEPT ![id] = e]
  OBVIOUS
<1>4. /\ Deals[id] = DealOf(ex)
      /\ DealOf(ex).status = "Open" /\ DealOf(ex).asset = ex.asset
      /\ DealOf(e) = [DealOf(ex) EXCEPT !.status = "Queued"]
  BY <1>2 DEF DealOf, Deals, ExitStates
<1>5. Deals' = [Deals EXCEPT ![id] = DealOf(e)]
  <2> HIDE DEF e
  <2> QED BY <1>2, <1>3, DealWritten
<1>6. Deals' = [Deals EXCEPT ![id].status = "Queued"]
  <2> HIDE DEF e, ex
  <2> QED BY <1>4, <1>5 DEF Deals
<1>7. queues' = [queues EXCEPT ![ex.asset] = Append(@, id)]
  BY DEF enqueue
<1> HIDE DEF e
<1>8. Market!JoinLine(id)
  BY <1>1, <1>4, <1>6, <1>7 DEF Market!JoinLine, Deals
<1> QED BY <1>8 DEF Market!MarketNext

\* Copying every entry but one is joining what is before it to what is behind it.
LEMMA LineWithoutOne ==
  ASSUME NEW q \in Seq(ExitIds), NEW i \in 1 .. Len(q)
  PROVE  WithoutIndex(q, i) = SubSeq(q, 1, i - 1) \o SubSeq(q, i + 1, Len(q))
<1> DEFINE front == SubSeq(q, 1, i - 1)
           back == SubSeq(q, i + 1, Len(q))
           r == WithoutIndex(q, i)
<1>1. Len(q) \in Nat /\ i \in Nat /\ i >= 1 /\ i <= Len(q)
  OBVIOUS
<1>2. /\ front \in Seq(ExitIds) /\ Len(front) = i - 1
      /\ \A k \in 1 .. (i - 1) : front[k] = q[k]
  <2>1. \A k \in 1 .. (i - 1) : q[k] \in ExitIds
    BY <1>1, ElementOfSeq
  <2>2. /\ front \in Seq(ExitIds)
        /\ Len(front) = IF 1 <= i - 1 THEN (i - 1) - 1 + 1 ELSE 0
        /\ \A k \in 1 .. ((i - 1) - 1 + 1) : front[k] = q[1 + k - 1]
    BY <1>1, <2>1, SubSeqProperties
  <2> HIDE DEF front
  <2> QED BY <1>1, <2>2
<1>3. /\ back \in Seq(ExitIds) /\ Len(back) = Len(q) - i
      /\ \A k \in 1 .. (Len(q) - i) : back[k] = q[i + k]
  <2>1. \A k \in (i + 1) .. Len(q) : q[k] \in ExitIds
    BY <1>1, ElementOfSeq
  <2>2. /\ back \in Seq(ExitIds)
        /\ Len(back) = IF i + 1 <= Len(q) THEN Len(q) - (i + 1) + 1 ELSE 0
        /\ \A k \in 1 .. (Len(q) - (i + 1) + 1) : back[k] = q[(i + 1) + k - 1]
    BY <1>1, <2>1, SubSeqProperties
  <2> HIDE DEF back
  <2> QED BY <1>1, <2>2
<1>4. /\ r \in Seq(ExitIds) /\ Len(r) = Len(q) - 1
      /\ \A k \in 1 .. Len(r) : r[k] = q[IF k < i THEN k ELSE k + 1]
  BY WithoutIndexEffect
<1> HIDE DEF front, back, r
<1> DEFINE j == front \o back
<1>5. /\ j \in Seq(ExitIds) /\ Len(j) = Len(front) + Len(back)
      /\ \A k \in 1 .. (Len(front) + Len(back)) :
            j[k] = IF k <= Len(front) THEN front[k] ELSE back[k - Len(front)]
  BY <1>2, <1>3, ConcatProperties
<1> HIDE DEF j
<1>6. Len(r) = Len(j)
  BY <1>1, <1>2, <1>3, <1>4, <1>5
<1>7. ASSUME NEW k \in 1 .. Len(r) PROVE r[k] = j[k]
  <2>1. CASE k < i
    <3>1. k \in 1 .. (Len(front) + Len(back)) /\ k <= Len(front) /\ k \in 1 .. (i - 1)
      BY <1>1, <1>2, <1>3, <1>4, <2>1
    <3>2. j[k] = front[k] /\ front[k] = q[k]
      BY <1>2, <1>5, <3>1
    <3> QED BY <1>4, <2>1, <3>2
  <2>2. CASE k >= i
    <3>1. k \in 1 .. (Len(front) + Len(back)) /\ ~(k <= Len(front))
      BY <1>1, <1>2, <1>3, <1>4, <2>2
    <3>2. j[k] = back[k - (i - 1)] /\ k - (i - 1) \in 1 .. (Len(q) - i)
      BY <1>1, <1>2, <1>4, <1>5, <2>2, <3>1
    <3>3. back[k - (i - 1)] = q[i + (k - (i - 1))]
      BY <1>3, <3>2
    <3>4. i + (k - (i - 1)) = k + 1
      BY <1>1
    <3> QED BY <1>1, <1>4, <2>2, <3>2, <3>3, <3>4
  <2> QED BY <1>1, <2>1, <2>2
<1>8. r = j
  BY <1>4, <1>5, <1>6, <1>7, SeqEqual
<1> QED BY <1>8 DEF r, j, front, back

\* Leaving the line is leaving the market's line, from wherever the exit stood.
LEMMA LineLeft ==
  ASSUME LayerInv, NEW id \in ExitIds, Live(exits[id]), LeaveLine(id)
  PROVE  Market!LeavesLine(id)
<1> DEFINE a == exits[id].asset
           line == queues[a]
<1>1. /\ a \in Assets /\ queues \in [Assets -> Seq(ExitIds)] /\ line \in Seq(ExitIds)
      /\ InLine(line, id) <=> exits[id].status = "Queued"
      /\ NoDuplicates(line)
  <2>1. a \in Assets
    BY LiveExit
  <2> QED BY <2>1 DEF LayerInv, QueueInv, QueueTypeOK, QueueMatches, LineWellFormed, NoDuplicates
<1>2. Deals[id].asset = a
  BY DEF Deals, DealOf
<1>3. CASE exits[id].status = "Queued"
  <2> DEFINE i == position_of(line, id)
  <2>1. i \in 1 .. Len(line) /\ line[i] = id
    <3>1. PICK k \in 1 .. Len(line) : line[k] = id
      BY <1>1, <1>3 DEF InLine
    <3> HIDE DEF line
    <3>2. position_of(line, line[k]) = k
      BY <1>1, <3>1, PositionOf
    <3> QED BY <3>1, <3>2
  <2>2. queues' = [queues EXCEPT ![a] = WithoutIndex(line, i)]
    BY <1>3 DEF LeaveLine, dequeue
  <2> HIDE DEF i, line, a
  <2>3. WithoutIndex(line, i) = SubSeq(line, 1, i - 1) \o SubSeq(line, i + 1, Len(line))
    BY <1>1, <2>1, LineWithoutOne
  <2>4. queues' = [queues EXCEPT ![a] =
                     SubSeq(line, 1, i - 1) \o SubSeq(line, i + 1, Len(line))]
    BY <2>2, <2>3
  <2> QED BY <1>2, <2>1, <2>4 DEF Market!LeavesLine, Deals, line
<1>4. CASE exits[id].status # "Queued"
  <2>1. UNCHANGED queues
    BY <1>4 DEF LeaveLine
  <2>2. \A i \in 1 .. Len(line) : line[i] # id
    BY <1>1, <1>4 DEF InLine
  <2> HIDE DEF a
  <2> QED BY <1>2, <2>1, <2>2 DEF Market!LeavesLine, Deals
<1> QED BY <1>3, <1>4

\* An escrow that ends leaves the seller's books.
LEMMA EscrowEnds ==
  ASSUME LayerInv, NEW id \in ExitIds, Live(exits[id]),
         escrows' = [escrows EXCEPT ![id] = NoEscrow], NEW t, NEW h
  PROVE  EscrowedBy(t, h)' = EscrowedBy(t, h) -
            (IF t = exits[id].asset /\ h = exits[id].seller THEN exits[id].amount ELSE 0)
<1> DEFINE a == exits[id].asset
           p == exits[id].seller
           k == exits[id].amount
<1>1. /\ escrows \in [ExitIds -> EscrowStates] /\ k \in Nat
      /\ escrows[id] = [stored |-> TRUE, seller |-> p, asset |-> a, amount |-> k]
  BY LiveExit DEF LayerInv, RouterInv, RouterTypeOK
<1> HIDE DEF a, p, k
<1>2. NoEscrow \in EscrowStates /\ ~NoEscrow.stored
  BY DEF NoEscrow, EscrowStates
<1>3. /\ escrows' \in [ExitIds -> EscrowStates] /\ ~escrows'[id].stored
      /\ \A x \in ExitIds : x # id => escrows'[x] = escrows[x]
  BY <1>1, <1>2
<1>4. EscrowedBy(t, h)' =
         EscrowedBy(t, h) - Slots(escrows, t, h)[id] + Slots(escrows', t, h)[id]
  BY <1>1, <1>3, EscrowedMove
<1>5. /\ Slots(escrows', t, h)[id] = 0
      /\ Slots(escrows, t, h)[id] = IF t = a /\ h = p THEN k ELSE 0
  BY <1>1, <1>3 DEF Slots
<1>6. EscrowedBy(t, h) \in Nat
  <2>1. EscrowedBy(t, h) = Total(Slots(escrows, t, h))
    BY DEF EscrowedBy, Slots
  <2> QED BY <1>1, <2>1, SlotsType
<1>7. EscrowedBy(t, h)' = EscrowedBy(t, h) - (IF t = a /\ h = p THEN k ELSE 0)
  BY <1>1, <1>4, <1>5, <1>6
<1> QED BY <1>7 DEF a, p, k

\* A refund gives the seller what was kept for them.
LEMMA RefundKeepsWealth ==
  ASSUME LayerInv, NEW id \in ExitIds, Live(exits[id]), refund(AuctionAddr, id),
         \A m \in Nodes : nodes'[m].deposited = nodes[m].deposited
  PROVE  UNCHANGED OwnedBy
<1> DEFINE a == exits[id].asset
           p == exits[id].seller
           k == exits[id].amount
<1>1. /\ a \in Assets /\ p \in Sellers /\ k \in Nat
      /\ escrows[id] = [stored |-> TRUE, seller |-> p, asset |-> a, amount |-> k]
      /\ RouterInv
  BY LiveExit DEF LayerInv
<1>2. /\ escrows' = [escrows EXCEPT ![id] = NoEscrow]
      /\ CanTransfer(balance, a, RouterAddr, k)
      /\ balance' = Transfer(balance, a, RouterAddr, p, k)
  BY <1>1 DEF refund
<1>3. ASSUME NEW t, NEW h
      PROVE  EscrowedBy(t, h)' = EscrowedBy(t, h) - (IF t = a /\ h = p THEN k ELSE 0)
  BY <1>2, EscrowEnds
<1> HIDE DEF a, p, k
<1>4. /\ a \in Tokens /\ p \in Holders /\ RouterAddr \in Holders /\ RouterAddr # p
  BY <1>1, PartiesOutside
<1>5. \A u \in Tokens, h \in Holders :
            balance'[u][h] = balance[u][h] + (IF u = a /\ h = p THEN k ELSE 0)
                                           - (IF u = a /\ h = RouterAddr THEN k ELSE 0)
  BY <1>1, <1>2, <1>4, PartiesPaid
<1>6. ASSUME NEW t \in Tokens, NEW h \in Parties
      PROVE  balance'[t][h] + Kept(t, h)' = balance[t][h] + Kept(t, h)
  <2>1. /\ balance[t][h] \in Nat /\ EscrowedBy(t, h) \in Nat /\ Kept(t, h) \in Nat
        /\ h \in Nodes => nodes[h].deposited \in Nat
    BY <1>1, OwnedType
  <2>2. h \in Holders /\ h # RouterAddr
    BY PartiesOutside
  <2>3. EscrowedBy(t, h)' = EscrowedBy(t, h) - (IF t = a /\ h = p THEN k ELSE 0)
    BY <1>3
  <2>4. balance'[t][h] = balance[t][h] + (IF t = a /\ h = p THEN k ELSE 0)
    BY <1>1, <1>5, <2>1, <2>2
  <2>5. CASE t = a /\ h = p
    <3>1. /\ EscrowedBy(t, h)' = EscrowedBy(t, h) - k /\ balance'[t][h] = balance[t][h] + k
          /\ h \in Sellers
      BY <1>1, <2>3, <2>4, <2>5
    <3>2. Kept(t, h)' = Kept(t, h) - k
      BY <1>1, <2>1, <3>1 DEF Kept
    <3> QED BY <1>1, <2>1, <3>1, <3>2
  <2>6. CASE ~(t = a /\ h = p)
    <3>1. EscrowedBy(t, h)' = EscrowedBy(t, h) /\ balance'[t][h] = balance[t][h]
      BY <2>1, <2>3, <2>4, <2>6
    <3> QED BY <3>1 DEF Kept
  <2> QED BY <2>5, <2>6
<1> QED BY <1>6, WealthStays

\* A cancellation calls the deal off.
LEMMA CancelCallsOff ==
  ASSUME LayerInv, NEW id \in ExitIds, cancel(id)
  PROVE  Market!MarketNext
<1> DEFINE ex == exits[id]
           e == [ex EXCEPT !.status = "Cancelled", !.best_node = NoAddr, !.best_usdc = 0]
<1>1. /\ Live(ex)
      /\ release_best(nodes, appetites, ex)
      /\ LeaveLine(id)
      /\ refund(AuctionAddr, id)
      /\ exits' = [exits EXCEPT ![id] = e]
  BY DEF cancel
<1>2. /\ nodes \in [Nodes -> NodeStates]
      /\ appetites \in [Nodes -> [Assets -> AppetiteStates]]
      /\ exits \in [ExitIds -> ExitStates]
  BY DEF LayerInv, RouterInv, RouterTypeOK, VaultTypeOK, AuctionTypeOK
<1>3. ex \in ExitStates /\ ex.asset \in Assets
  BY <1>1, LiveExit
<1>4. \A m \in Nodes : nodes'[m].deposited = nodes[m].deposited
  <2> HIDE DEF ex
  <2> QED BY <1>1, <1>2, <1>3, ReleaseEffect
<1>5. UNCHANGED OwnedBy
  BY <1>1, <1>4, RefundKeepsWealth
<1>6. Market!LeavesLine(id)
  BY <1>1, LineLeft
<1>7. Deals[id] = DealOf(ex) /\ DealOf(ex).status \in Market!Waiting
  <2>1. Deals[id] = DealOf(ex)
    BY DEF Deals
  <2> HIDE DEF ex
  <2>2. DealOf(ex).status \in Market!Waiting
    BY <1>1 DEF DealOf, Live, Market!Waiting
  <2> QED BY <2>1, <2>2
<1>8. DealOf(e) = [DealOf(ex) EXCEPT !.status = "Cancelled", !.bidder = NoAddr, !.price = 0]
  <2> HIDE DEF ex
  <2>1. /\ e.status = "Cancelled" /\ e.seller = ex.seller /\ e.asset = ex.asset
        /\ e.amount = ex.amount /\ e.min_accept_usdc = ex.min_accept_usdc
        /\ e.best_node = NoAddr /\ e.best_usdc = 0
    BY <1>3 DEF ExitStates
  <2> HIDE DEF e
  <2> QED BY <2>1, DealCalledOff
<1>9. Deals' = [Deals EXCEPT ![id] = DealOf(e)]
  <2> HIDE DEF e
  <2> QED BY <1>1, <1>2, DealWritten
<1>10. Deals' = [Deals EXCEPT ![id].status = "Cancelled",
                              ![id].bidder = NoAddr, ![id].price = 0]
  <2> HIDE DEF e, ex
  <2> QED BY <1>7, <1>8, <1>9 DEF Deals
<1> HIDE DEF e
<1>11. Market!CallOff(id)
  BY <1>5, <1>6, <1>7, <1>10 DEF Market!CallOff, Deals
<1> QED BY <1>11 DEF Market!MarketNext

\* What a payment in the market does to what everybody owns.
LEMMA PayMoves ==
  ASSUME NEW w \in [Tokens -> [Parties -> Int]], NEW s \in Tokens, NEW from, NEW to,
         NEW k \in Int
  PROVE  LET v == Market!Pay(w, s, from, to, k)
         IN  /\ v \in [Tokens -> [Parties -> Int]]
             /\ \A t \in Tokens, h \in Parties :
                   v[t][h] = w[t][h] + (IF t = s /\ h = to THEN k ELSE 0)
                                     - (IF t = s /\ h = from THEN k ELSE 0)
<1> DEFINE row == [h \in Parties |-> w[s][h] + (IF h = to THEN k ELSE 0)
                                             - (IF h = from THEN k ELSE 0)]
           v == [w EXCEPT ![s] = row]
<1>1. Market!Pay(w, s, from, to, k) = v
  BY DEF Market!Pay
<1>2. row \in [Parties -> Int]
  OBVIOUS
<1>3. \A h \in Parties : row[h] = w[s][h] + (IF h = to THEN k ELSE 0)
                                          - (IF h = from THEN k ELSE 0)
  OBVIOUS
<1> HIDE DEF row
<1>4. v \in [Tokens -> [Parties -> Int]]
  BY <1>2
<1>5. ASSUME NEW t \in Tokens, NEW h \in Parties
      PROVE  v[t][h] = w[t][h] + (IF t = s /\ h = to THEN k ELSE 0)
                               - (IF t = s /\ h = from THEN k ELSE 0)
  <2>1. CASE t = s
    BY <1>3, <2>1
  <2>2. CASE t # s
    <3>1. v[t][h] = w[t][h] /\ w[t][h] \in Int
      BY <2>2
    <3> QED BY <2>2, <3>1
  <2> QED BY <2>1, <2>2
<1> QED BY <1>1, <1>4, <1>5

\* SettledBalance for a seller, a node or a treasury: none of them is the router, so the
\* token leaving the escrow does not show.
PartyBalance(id, n, k, u, t, h) ==
    balance[t][h]
      + (IF t = Usdc /\ h = escrows[id].seller THEN u - protocol_fee(u) ELSE 0)
      + (IF t = Usdc /\ h = routerConfig.treasury THEN protocol_fee(u) ELSE 0)
      + (IF t = escrows[id].asset /\ h = n THEN k ELSE 0)

\* What a settlement does to the accounts of those who take part.
LEMMA SettlePaysParties ==
  ASSUME RouterInv, NEW id \in ExitIds, NEW n \in Nodes, NEW k \in Int, NEW u \in Int,
         settle(AuctionAddr, id, n, k, u)
  PROVE  \A s \in Tokens, g \in Parties : balance'[s][g] = PartyBalance(id, n, k, u, s, g)
<1>1. u \in Nat /\ protocol_fee(u) \in Nat
  <2>1. u \in Nat /\ routerConfig.stored
    BY DEF settle, PayOutAllowed, RouterFromAuction
  <2> QED BY <2>1, FeeType DEF RouterInv, RouterTypeOK
<1>2. VaultAddr \notin Treasuries
  BY TreasuryOutside
<1>3. \A s \in Tokens, g \in Holders \ {VaultAddr} :
         balance'[s][g] = SettledBalance(id, n, k, u, s, g)
  BY <1>2, SettleBalances
<1>4. \A g \in Parties : g \in Holders \ {VaultAddr} /\ g # RouterAddr
  BY PartiesOutside
<1> TAKE s \in Tokens, g \in Parties
<1> DEFINE c1 == IF s = Usdc /\ g = escrows[id].seller THEN u - protocol_fee(u) ELSE 0
           c2 == IF s = Usdc /\ g = routerConfig.treasury THEN protocol_fee(u) ELSE 0
           c3 == IF s = escrows[id].asset /\ g = n THEN k ELSE 0
           c4 == IF s = escrows[id].asset /\ g = RouterAddr THEN k ELSE 0
<1>5. g \in Holders \ {VaultAddr} /\ c4 = 0
  BY <1>4
<1>6. c1 \in Int /\ c2 \in Int /\ c3 \in Int /\ balance[s][g] \in Int
  <2>1. balance[s][g] \in Nat
    BY OwnedType
  <2> QED BY <1>1, <2>1
<1>7. balance'[s][g] = balance[s][g] + c1 + c2 + c3 - c4
  BY <1>3, <1>5 DEF SettledBalance
<1> HIDE DEF c1, c2, c3, c4
<1>8. balance'[s][g] = balance[s][g] + c1 + c2 + c3
  BY <1>5, <1>6, <1>7
<1> QED BY <1>8 DEF PartyBalance, c1, c2, c3

\* The settlement of the standing bid changes what everybody owns as the sale does: the
\* tokens for the price, and the fee out of the price.
LEMMA FillSells ==
  ASSUME LayerInv, NEW id \in ExitIds, Live(exits[id]), fill(id)
  PROVE  LET d == DealOf(exits[id])
             fee == protocol_fee(d.price)
         IN  OwnedBy' =
               Market!Pay(Market!Pay(Market!Pay(OwnedBy, d.asset, d.seller, d.bidder, d.amount),
                                     Usdc, d.bidder, d.seller, d.price - fee),
                          Usdc, d.bidder, routerConfig.treasury, fee)
<1> DEFINE a == exits[id].asset
           p == exits[id].seller
           k == exits[id].amount
           n == exits[id].best_node
           u == exits[id].best_usdc
           tr == routerConfig.treasury
           fee == protocol_fee(u)
           net == u - fee
           w1 == Market!Pay(OwnedBy, a, p, n, k)
           w2 == Market!Pay(w1, Usdc, n, p, net)
           w3 == Market!Pay(w2, Usdc, n, tr, fee)
<1>1. /\ a \in Assets /\ p \in Sellers /\ k \in Nat /\ u \in Nat /\ n \in Nodes \cup {NoAddr}
      /\ escrows[id] = [stored |-> TRUE, seller |-> p, asset |-> a, amount |-> k]
      /\ RouterInv /\ routerConfig \in RouterConfigs /\ escrows \in [ExitIds -> EscrowStates]
  BY LiveExit DEF LayerInv, RouterInv, RouterTypeOK
<1>2. n \in Nodes /\ settle(AuctionAddr, id, n, k, u) /\ k \in Int /\ u \in Int
  BY <1>1 DEF fill
<1>3. fee \in Nat /\ net \in Int
  BY <1>1, FeeType
<1>4. /\ nodes'[n].deposited = nodes[n].deposited - u
      /\ \A m \in Nodes : m # n => nodes'[m] = nodes[m]
  <2> HIDE DEF n, k, u
  <2> QED BY <1>1, <1>2, SettlePays
<1>5. escrows' = [escrows EXCEPT ![id] = NoEscrow]
  <2>1. escrows' = [escrows EXCEPT ![id] = AfterSale(escrows[id], k)]
    BY <1>2 DEF settle
  <2>2. AfterSale(escrows[id], k) = NoEscrow
    <3> HIDE DEF k, p, a
    <3> QED BY <1>1 DEF AfterSale
  <2> QED BY <2>1, <2>2
<1>6. ASSUME NEW t \in Tokens, NEW h \in Parties
      PROVE  EscrowedBy(t, h)' = EscrowedBy(t, h) - (IF t = a /\ h = p THEN k ELSE 0)
  BY <1>5, EscrowEnds
<1>7. ASSUME NEW t \in Tokens, NEW h \in Parties
      PROVE  balance'[t][h] = balance[t][h] + (IF t = Usdc /\ h = p THEN net ELSE 0)
                                            + (IF t = Usdc /\ h = tr THEN fee ELSE 0)
                                            + (IF t = a /\ h = n THEN k ELSE 0)
  <2>1. escrows[id].seller = p /\ escrows[id].asset = a
    <3> HIDE DEF a, p, k
    <3> QED BY <1>1
  <2> HIDE DEF n, k, u
  <2>2. RouterInv /\ settle(AuctionAddr, id, n, k, u) /\ n \in Nodes /\ k \in Int /\ u \in Int
    BY <1>1, <1>2
  <2>3. \A s \in Tokens, g \in Parties : balance'[s][g] = PartyBalance(id, n, k, u, s, g)
    BY <2>2, SettlePaysParties
  <2>4. balance'[t][h] = PartyBalance(id, n, k, u, t, h)
    BY <2>3
  <2> QED BY <2>1, <2>4 DEF PartyBalance
<1>8. p \in Parties /\ n \in Parties /\ a \in Tokens /\ Usdc \in Tokens
  BY <1>1, <1>2, PartiesOutside
<1> HIDE DEF a, p, k, n, u, tr, fee
<1>9. OwnedBy \in [Tokens -> [Parties -> Int]]
  <2>1. ASSUME NEW t \in Tokens, NEW h \in Parties
        PROVE  balance[t][h] + Kept(t, h) \in Int
    <3>1. balance[t][h] \in Nat /\ Kept(t, h) \in Nat
      BY <1>1, OwnedType
    <3> QED BY <3>1
  <2> QED BY <2>1 DEF OwnedBy
<1>10. /\ w1 \in [Tokens -> [Parties -> Int]]
       /\ \A t \in Tokens, h \in Parties :
             w1[t][h] = OwnedBy[t][h] + (IF t = a /\ h = n THEN k ELSE 0)
                                      - (IF t = a /\ h = p THEN k ELSE 0)
  BY <1>1, <1>8, <1>9, PayMoves
<1> HIDE DEF w1, net
<1>11. /\ w2 \in [Tokens -> [Parties -> Int]]
       /\ \A t \in Tokens, h \in Parties :
             w2[t][h] = w1[t][h] + (IF t = Usdc /\ h = p THEN net ELSE 0)
                                 - (IF t = Usdc /\ h = n THEN net ELSE 0)
  BY <1>3, <1>8, <1>10, PayMoves
<1> HIDE DEF w2
<1>12. /\ w3 \in [Tokens -> [Parties -> Int]]
       /\ \A t \in Tokens, h \in Parties :
             w3[t][h] = w2[t][h] + (IF t = Usdc /\ h = tr THEN fee ELSE 0)
                                 - (IF t = Usdc /\ h = n THEN fee ELSE 0)
  BY <1>3, <1>8, <1>11, PayMoves
<1> HIDE DEF w3
<1>13. ASSUME NEW t \in Tokens, NEW h \in Parties
       PROVE  balance'[t][h] + Kept(t, h)' = w3[t][h]
  <2> DEFINE c1 == IF t = Usdc /\ h = p THEN net ELSE 0
             c2 == IF t = Usdc /\ h = tr THEN fee ELSE 0
             c3 == IF t = a /\ h = n THEN k ELSE 0
             d1 == IF t = a /\ h = p THEN k ELSE 0
             d2 == IF t = Usdc /\ h = n THEN net ELSE 0
             d3 == IF t = Usdc /\ h = n THEN fee ELSE 0
             stake == IF t = Usdc /\ h \in Nodes THEN nodes[h].deposited ELSE 0
             tokens == IF h \in Sellers THEN EscrowedBy(t, h) ELSE 0
  <2>1. /\ c1 \in Int /\ c2 \in Int /\ c3 \in Int /\ d1 \in Int /\ d2 \in Int /\ d3 \in Int
    BY <1>1, <1>3
  <2>2. /\ balance[t][h] \in Nat /\ EscrowedBy(t, h) \in Nat
        /\ h \in Nodes => nodes[h].deposited \in Nat
        /\ OwnedBy[t][h] = balance[t][h] + Kept(t, h)
    BY <1>1, OwnedType
  <2>3. stake \in Int /\ tokens \in Int /\ Kept(t, h) = stake + tokens
    BY <2>2 DEF Kept
  <2>4. (IF t = Usdc /\ h \in Nodes THEN nodes'[h].deposited ELSE 0) = stake - d2 - d3
    <3>1. CASE t = Usdc /\ h = n
      <4>1. nodes'[h].deposited = nodes[h].deposited - u /\ nodes[h].deposited \in Nat
        BY <1>2, <1>4, <2>2, <3>1
      <4> QED BY <1>1, <1>2, <1>3, <3>1, <4>1 DEF net
    <3>2. CASE ~(t = Usdc /\ h = n)
      <4>1. d2 = 0 /\ d3 = 0
        BY <3>2
      <4>2. (IF t = Usdc /\ h \in Nodes THEN nodes'[h].deposited ELSE 0) = stake
        BY <1>4, <3>2
      <4> QED BY <2>3, <4>1, <4>2
    <3> QED BY <3>1, <3>2
  <2>5. (IF h \in Sellers THEN EscrowedBy(t, h)' ELSE 0) = tokens - d1
    <3>1. EscrowedBy(t, h)' = EscrowedBy(t, h) - d1
      BY <1>6
    <3>2. CASE h \in Sellers
      BY <3>1, <3>2
    <3>3. CASE h \notin Sellers
      BY <1>1, <3>3
    <3> QED BY <3>2, <3>3
  <2>6. Kept(t, h)' = (IF t = Usdc /\ h \in Nodes THEN nodes'[h].deposited ELSE 0)
                        + (IF h \in Sellers THEN EscrowedBy(t, h)' ELSE 0)
    BY DEF Kept
  <2>7. balance'[t][h] = balance[t][h] + c1 + c2 + c3
    BY <1>7
  <2>8. /\ w1[t][h] = OwnedBy[t][h] + c3 - d1
        /\ w2[t][h] = w1[t][h] + c1 - d2
        /\ w3[t][h] = w2[t][h] + c2 - d3
    BY <1>10, <1>11, <1>12
  <2> HIDE DEF c1, c2, c3, d1, d2, d3, stake, tokens
  <2>9. Kept(t, h)' = (stake - d2 - d3) + (tokens - d1)
    BY <2>4, <2>5, <2>6
  <2> QED BY <2>1, <2>2, <2>3, <2>7, <2>8, <2>9
<1>14. OwnedBy' = w3
  BY <1>12, <1>13 DEF OwnedBy
<1>15. /\ DealOf(exits[id]).asset = a /\ DealOf(exits[id]).seller = p
       /\ DealOf(exits[id]).amount = k /\ DealOf(exits[id]).bidder = n
       /\ DealOf(exits[id]).price = u
  BY DEF DealOf, a, p, k, n, u
<1> QED BY <1>14, <1>15 DEF w1, w2, w3, net, fee, tr

\* A fill is a sale of the standing bid, at its turn and at least the seller's reserve.
LEMMA FillIsSale ==
  ASSUME LayerInv, NEW id \in ExitIds, Live(exits[id]), fill(id)
  PROVE  Market!MarketNext
<1> DEFINE ex == exits[id]
           e == [ex EXCEPT !.status = "Settled"]
           d == DealOf(ex)
           fee == protocol_fee(d.price)
           tr == routerConfig.treasury
<1>1. /\ ex.best_usdc >= ex.min_accept_usdc /\ AtHead(ex.asset, id) /\ ex.best_node # NoAddr
      /\ settle(AuctionAddr, id, ex.best_node, ex.amount, ex.best_usdc)
      /\ LeaveLine(id)
      /\ exits' = [exits EXCEPT ![id] = e]
  BY DEF fill
<1>2. /\ ex \in ExitStates /\ ex.best_usdc \in Nat /\ exits \in [ExitIds -> ExitStates]
      /\ RouterInv /\ routerConfig \in RouterConfigs
  BY LiveExit DEF LayerInv, AuctionTypeOK, RouterInv, RouterTypeOK
<1>3. /\ d.status \in Market!Waiting /\ d.bidder = ex.best_node /\ d.price = ex.best_usdc
      /\ d.reserve = ex.min_accept_usdc /\ d.asset = ex.asset
  <2>1. Live(ex)
    OBVIOUS
  <2> HIDE DEF ex
  <2> QED BY <2>1 DEF DealOf, Live, Market!Waiting
<1>4. tr \in Treasuries
  BY <1>1, <1>2 DEF settle, RouterFromAuction, RouterInv, RouterSlots
<1>5. fee \in 0 .. d.price /\ fee * BPS_DENOMINATOR <= d.price * MAX_PROTOCOL_FEE_BPS
  <2>1. protocol_fee(ex.best_usdc) \in Nat
    BY <1>2, FeeType
  <2>2. ex.best_usdc - protocol_fee(ex.best_usdc) > 0
    BY <1>1 DEF settle, PayOutAllowed
  <2>3. protocol_fee(ex.best_usdc) * BPS_DENOMINATOR <= ex.best_usdc * MAX_PROTOCOL_FEE_BPS
    BY <1>2, FeeBounded
  <2>4. protocol_fee(ex.best_usdc) <= ex.best_usdc
    BY <1>2, <2>1, <2>2
  <2> QED BY <1>2, <1>3, <2>1, <2>3, <2>4
<1>6. OwnedBy' =
         Market!Pay(Market!Pay(Market!Pay(OwnedBy, d.asset, d.seller, d.bidder, d.amount),
                               Usdc, d.bidder, d.seller, d.price - fee),
                    Usdc, d.bidder, tr, fee)
  BY FillSells
<1>7. Market!LeavesLine(id)
  BY <1>1, LineLeft
<1>8. Market!FirstServed(id)
  BY <1>1, <1>3 DEF AtHead, Market!FirstServed
<1>9. Deals[id] = d /\ DealOf(e) = [d EXCEPT !.status = "Settled"]
  BY <1>2 DEF DealOf, Deals, ExitStates
<1>10. Deals' = [Deals EXCEPT ![id] = DealOf(e)]
  <2> HIDE DEF e
  <2> QED BY <1>1, <1>2, DealWritten
<1>11. Deals' = [Deals EXCEPT ![id].status = "Settled"]
  <2> HIDE DEF e, d
  <2> QED BY <1>9, <1>10 DEF Deals
<1>12. d.bidder # NoAddr /\ d.price >= d.reserve
  BY <1>1, <1>3
<1> HIDE DEF e, fee, tr, d
<1>13. Market!Sell(id)
  BY <1>3, <1>4, <1>5, <1>6, <1>7, <1>8, <1>9, <1>11, <1>12 DEF Market!Sell, Deals
<1> QED BY <1>13 DEF Market!MarketNext

-----------------------------------------------------------------------------
(* The refinement.                                                         *)

\* Every step of the layer is a step of the market, or nothing in it.
LEMMA LayerStepsTrade ==
  ASSUME LayerInv, [LayerNext]_layerVars
  PROVE  Market!MarketNext \/ UNCHANGED Market!marketVars
<1>1. RouterInv
  BY DEF LayerInv
<1>2. CASE LayerTick \/ AdminCalls \/ UNCHANGED layerVars
  BY <1>1, <1>2, QuietSteps
<1>3. CASE NodeCalls /\ UNCHANGED <<routerStorage, queueVars, auctionStorage>>
  BY <1>1, <1>3, QuietSteps
<1>4. CASE SellerCalls
  <2>1. CASE \E p \in Sellers, a \in Assets, amt \in SaleAmounts, r \in References,
                m \in Reserves, d \in Durations : open_exit(p, a, amt, r, m, d)
    <3>1. SaleAmounts \subseteq Int /\ References \subseteq Int /\ Durations \subseteq Nat
      BY RouterAssumption, AuctionAssumption
    <3> QED BY <2>1, <3>1, OpenOffers
  <2>2. CASE \E id \in ExitIds : accept_bid(id)
    <3>1. PICK id \in ExitIds : accept_bid(id)
      BY <2>2
    <3>2. Live(exits[id]) /\ fill(id)
      BY <3>1 DEF accept_bid
    <3> QED BY <3>2, FillIsSale
  <2>3. CASE \E id \in ExitIds : cancel(id)
    BY <2>3, CancelCallsOff
  <2> QED BY <1>4, <2>1, <2>2, <2>3 DEF SellerCalls
<1>5. CASE \E n \in Nodes, id \in ExitIds, amt \in BidAmounts : place_bid(n, id, amt)
  <2>1. BidAmounts \subseteq Int
    BY VaultAssumption
  <2> QED BY <1>5, <2>1, BidBids
<1>6. CASE \E id \in ExitIds : close(id)
  <2>1. PICK id \in ExitIds : close(id)
    BY <1>6
  <2>2. exits[id].status = "Open" /\ Live(exits[id])
    BY <2>1 DEF close, Live
  <2>3. CASE fill(id)
    BY <2>2, <2>3, FillIsSale
  <2>4. CASE /\ enqueue(AuctionAddr, exits[id].asset, id)
             /\ exits' = [exits EXCEPT ![id].status = "Queued"]
             /\ UNCHANGED routerVars
    BY <2>2, <2>4, CloseJoins
  <2> QED BY <2>1, <2>3, <2>4 DEF close
<1> QED BY <1>2, <1>3, <1>4, <1>5, <1>6 DEF LayerNext

\* The four contracts implement the market, for any number of parties, assets and exits:
\* in every behaviour, wired or not, what each party owns changes only by a sale of a
\* standing bid, at its turn and at its price, with a fee below its ceiling.
THEOREM LayerImplementsMarket ==
  (LayerSpec => ImplementsMarket) /\ (WiredSpec => ImplementsMarket)
<1>1. LayerInit => Market!MarketInit
  BY LayerInvInit, MarketOpens
     DEF LayerInit, RouterInit, VaultInit, TokenInit, EmptyVault, QueueInit
<1>2. WiredInit => Market!MarketInit
  BY LayerInvWired, MarketOpens DEF WiredInit, TokenInit, EmptyVault
<1>3. LayerInv /\ [LayerNext]_layerVars => [Market!MarketNext]_(Market!marketVars)
  BY LayerStepsTrade
<1>4. LayerSpec => ImplementsMarket
  BY <1>1, <1>3, LayerInvariance, PTL DEF LayerSpec, ImplementsMarket, Market!MarketSpec
<1>5. WiredSpec => ImplementsMarket
  BY <1>2, <1>3, LayerInvariance, PTL DEF WiredSpec, ImplementsMarket, Market!MarketSpec
<1> QED BY <1>4, <1>5
-----------------------------------------------------------------------------
(* The order of the lines.                                                 *)

\* The tickets handed out so far, and that they grow from the head of a line to its end.
TicketsInOrder ==
    /\ ticket \in [ExitIds -> Nat]
    /\ \A id \in ExitIds : /\ exits[id].status \in {"None", "Open"} => ticket[id] = 0
                           /\ ticket[id] <= LastTicket
    /\ \A a \in Assets : \A i, j \in 1 .. Len(queues[a]) :
          i < j => ticket[queues[a][i]] < ticket[queues[a][j]]

\* The inductive invariant of the layer with its tickets.
LineInv == LayerInv /\ TicketsInOrder

\* What a step does to one exit: only an open exit is queued, no exit is opened twice, an
\* exit that settles is the first of its line, if there is one, and the asset stays.
StatusStep(id) ==
    LET ex == exits[id]  next == exits'[id] IN
    /\ next.status # ex.status =>
          /\ next.status = "Queued" => ex.status = "Open"
          /\ next.status \in {"None", "Open"} => ex.status = "None"
          /\ next.status = "Settled" => Live(ex) /\ AtHead(ex.asset, id)
    /\ ex.status # "None" => next.asset = ex.asset

\* A step is about one exit.
LEMMA OneExitSteps ==
  ASSUME NEW id \in ExitIds, StatusStep(id),
         \A x \in ExitIds : x # id => exits'[x] = exits[x],
         \A a \in Assets : LineStep(queues[a], queues'[a])
  PROVE  /\ \A a \in Assets : LineStep(queues[a], queues'[a])
         /\ \A x \in ExitIds : StatusStep(x)
         /\ \A x, y \in ExitIds : (Joins(x) /\ Joins(y)) => x = y
<1>1. \A x \in ExitIds : x # id => StatusStep(x) /\ ~Joins(x)
  BY DEF StatusStep, Joins
<1> QED BY <1>1

\* Every transaction moves every line by a LineStep, and the status of one exit at most.
LEMMA LinesStep ==
  ASSUME LayerInv, [LayerNext]_layerVars
  PROVE  /\ \A a \in Assets : LineStep(queues[a], queues'[a])
         /\ \A x \in ExitIds : StatusStep(x)
         /\ \A x, y \in ExitIds : (Joins(x) /\ Joins(y)) => x = y
<1> DEFINE Goal == /\ \A a \in Assets : LineStep(queues[a], queues'[a])
                   /\ \A x \in ExitIds : StatusStep(x)
                   /\ \A x, y \in ExitIds : (Joins(x) /\ Joins(y)) => x = y
<1>1. exits \in [ExitIds -> ExitStates] /\ QueueInv
  BY DEF LayerInv, AuctionTypeOK
<1>2. UNCHANGED queues => \A a \in Assets : LineStep(queues[a], queues'[a])
  BY <1>1, SameLine
<1>3. CASE UNCHANGED <<exits, queues>>
  BY <1>2, <1>3 DEF StatusStep, Joins
<1>4. ASSUME NEW id \in ExitIds, Live(exits[id]), LeaveLine(id)
      PROVE  \A a \in Assets : LineStep(queues[a], queues'[a])
  <2>1. exits[id].asset \in Assets
    BY <1>4, LiveExit
  <2> QED BY <1>1, <1>2, <1>4, <2>1, DequeueStep DEF LeaveLine
<1>5. ASSUME NEW id \in ExitIds, Live(exits[id]), fill(id) PROVE Goal
  <2>1. /\ exits' = [exits EXCEPT ![id].status = "Settled"]
        /\ AtHead(exits[id].asset, id) /\ LeaveLine(id)
    BY <1>5 DEF fill
  <2>2. /\ exits'[id].status = "Settled" /\ exits'[id].asset = exits[id].asset
        /\ \A x \in ExitIds : x # id => exits'[x] = exits[x]
    BY <1>1, <2>1 DEF ExitStates
  <2>3. StatusStep(id)
    BY <1>5, <2>1, <2>2 DEF StatusStep
  <2> QED BY <1>4, <1>5, <2>1, <2>2, <2>3, OneExitSteps
<1>6. ASSUME NEW id \in ExitIds, cancel(id) PROVE Goal
  <2>1. /\ Live(exits[id]) /\ LeaveLine(id)
        /\ exits' = [exits EXCEPT ![id].status = "Cancelled",
                                  ![id].best_node = NoAddr, ![id].best_usdc = 0]
    BY <1>6 DEF cancel
  <2>2. /\ exits'[id].status = "Cancelled" /\ exits'[id].asset = exits[id].asset
        /\ \A x \in ExitIds : x # id => exits'[x] = exits[x]
    BY <1>1, <2>1 DEF ExitStates
  <2>3. StatusStep(id)
    BY <2>2 DEF StatusStep
  <2> QED BY <1>4, <2>1, <2>2, <2>3, OneExitSteps
<1>7. CASE SellerCalls
  <2>1. CASE \E p \in Sellers, a \in Assets, amt \in SaleAmounts, r \in References,
                m \in Reserves, d \in Durations : open_exit(p, a, amt, r, m, d)
    <3>1. PICK p \in Sellers, a \in Assets, amt \in SaleAmounts, r \in References,
                m \in Reserves, d \in Durations : open_exit(p, a, amt, r, m, d)
      BY <2>1
    <3>2. next_id \in ExitIds /\ exits[next_id] = NoExit
      BY <3>1, AddressAssumption
         DEF open_exit, LayerInv, AuctionTypeOK, AuctionSlots, ExitIds
    <3>3. /\ exits'[next_id].status = "Open" /\ UNCHANGED queues
          /\ \A x \in ExitIds : x # next_id => exits'[x] = exits[x]
      BY <1>1, <3>1, <3>2 DEF open_exit, queueVars
    <3>4. StatusStep(next_id)
      BY <3>2, <3>3 DEF StatusStep, NoExit
    <3> QED BY <1>2, <3>2, <3>3, <3>4, OneExitSteps
  <2>2. CASE \E id \in ExitIds : accept_bid(id) \/ cancel(id)
    BY <1>5, <1>6, <2>2 DEF accept_bid
  <2> QED BY <1>7, <2>1, <2>2 DEF SellerCalls
<1>8. CASE \E n \in Nodes, id \in ExitIds, amt \in BidAmounts : place_bid(n, id, amt)
  <2>1. PICK n \in Nodes, id \in ExitIds, amt \in BidAmounts : place_bid(n, id, amt)
    BY <1>8
  <2>2. /\ exits' = [exits EXCEPT ![id].best_node = n, ![id].best_usdc = amt]
        /\ UNCHANGED queues
    BY <2>1 DEF place_bid, queueVars
  <2>3. /\ exits'[id].status = exits[id].status /\ exits'[id].asset = exits[id].asset
        /\ \A x \in ExitIds : x # id => exits'[x] = exits[x]
    BY <1>1, <2>2 DEF ExitStates
  <2>4. StatusStep(id)
    BY <2>3 DEF StatusStep
  <2> QED BY <1>2, <2>2, <2>3, <2>4, OneExitSteps
<1>9. CASE \E id \in ExitIds : close(id)
  <2>1. PICK id \in ExitIds : close(id)
    BY <1>9
  <2>2. exits[id].status = "Open" /\ Live(exits[id])
    BY <2>1 DEF close, Live
  <2>3. CASE fill(id)
    BY <1>5, <2>2, <2>3
  <2>4. CASE /\ enqueue(AuctionAddr, exits[id].asset, id)
             /\ exits' = [exits EXCEPT ![id].status = "Queued"]
    <3>1. exits[id].asset \in Assets
      BY <2>2, LiveExit
    <3>2. \A a \in Assets : LineStep(queues[a], queues'[a])
      BY <1>1, <2>4, <3>1, EnqueueStep
    <3>3. /\ exits'[id].status = "Queued" /\ exits'[id].asset = exits[id].asset
          /\ \A x \in ExitIds : x # id => exits'[x] = exits[x]
      BY <1>1, <2>4 DEF ExitStates
    <3>4. StatusStep(id)
      BY <2>2, <3>3 DEF StatusStep
    <3> QED BY <3>2, <3>3, <3>4, OneExitSteps
  <2> QED BY <2>1, <2>3, <2>4 DEF close
<1>10. CASE LayerTick \/ UNCHANGED layerVars
  BY <1>3, <1>10 DEF LayerTick, layerVars, auctionStorage, queueVars
<1>11. CASE AdminCalls
  BY <1>3, <1>11 DEF AdminCalls, QueueAdminCalls, queue_initialize, queue_set_auction,
                     auctionStorage, queueVars, auction_initialize, auction_set_admin
<1>12. CASE NodeCalls /\ UNCHANGED <<routerStorage, queueVars, auctionStorage>>
  BY <1>3, <1>12 DEF auctionStorage, queueVars
<1> QED BY <1>7, <1>8, <1>9, <1>10, <1>11, <1>12 DEF LayerNext

\* One ticket more has been handed out after an exit joined, and none otherwise.
LEMMA TicketsHandedOut ==
  ASSUME NEW t \in [ExitIds -> Nat], NEW u \in [ExitIds -> Nat],
         NEW x \in ExitIds, t[x] = 0, u[x] # 0, \A y \in ExitIds : y # x => u[y] = t[y]
  PROVE  /\ Cardinality({id \in ExitIds : t[id] # 0}) \in Nat
         /\ Cardinality({id \in ExitIds : u[id] # 0})
              = Cardinality({id \in ExitIds : t[id] # 0}) + 1
<1> DEFINE T == {id \in ExitIds : t[id] # 0}
<1>1. IsFiniteSet(ExitIds)
  BY FS_Interval, AddressAssumption DEF ExitIds
<1>2. IsFiniteSet(T)
  BY <1>1, FS_Subset
<1>3. {id \in ExitIds : u[id] # 0} = T \cup {x} /\ x \notin T
  OBVIOUS
<1> QED BY <1>2, <1>3, FS_CardinalityType, FS_AddElement

\* No line yet.
LEMMA TicketsInit == (MCInit \/ MCDeployInit) => LineInv
<1> SUFFICES ASSUME MCInit \/ MCDeployInit PROVE LineInv
  OBVIOUS
<1>1. LayerInv
  BY LayerInvInit, LayerInvWired DEF MCInit, MCDeployInit
<1>2. queues = [a \in Assets |-> <<>>]
  BY DEF MCInit, MCDeployInit, WiredInit, LayerInit, QueueInit
<1>3. LastTicket \in Nat
  <2>1. IsFiniteSet(ExitIds)
    BY FS_Interval, AddressAssumption DEF ExitIds
  <2> QED BY <2>1, FS_Subset, FS_CardinalityType DEF LastTicket
<1>4. ticket = [id \in ExitIds |-> 0]
  BY DEF MCInit, MCDeployInit, NoTickets
<1>5. \A a \in Assets : Len(queues[a]) = 0
  BY <1>2
<1> QED BY <1>1, <1>3, <1>4, <1>5 DEF LineInv, TicketsInOrder

\* Joining hands out a higher ticket than any before; nothing else changes a ticket or
\* the order of a line.
LEMMA TicketsStep == LineInv /\ [MCNext]_mcVars => LineInv'
<1> SUFFICES ASSUME LineInv, [MCNext]_mcVars PROVE LineInv'
  OBVIOUS
<1>0. LayerInv /\ LayerInv' /\ [LayerNext]_layerVars
  BY LayerInvStep DEF LineInv, MCNext, mcVars
<1>1. CASE UNCHANGED mcVars
  BY <1>0, <1>1 DEF mcVars, layerVars, queueVars, auctionStorage, LineInv, TicketsInOrder, LastTicket
<1>2. CASE MCNext
  <2>1. /\ \A a \in Assets : LineStep(queues[a], queues'[a])
        /\ \A x \in ExitIds : StatusStep(x)
        /\ \A x, y \in ExitIds : (Joins(x) /\ Joins(y)) => x = y
    BY <1>0, LinesStep
  <2>2. /\ ticket \in [ExitIds -> Nat]
        /\ \A id \in ExitIds : /\ exits[id].status \in {"None", "Open"} => ticket[id] = 0
                               /\ ticket[id] <= LastTicket
    BY DEF LineInv, TicketsInOrder
  <2>3. LastTicket \in Nat /\ IsFiniteSet(ExitIds)
    <3>1. IsFiniteSet(ExitIds)
      BY FS_Interval, AddressAssumption DEF ExitIds
    <3> QED BY <3>1, FS_Subset, FS_CardinalityType DEF LastTicket
  <2>4. /\ ticket' \in [ExitIds -> Nat]
        /\ \A id \in ExitIds : ticket'[id] = IF Joins(id) THEN LastTicket + 1 ELSE ticket[id]
    <3> HIDE DEF LastTicket
    <3> QED BY <1>2, <2>2, <2>3 DEF MCNext
  <2>5. \A id \in ExitIds : exits'[id].status \in {"None", "Open"} => ticket'[id] = 0
    <3> SUFFICES ASSUME NEW id \in ExitIds, exits'[id].status \in {"None", "Open"}
                 PROVE  ticket'[id] = 0
      OBVIOUS
    <3>1. ~Joins(id)
      BY DEF Joins
    <3>2. exits[id].status \in {"None", "Open"}
      BY <2>1 DEF StatusStep
    <3> QED BY <2>2, <2>4, <3>1, <3>2
  <2>6. \A id \in ExitIds : ticket'[id] <= LastTicket'
    <3>1. CASE \A x \in ExitIds : ~Joins(x)
      <4>1. \A id \in ExitIds : ticket'[id] = ticket[id]
        BY <2>4, <3>1
      <4>2. LastTicket' = LastTicket
        BY <4>1 DEF LastTicket
      <4> QED BY <2>2, <4>1, <4>2
    <3>2. ASSUME NEW x \in ExitIds, Joins(x) PROVE \A id \in ExitIds : ticket'[id] <= LastTicket'
      <4>1. /\ ticket[x] = 0 /\ ticket'[x] = LastTicket + 1
            /\ \A y \in ExitIds : y # x => ticket'[y] = ticket[y]
        BY <2>1, <2>2, <2>4, <3>2 DEF Joins
      <4>2. ticket'[x] # 0
        BY <2>3, <4>1
      <4>3. LastTicket' = LastTicket + 1
        BY <2>2, <2>4, <4>1, <4>2, TicketsHandedOut DEF LastTicket
      <4> HIDE DEF LastTicket
      <4>4. \A y \in ExitIds : ticket[y] \in Nat /\ ticket[y] <= LastTicket
        BY <2>2
      <4> QED BY <2>3, <4>1, <4>3, <4>4
    <3> QED BY <3>1, <3>2
  <2>7. \A a \in Assets : \A i, j \in 1 .. Len(queues'[a]) :
          i < j => ticket'[queues'[a][i]] < ticket'[queues'[a][j]]
    <3> SUFFICES ASSUME NEW a \in Assets, NEW i \in 1 .. Len(queues'[a]),
                        NEW j \in 1 .. Len(queues'[a]), i < j
                 PROVE  ticket'[queues'[a][i]] < ticket'[queues'[a][j]]
      OBVIOUS
    <3> DEFINE q == queues[a]
               r == queues'[a]
               front == r[i]
               back == r[j]
    <3>1. /\ q \in Seq(ExitIds) /\ NoDuplicates(q) /\ LineStep(q, r) /\ r \in Seq(ExitIds)
          /\ NoDuplicates(r)
      BY <1>0, <2>1 DEF LayerInv, QueueInv, QueueTypeOK, LineWellFormed, NoDuplicates, LineStep
    <3>2. /\ front \in ExitIds /\ back \in ExitIds /\ front # back
          /\ exits'[back].status = "Queued" /\ exits'[back].asset = a
      <4>1. front \in ExitIds /\ back \in ExitIds /\ InLine(r, back)
        BY <3>1 DEF InLine
      <4>2. front # back
        BY <3>1 DEF NoDuplicates
      <4>3. exits'[back].status = "Queued" /\ exits'[back].asset = a
        BY <1>0, <4>1 DEF LayerInv, QueueMatches
      <4> QED BY <4>1, <4>2, <4>3
    <3>3. CASE InLine(q, back)
      <4>1. InLine(q, front) /\ position_of(q, front) < position_of(q, back)
        BY <3>1, <3>3 DEF LineStep
      <4>2. PICK k \in 1 .. Len(q) : q[k] = front
        BY <4>1 DEF InLine
      <4>3. PICK l \in 1 .. Len(q) : q[l] = back
        BY <3>3 DEF InLine
      <4>4. position_of(q, front) = k /\ position_of(q, back) = l
        BY <3>1, <4>2, <4>3, PositionOf
      <4>5. ticket[front] < ticket[back]
        BY <4>1, <4>2, <4>3, <4>4 DEF LineInv, TicketsInOrder
      <4>6. exits[front].status = "Queued" /\ exits[back].status = "Queued"
        BY <1>0, <3>2, <3>3, <4>1 DEF LayerInv, QueueMatches
      <4>7. ~Joins(front) /\ ~Joins(back)
        BY <4>6 DEF Joins
      <4> QED BY <2>4, <3>2, <4>5, <4>7
    <3>4. CASE ~InLine(q, back)
      <4>1. Joins(back)
        <5>1. exits[back].status # "Queued"
          <6> SUFFICES ASSUME exits[back].status = "Queued" PROVE FALSE
            OBVIOUS
          <6>1. exits[back].asset = a
            BY <2>1, <3>2 DEF StatusStep
          <6> QED BY <1>0, <3>2, <3>4, <6>1 DEF LayerInv, QueueMatches
        <5>2. exits[back].status = "Open"
          BY <2>1, <3>2, <5>1 DEF StatusStep
        <5> QED BY <3>2, <5>2 DEF Joins
      <4>2. ~Joins(front)
        BY <2>1, <3>2, <4>1
      <4>3. ticket'[front] = ticket[front] /\ ticket'[back] = LastTicket + 1
        BY <2>4, <3>2, <4>1, <4>2
      <4>4. ticket[front] \in Nat /\ ticket[front] <= LastTicket
        BY <2>2, <3>2
      <4> HIDE DEF LastTicket
      <4> QED BY <2>3, <4>3, <4>4
    <3> QED BY <3>3, <3>4
  <2> QED BY <1>0, <2>4, <2>5, <2>6, <2>7 DEF LineInv, TicketsInOrder
<1> QED BY <1>1, <1>2

\* For any number of exits and assets and any depth, wired or not: when an exit settles
\* while others of its asset wait, it has waited longest of all of them.
THEOREM NobodyIsOvertaken == (MCDeploySpec => LineRespected) /\ (MCSpec => LineRespected)
<1> DEFINE Respected ==
      \A id, other \in ExitIds :
          (/\ exits[id].status # "Settled" /\ exits'[id].status = "Settled"
           /\ other # id /\ exits[other].status = "Queued"
           /\ exits[other].asset = exits[id].asset)
          => /\ exits[id].status = "Queued"
             /\ ticket[id] < ticket[other]
<1>1. ASSUME LineInv, [MCNext]_mcVars PROVE Respected
  <2> SUFFICES ASSUME NEW id \in ExitIds, NEW other \in ExitIds,
                      exits[id].status # "Settled", exits'[id].status = "Settled",
                      other # id, exits[other].status = "Queued",
                      exits[other].asset = exits[id].asset
               PROVE  exits[id].status = "Queued" /\ ticket[id] < ticket[other]
    OBVIOUS
  <2>0. LayerInv /\ [LayerNext]_layerVars
    BY <1>1 DEF LineInv, MCNext, mcVars
  <2>1. Live(exits[id]) /\ AtHead(exits[id].asset, id)
    BY <2>0, LinesStep DEF StatusStep
  <2> DEFINE a == exits[id].asset
             q == queues[a]
  <2>2. a \in Assets /\ q \in Seq(ExitIds)
    BY <2>0, <2>1, LiveExit DEF LayerInv, QueueInv, QueueTypeOK
  <2>3. InLine(q, other)
    BY <2>0, <2>2 DEF LayerInv, QueueMatches
  <2>4. PICK j \in 1 .. Len(q) : q[j] = other
    BY <2>3 DEF InLine
  <2>5. q # <<>> /\ 1 \in 1 .. Len(q) /\ q[1] = id
    BY <2>1, <2>2, <2>4 DEF AtHead
  <2>6. InLine(q, id)
    BY <2>5 DEF InLine
  <2>7. exits[id].status = "Queued"
    BY <2>0, <2>2, <2>6 DEF LayerInv, QueueMatches
  <2>8. 1 < j
    BY <2>4, <2>5
  <2>9. ticket[id] < ticket[other]
    BY <1>1, <2>2, <2>4, <2>5, <2>8 DEF LineInv, TicketsInOrder
  <2> QED BY <2>7, <2>9
<1>2. LineInv /\ [MCNext]_mcVars => [Respected]_mcVars
  BY <1>1
<1>3. MCDeploySpec => LineRespected
  BY <1>2, TicketsInit, TicketsStep, PTL DEF MCDeploySpec, LineRespected
<1>4. MCSpec => LineRespected
  BY <1>2, TicketsInit, TicketsStep, PTL DEF MCSpec, LineRespected
<1> QED BY <1>3, <1>4
=============================================================================
