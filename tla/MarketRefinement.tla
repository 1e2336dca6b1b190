-------------------------- MODULE MarketRefinement --------------------------
(***************************************************************************)
(* The exit layer implements the market of ExitMarket.  What a party owns  *)
(* is what its address holds and what the layer keeps for it: a node's     *)
(* deposit in the vault, a seller's tokens in escrow.  Under this mapping  *)
(* deposits, withdrawals, terms, admin calls and the clock change nothing; *)
(* an exit changes hands exactly when the four contracts settle it.        *)
(***************************************************************************)
EXTENDS ExitAuction

\* The protocol fee goes to an address outside the layer.  The router accepts any.
ASSUME TreasuryOutside == Treasuries \cap {VaultAddr, RouterAddr} = {}

Parties == Nodes \cup Sellers \cup Treasuries

\* What the router keeps of a token for one seller.
EscrowedBy(t, s) ==
    Total([id \in ExitIds |->
        IF escrows[id].stored /\ escrows[id].asset = t /\ escrows[id].seller = s
        THEN escrows[id].amount ELSE 0])

Kept(t, h) ==
    (IF t = Usdc /\ h \in Nodes THEN nodes[h].deposited ELSE 0)
      + (IF h \in Sellers THEN EscrowedBy(t, h) ELSE 0)

OwnedBy == [t \in Tokens |-> [h \in Parties |-> balance[t][h] + Kept(t, h)]]

DealOf(ex) ==
    [status |-> ex.status, seller |-> ex.seller, asset |-> ex.asset, amount |-> ex.amount,
     reserve |-> ex.min_accept_usdc, bidder |-> ex.best_node, price |-> ex.best_usdc]

Market == INSTANCE ExitMarket WITH
    deals <- [id \in ExitIds |-> DealOf(exits[id])],
    lines <- queues,
    wealth <- OwnedBy,
    ReservePrices <- Reserves \cap Nat,
    InitialWealth <- [t \in Tokens |-> [h \in Parties |-> InitialBalance[t][h]]]

\* The exit layer implements the market: whatever the contracts do, seen through what
\* each party owns, every transaction is an offer, a higher bid, a place at the back
\* of the line, a sale to the head of it at the standing bid, a cancellation, or
\* nothing.  A deposit that lost a unit, an escrow settled at another price, a fee
\* above its ceiling or a sale out of turn would be none of these.
ImplementsMarket == Market!MarketSpec
=============================================================================
