------------------------- MODULE MCSettlementRouter -------------------------
(***************************************************************************)
(* The router and the vault on a small instance: nodes own USDC, sellers   *)
(* own participation tokens, and the treasury starts with nothing.         *)
(***************************************************************************)
EXTENDS SettlementRouter, TLC

CONSTANTS NodeFunds, SellerTokens

MCTokens == Assets \cup {Usdc}
MCPayees == Sellers \cup Treasuries
MCHolders == Nodes \cup MCPayees \cup {VaultAddr, RouterAddr}
MCInitialBalance ==
    [t \in MCTokens |-> [h \in MCHolders |->
        IF t = Usdc /\ h \in Nodes THEN NodeFunds
        ELSE IF t # Usdc /\ h \in Sellers THEN SellerTokens
        ELSE 0]]

\* The instance is one to which the theorem about DeliveryAgainstPayment applies.
ASSUME InstanceDistinct == PartiesDistinct

Symmetry == Permutations(Sellers)
=============================================================================
