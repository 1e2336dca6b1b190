------------------------------ MODULE MCLayer -------------------------------
(***************************************************************************)
(* Who holds what in the instances of the exit layer: every node starts    *)
(* with NodeFunds of USDC and every seller with SellerTokens of each asset.*)
(***************************************************************************)
EXTENDS MarketRefinement

CONSTANTS NodeFunds, SellerTokens

MCTokens == Assets \cup {Usdc}
MCPayees == Sellers \cup Treasuries
MCHolders == Nodes \cup MCPayees \cup {VaultAddr, RouterAddr}
MCInitialBalance ==
    [t \in MCTokens |-> [h \in MCHolders |->
        IF t = Usdc /\ h \in Nodes THEN NodeFunds
        ELSE IF t # Usdc /\ h \in Sellers THEN SellerTokens
        ELSE 0]]
=============================================================================
