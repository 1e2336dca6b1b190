---------------------------- MODULE MCMigration -----------------------------
(***************************************************************************)
(* One node and one seller across the replacement of the auction.          *)
(***************************************************************************)
EXTENDS Migration

CONSTANTS NodeFunds, SellerTokens

MCTokens == Assets \cup {Usdc}
MCPayees == Sellers \cup Treasuries
MCHolders == Nodes \cup MCPayees \cup {VaultAddr, RouterAddr}
MCInitialBalance ==
    [t \in MCTokens |-> [h \in MCHolders |->
        IF t = Usdc /\ h \in Nodes THEN NodeFunds
        ELSE IF t # Usdc /\ h \in Sellers THEN SellerTokens
        ELSE 0]]
=============================================================================
