----------------------------- MODULE Addresses ------------------------------
(***************************************************************************)
(* The names the contracts of the exit layer share: the assets, who may    *)
(* administer the contracts, which addresses they may be wired to, and the *)
(* identifiers of exits.                                                   *)
(***************************************************************************)
EXTENDS Integers

CONSTANTS
    Assets,             \* participation tokens
    Admins,             \* who may hold the admin key of a contract
    Auctions, Routers,  \* addresses an admin may wire as auction and router
    NoAddr,             \* Option<Address>::None
    BPS_DENOMINATOR,
    MaxExits            \* bound on the exits that are ever opened

ASSUME AddressAssumption ==
    /\ NoAddr \notin Auctions \cup Routers \cup Admins
    /\ BPS_DENOMINATOR \in Nat \ {0}
    /\ MaxExits \in Nat

\* The auction numbers exits from 1.
ExitIds == 1 .. MaxExits
=============================================================================
