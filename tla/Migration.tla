----------------------------- MODULE Migration ------------------------------
(***************************************************************************)
(* Replacing the auction.  set_auction lets the admin of the vault, the    *)
(* router and the queue point each of them at another auction, one         *)
(* transaction at a time, while the old auction has exits that are live.   *)
(* The new auction numbers its exits from 1 again and shares the vault,    *)
(* the router's escrows and the lines with the old one.                    *)
(***************************************************************************)
EXTENDS SettlementRouter, FifoQueue

CONSTANTS
    OldAuction, NewAuction,
    MIN_DURATION, MAX_DURATION, I128_MAX,
    References, Reserves, Durations

ASSUME MigrationAssumption ==
    /\ OldAuction \in Auctions /\ NewAuction \in Auctions /\ OldAuction # NewAuction
    /\ RouterAddr \in Routers
    /\ NoAddr \notin Nodes
    /\ MIN_DURATION \in Nat /\ MAX_DURATION \in Nat /\ I128_MAX \in Nat
    /\ References \subseteq Int /\ Reserves \subseteq Int /\ Durations \subseteq Nat

VARIABLES
    oldConfig, oldNext, oldExits,
    newConfig, newNext, newExits

oldStorage == <<oldConfig, oldNext, oldExits>>
newStorage == <<newConfig, newNext, newExits>>
migrationVars == <<routerVars, queueVars, oldStorage, newStorage>>

Old == INSTANCE ExitAuction WITH
    AuctionAddr <- OldAuction,
    auctionConfig <- oldConfig, next_id <- oldNext, exits <- oldExits

New == INSTANCE ExitAuction WITH
    AuctionAddr <- NewAuction,
    auctionConfig <- newConfig, next_id <- newNext, exits <- newExits

-----------------------------------------------------------------------------
\* The layer is wired to the old auction; the new one is deployed and initialised.
MigrationInit ==
    /\ Old!WiredInit
    /\ New!NothingOpened
    /\ newConfig = oldConfig

\* One of the three contracts is pointed at one of the two auctions.
Rewire ==
    \E admin \in Admins, x \in {OldAuction, NewAuction} :
        \/ vault_set_auction(admin, x) /\ UNCHANGED <<routerStorage, queueVars>>
        \/ router_set_auction(admin, x) /\ UNCHANGED queueVars
        \/ queue_set_auction(admin, x) /\ UNCHANGED routerVars

OldCalls ==
    \/ Old!SellerCalls
    \/ \E n \in Nodes, id \in ExitIds, amt \in BidAmounts : Old!place_bid(n, id, amt)
    \/ \E id \in ExitIds : Old!close(id)

NewCalls ==
    \/ New!SellerCalls
    \/ \E n \in Nodes, id \in ExitIds, amt \in BidAmounts : New!place_bid(n, id, amt)
    \/ \E id \in ExitIds : New!close(id)

MigrationNext ==
    \/ /\ Tick \/ NodeCalls
       /\ UNCHANGED <<routerStorage, queueVars, oldStorage, newStorage>>
    \/ Rewire /\ UNCHANGED <<oldStorage, newStorage>>
    \/ OldCalls /\ UNCHANGED newStorage
    \/ NewCalls /\ UNCHANGED oldStorage

MigrationSpec == MigrationInit /\ [][MigrationNext]_migrationVars

-----------------------------------------------------------------------------
(* Properties.                                                             *)

OldLive(id) == Old!Live(oldExits[id])
NewLive(id) == New!Live(newExits[id])

\* The two auctions give out the same numbers, but one number is never live in both:
\* the router's slot is taken until the first of the two has ended, and holds what
\* that one is selling.
OneLivePerId ==
    \A id \in ExitIds :
        /\ ~(OldLive(id) /\ NewLive(id))
        /\ escrows[id].stored <=> OldLive(id) \/ NewLive(id)
        /\ OldLive(id) => escrows[id].seller = oldExits[id].seller
                          /\ escrows[id].amount = oldExits[id].amount
        /\ NewLive(id) => escrows[id].seller = newExits[id].seller
                          /\ escrows[id].amount = newExits[id].amount

\* What a node has committed is the sum of its standing bids in both auctions.
BidsBackedInBoth ==
    \A n \in Nodes :
        nodes[n].committed = Old!BidsOf(n, {"Open", "Queued"}) + New!BidsOf(n, {"Open", "Queued"})

\* The line of an asset holds the queued exits of both auctions and nothing else.
LinesHoldBoth ==
    \A a \in Assets, id \in ExitIds :
        InLine(queues[a], id) <=>
            \/ oldExits[id].status = "Queued" /\ oldExits[id].asset = a
            \/ newExits[id].status = "Queued" /\ newExits[id].asset = a

WiredTo(x) == vaultConfig.auction = x /\ routerConfig.auction = x /\ queueConfig.auction = x

\* Going back repairs everything: whatever happened in between, once the three contracts
\* are wired to an auction again each of its live exits can be cancelled, and each whose
\* window is over can be closed.
WiredBackWorks ==
    \A id \in ExitIds :
        /\ WiredTo(OldAuction) =>
             /\ OldLive(id) => ENABLED Old!cancel(id)
             /\ (oldExits[id].status = "Open" /\ now > oldExits[id].closes_at)
                => ENABLED Old!close(id)
        /\ WiredTo(NewAuction) =>
             /\ NewLive(id) => ENABLED New!cancel(id)
             /\ (newExits[id].status = "Open" /\ now > newExits[id].closes_at)
                => ENABLED New!close(id)
=============================================================================
