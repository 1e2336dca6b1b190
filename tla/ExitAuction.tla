---------------------------- MODULE ExitAuction -----------------------------
(***************************************************************************)
(* The exit_auction contract and, through it, the whole exit layer: the    *)
(* auction drives the vault, the router and the queue, each call being one *)
(* transaction that succeeds or reverts as a whole.                        *)
(*                                                                         *)
(* LayerSpec starts from contracts that are deployed and not initialised.  *)
(* WiredSpec starts where scripts/deploy_testnet.sh ends.                  *)
(***************************************************************************)
EXTENDS SettlementRouter, FifoQueue

CONSTANTS
    AuctionAddr,
    MIN_DURATION, MAX_DURATION,
    I128_MAX,                           \* where i128 arithmetic panics
    References, Reserves, Durations     \* inputs enumerated

ASSUME AuctionAssumption ==
    /\ AuctionAddr \in Auctions /\ RouterAddr \in Routers
    /\ NoAddr \notin Nodes
    /\ MIN_DURATION \in Nat /\ MAX_DURATION \in Nat /\ I128_MAX \in Nat
    /\ References \subseteq Int /\ Reserves \subseteq Int /\ Durations \subseteq Nat

VARIABLES
    auctionConfig,  \* DataKey::Config
    next_id,        \* DataKey::NextId
    exits           \* DataKey::Exit(exit_id)

auctionStorage == <<auctionConfig, next_id, exits>>
layerVars == <<routerVars, queueVars, auctionStorage>>

AuctionConfigs == [stored : BOOLEAN, admin : Admins \cup {NoAddr}]
ExitStates ==
    [status : {"None", "Open", "Settled", "Queued", "Cancelled"},
     seller : Sellers \cup {NoAddr}, asset : Assets \cup {NoAddr}, amount : Nat,
     reference_usdc : Nat, min_accept_usdc : Nat, closes_at : Nat,
     best_node : Nodes \cup {NoAddr}, best_usdc : Nat]

NoAuctionConfig == [stored |-> FALSE, admin |-> NoAddr]
NoExit ==
    [status |-> "None", seller |-> NoAddr, asset |-> NoAddr, amount |-> 0,
     reference_usdc |-> 0, min_accept_usdc |-> 0, closes_at |-> 0,
     best_node |-> NoAddr, best_usdc |-> 0]

\* Types of the storage of the four contracts together: whatever open_exit,
\* place_bid, fill, cancel and close call, no contract is left with a negative
\* amount, a gap in a line or a fee above its ceiling.
LayerTypeOK ==
    /\ RouterTypeOK
    /\ QueueTypeOK
    /\ auctionConfig \in AuctionConfigs
    /\ next_id \in 1 .. (MaxExits + 1)
    /\ exits \in [ExitIds -> ExitStates]

Live(ex) == ex.status \in {"Open", "Queued"}

-----------------------------------------------------------------------------
(* Lifecycle.  The vault, router and queue are the deployed ones.          *)

auction_initialize(admin) ==
    /\ ~auctionConfig.stored
    /\ auctionConfig' = [stored |-> TRUE, admin |-> admin]
    /\ next_id' = 1
    /\ UNCHANGED <<routerVars, queueVars, exits>>

auction_set_admin(signer, new_admin) ==
    /\ auctionConfig.stored /\ auctionConfig.admin = signer
    /\ auctionConfig' = [auctionConfig EXCEPT !.admin = new_admin]
    /\ UNCHANGED <<routerVars, queueVars, next_id, exits>>

-----------------------------------------------------------------------------
(* The seller's side.  Each call is signed by the seller of the exit.      *)

open_exit(seller, a, amount, reference_usdc, min_accept_usdc, duration) ==
    /\ next_id <= MaxExits
    /\ auctionConfig.stored
    /\ amount > 0 /\ min_accept_usdc >= 0
    /\ reference_usdc > 0
    /\ MIN_DURATION <= duration /\ duration <= MAX_DURATION
    /\ escrow(AuctionAddr, next_id, seller, a, amount)
    /\ next_id' = next_id + 1
    /\ exits' = [exits EXCEPT ![next_id] =
         [status |-> "Open", seller |-> seller, asset |-> a, amount |-> amount,
          reference_usdc |-> reference_usdc, min_accept_usdc |-> min_accept_usdc,
          closes_at |-> now + duration, best_node |-> NoAddr, best_usdc |-> 0]]
    /\ UNCHANGED <<vaultStorage, now, routerConfig, queueVars, auctionConfig>>

\* Mutants: an exit that ends stays in line; an exit that never joined must leave.
StayInLine(id) == UNCHANGED queues
LeaveAnyLine(id) == dequeue(AuctionAddr, exits[id].asset, id)

LeaveLine(id) ==
    IF exits[id].status = "Queued"
    THEN dequeue(AuctionAddr, exits[id].asset, id)
    ELSE UNCHANGED queues

\* The standing bid goes to the router; its commitment pays for the whole size.
fill(id) ==
    LET ex == exits[id] IN
    /\ ex.best_usdc >= ex.min_accept_usdc
    /\ AtHead(ex.asset, id)
    /\ auctionConfig.stored
    /\ ex.best_node # NoAddr
    /\ settle(AuctionAddr, id, ex.best_node, ex.amount, ex.best_usdc)
    /\ LeaveLine(id)
    /\ exits' = [exits EXCEPT ![id].status = "Settled"]
    /\ UNCHANGED <<vaultConfig, appetites, withdrawals, now, routerConfig,
                   queueConfig, auctionConfig, next_id>>

accept_bid(id) ==
    /\ Live(exits[id])
    /\ exits[id].best_node # NoAddr
    /\ fill(id)

\* Mutant: the bid that is beaten or cancelled keeps its capital locked.
KeepBest(ns, aps, ex) == nodes' = ns /\ appetites' = aps

\* Unlock the standing bid, if there is one, in a vault that holds ns and aps.
release_best(ns, aps, ex) ==
    IF ex.best_node = NoAddr
    THEN nodes' = ns /\ appetites' = aps
    ELSE /\ FromAuction(AuctionAddr)
         /\ ReleaseAllowed(ns, aps, ex.best_node, ex.asset, ex.best_usdc)
         /\ nodes' = LockCapital(ns, ex.best_node, -ex.best_usdc)
         /\ appetites' = AddExposure(aps, ex.best_node, ex.asset, -ex.best_usdc)

cancel(id) ==
    /\ Live(exits[id])
    /\ auctionConfig.stored
    /\ release_best(nodes, appetites, exits[id])
    /\ LeaveLine(id)
    /\ refund(AuctionAddr, id)
    /\ exits' = [exits EXCEPT ![id].status = "Cancelled",
                              ![id].best_node = NoAddr, ![id].best_usdc = 0]
    /\ UNCHANGED <<vaultConfig, withdrawals, now, routerConfig,
                   queueConfig, auctionConfig, next_id>>

-----------------------------------------------------------------------------
(* The node's side.                                                        *)

discount_bps(reference_usdc, usdc_amount) ==
    IF usdc_amount >= reference_usdc THEN 0
    ELSE ((reference_usdc - usdc_amount) * BPS_DENOMINATOR) \div reference_usdc

\* The multiplication is checked; a reference too large for it panics.
DiscountFits(reference_usdc, usdc_amount) ==
    (reference_usdc - usdc_amount) * BPS_DENOMINATOR <= I128_MAX

\* Mutant: matching the standing bid displaces it.
TieBeats(ex, usdc_amount) == usdc_amount >= ex.best_usdc

Beats(ex, usdc_amount) == usdc_amount > ex.best_usdc

\* The new bid is committed before the one it beats is released, also when both
\* are the same node's.
place_bid(n, id, usdc_amount) ==
    LET ex == exits[id]
        locked == LockCapital(nodes, n, usdc_amount)
        exposed == AddExposure(appetites, n, ex.asset, usdc_amount)
    IN  /\ auctionConfig.stored
        /\ Live(ex)
        /\ ex.status = "Open" => now <= ex.closes_at
        /\ Beats(ex, usdc_amount)
        /\ DiscountFits(ex.reference_usdc, usdc_amount)
        /\ FromAuction(AuctionAddr)
        /\ CommitAllowed(n, ex.asset, usdc_amount, discount_bps(ex.reference_usdc, usdc_amount))
        /\ release_best(locked, exposed, ex)
        /\ exits' = [exits EXCEPT ![id].best_node = n, ![id].best_usdc = usdc_amount]
        /\ UNCHANGED <<vaultConfig, withdrawals, balance, now, routerStorage,
                       queueVars, auctionConfig, next_id>>

-----------------------------------------------------------------------------
(* Closing the window.  Anyone may call it.                                *)

acceptable(ex) == ex.best_node # NoAddr /\ ex.best_usdc >= ex.min_accept_usdc

\* Mutant: only an acceptable bid can close the window.
CloseOnlyAcceptable(id) ==
    /\ exits[id].status = "Open"
    /\ now > exits[id].closes_at
    /\ acceptable(exits[id])
    /\ fill(id)

close(id) ==
    LET ex == exits[id] IN
    /\ ex.status = "Open"
    /\ now > ex.closes_at
    /\ IF acceptable(ex) /\ AtHead(ex.asset, id)
       THEN fill(id)
       ELSE /\ auctionConfig.stored
            /\ enqueue(AuctionAddr, ex.asset, id)
            /\ exits' = [exits EXCEPT ![id].status = "Queued"]
            /\ UNCHANGED <<routerVars, queueConfig, auctionConfig, next_id>>

-----------------------------------------------------------------------------
NothingOpened == next_id = 1 /\ exits = [id \in ExitIds |-> NoExit]

LayerInit ==
    /\ RouterInit
    /\ QueueInit
    /\ auctionConfig = NoAuctionConfig
    /\ NothingOpened

\* The deployment script has initialised and wired the four contracts.
WiredInit ==
    /\ TokenInit
    /\ EmptyVault
    /\ escrows = [id \in ExitIds |-> NoEscrow]
    /\ queues = [a \in Assets |-> <<>>]
    /\ NothingOpened
    /\ \E admin \in Admins, m \in MinDeposits, c \in FillCaps \cap (1 .. BPS_DENOMINATOR),
          t \in Timelocks, tr \in Treasuries, f \in Fees \cap (0 .. MAX_PROTOCOL_FEE_BPS) :
         /\ m >= 0
         /\ vaultConfig = [stored |-> TRUE, admin |-> admin, auction |-> AuctionAddr,
                           router |-> RouterAddr, min_deposit |-> m,
                           max_single_fill_bps |-> c, withdraw_timelock |-> t]
         /\ routerConfig = [stored |-> TRUE, admin |-> admin, treasury |-> tr,
                            auction |-> AuctionAddr, protocol_fee_bps |-> f]
         /\ queueConfig = [stored |-> TRUE, admin |-> admin, auction |-> AuctionAddr]
         /\ auctionConfig = [stored |-> TRUE, admin |-> admin]

AdminCalls ==
    \/ VaultAdminCalls /\ UNCHANGED <<routerStorage, queueVars, auctionStorage>>
    \/ RouterAdminCalls /\ UNCHANGED <<queueVars, auctionStorage>>
    \/ QueueAdminCalls /\ UNCHANGED <<routerVars, auctionStorage>>
    \/ \E admin \in Admins : auction_initialize(admin)
    \/ \E s, x \in Admins : auction_set_admin(s, x)

SellerCalls ==
    \/ \E s \in Sellers, a \in Assets, amt \in SaleAmounts, r \in References,
          m \in Reserves, d \in Durations : open_exit(s, a, amt, r, m, d)
    \/ \E id \in ExitIds : accept_bid(id) \/ cancel(id)

LayerTick == Tick /\ UNCHANGED <<routerStorage, queueVars, auctionStorage>>

LayerNext ==
    \/ LayerTick
    \/ AdminCalls
    \/ NodeCalls /\ UNCHANGED <<routerStorage, queueVars, auctionStorage>>
    \/ SellerCalls
    \/ \E n \in Nodes, id \in ExitIds, amt \in BidAmounts : place_bid(n, id, amt)
    \/ \E id \in ExitIds : close(id)

LayerSpec == LayerInit /\ [][LayerNext]_layerVars

WiredSpec == WiredInit /\ [][LayerNext]_layerVars

-----------------------------------------------------------------------------
(* Properties.                                                             *)

\* The gross of the exits in a set of statuses whose standing bid is the node's.
BidsOf(n, statuses) ==
    Total([id \in ExitIds |->
        IF exits[id].status \in statuses /\ exits[id].best_node = n
        THEN exits[id].best_usdc ELSE 0])

\* Every standing bid is backed: what a node has committed is exactly the sum of
\* its best bids on live exits, and what it has filled the sum of those that
\* settled.  The vault and the auction keep these numbers separately.
BidsBacked ==
    \A n \in Nodes : /\ nodes[n].committed = BidsOf(n, {"Open", "Queued"})
                     /\ nodes[n].filled = BidsOf(n, {"Settled"})

\* The router holds in escrow exactly what the live exits are selling.
EscrowMatches ==
    \A id \in ExitIds :
        escrows[id] = IF Live(exits[id])
                      THEN [stored |-> TRUE, seller |-> exits[id].seller,
                            asset |-> exits[id].asset, amount |-> exits[id].amount]
                      ELSE NoEscrow

\* The line of an asset holds exactly its queued exits.
QueueMatches ==
    \A a \in Assets, id \in ExitIds :
        InLine(queues[a], id) <=> (exits[id].status = "Queued" /\ exits[id].asset = a)

\* Once the window is over anyone can close the exit, unless its line is full: the
\* payment of an acceptable bid is never refused, whatever the bidder withdrew since,
\* and the way into the line only for lack of room.
OnlyFullLineBlocksClose ==
    \A id \in ExitIds :
        (exits[id].status = "Open" /\ now > exits[id].closes_at /\ ~ENABLED close(id))
            => Len(queues[exits[id].asset]) = MAX_QUEUE_DEPTH

\* The seller can give up on the exit and take the tokens back at any point before
\* it fills, including from the queue.
CancelAlwaysPossible ==
    \A id \in ExitIds : Live(exits[id]) => ENABLED cancel(id)

\* Nobody but the bidder can keep a seller from leaving, and only by reporting away
\* the exposure of the standing bid: otherwise cancel goes through, from the window and
\* from the queue, under partial wiring and with anybody else's bids, withdrawals and
\* reports in between.
OnlyBidderBlocksCancel ==
    \A id \in ExitIds :
        LET ex == exits[id] IN
        (Live(ex) /\ ~ENABLED cancel(id))
            => /\ ex.best_node # NoAddr
               /\ appetites[ex.best_node][ex.asset].exposure < ex.best_usdc

\* A node's deposit shrinks only by a withdrawal it requested whose timelock has
\* elapsed, or by the gross of a bid of its own that settles in that step.
CapitalLeavesByConsent ==
    [][\A n \in Nodes :
          LET out == nodes[n].deposited - nodes'[n].deposited IN
          out > 0 =>
            \/ /\ withdrawals[n].stored /\ withdrawals[n].amount = out
               /\ now >= withdrawals[n].unlock_at
            \/ \E id \in ExitIds :
                 /\ Live(exits[id]) /\ exits'[id].status = "Settled"
                 /\ exits[id].best_node = n /\ exits[id].best_usdc = out
      ]_layerVars

\* A quote cannot be shown and then withdrawn: while an exit is live its best bid
\* is only ever replaced by a higher one, when it settles the best bid is what it
\* settles at, and an exit that has settled or been cancelled stays as it is.
QuotesAreFirm ==
    [][\A id \in ExitIds :
          LET ex == exits[id]  next == exits'[id] IN
          next # ex =>
            /\ ex.status \notin {"Settled", "Cancelled"}
            /\ \/ next.best_usdc > ex.best_usdc /\ next.status = ex.status
               \/ <<next.best_node, next.best_usdc>> = <<ex.best_node, ex.best_usdc>>
               \/ next.status = "Cancelled"
      ]_layerVars
=============================================================================
