----------------------------- MODULE ExitEvents -----------------------------
(***************************************************************************)
(* The events the exit layer publishes, in the order in which the calls of *)
(* one transaction publish them, and the monitor's snapshot of a log that  *)
(* holds them all.  The log only grows and the snapshot is one pass over   *)
(* it, so the pass is carried along instead of the log: a step that        *)
(* publishes events takes the pass over those events.                      *)
(***************************************************************************)
EXTENDS ExitAuction, Snapshot

VARIABLE snap   \* the pass of build over everything published so far
eventVars == <<layerVars, snap>>

Publish(events) == snap' = FoldLeft(Apply, snap, events)

OfNode(name, n) == <<[name |-> name, node |-> n]>>
WithTotal(name, n) == <<[name |-> name, node |-> n, total_deposited |-> nodes'[n].deposited]>>
OnAsset(name, n, a) == <<[name |-> name, node |-> n, asset |-> a]>>
OfExit(name, id) == <<[name |-> name, asset |-> exits'[id].asset, exit_id |-> id]>>

-----------------------------------------------------------------------------
(* The events of the calls the auction makes to the other contracts.       *)

\* pay_out, once for the seller and once for the treasury if there is a fee.
PaidOutEvents(id) ==
    LET ex == exits[id]
        fee == protocol_fee(ex.best_usdc)
        paid(amount) == [name |-> "paid_out", node |-> ex.best_node, asset |-> ex.asset,
                         amount |-> amount]
    IN  <<paid(ex.best_usdc - fee)>> \o (IF fee > 0 THEN <<paid(fee)>> ELSE <<>>)

\* Mutant: the event reports the net as the gross.
NetAsGross(id) ==
    LET ex == exits[id]  fee == protocol_fee(ex.best_usdc) IN
    <<[name |-> "settled", asset |-> ex.asset, exit_id |-> id, node |-> ex.best_node,
       token_amount |-> ex.amount, usdc_gross |-> ex.best_usdc - fee, protocol_fee |-> fee]>>

SettledEvent(id) ==
    LET ex == exits[id]  fee == protocol_fee(ex.best_usdc) IN
    <<[name |-> "settled", asset |-> ex.asset, exit_id |-> id, node |-> ex.best_node,
       token_amount |-> ex.amount, usdc_gross |-> ex.best_usdc, protocol_fee |-> fee]>>

DequeuedEvent(id) == IF exits[id].status = "Queued" THEN OfExit("dequeued", id) ELSE <<>>

\* Mutant: an exit that settles from the line is not announced as settled.
ForgetSettled(id) ==
    PaidOutEvents(id) \o (IF exits[id].status = "Queued" THEN <<>> ELSE SettledEvent(id))
      \o DequeuedEvent(id)

FillEvents(id) == PaidOutEvents(id) \o SettledEvent(id) \o DequeuedEvent(id)

ReleasedEvent(id) ==
    IF exits[id].best_node = NoAddr THEN <<>>
    ELSE OnAsset("released", exits[id].best_node, exits[id].asset)

CancelEvents(id) ==
    ReleasedEvent(id) \o DequeuedEvent(id) \o OfExit("refunded", id) \o OfExit("cancelled", id)

BidEvents(n, id, amount) ==
    OnAsset("committed", n, exits[id].asset) \o ReleasedEvent(id)
      \o <<[name |-> "bid", asset |-> exits[id].asset, exit_id |-> id, node |-> n,
            usdc_amount |-> amount]>>

OpenEvents == OfExit("escrowed", next_id) \o OfExit("opened", next_id)

CloseEvents(id) == IF exits'[id].status = "Settled" THEN FillEvents(id) ELSE OfExit("queued", id)

-----------------------------------------------------------------------------
EventInit == WiredInit /\ snap = EmptySnapshot

\* The vault's own calls.  reduce_exposure publishes nothing.
NodeEvents(n) ==
    \/ \E amt \in DepositAmounts : deposit(n, amt) /\ Publish(WithTotal("deposit", n))
    \/ \E amt \in WithdrawAmounts :
         request_withdrawal(n, amt) /\ Publish(OfNode("withdraw_requested", n))
    \/ cancel_withdrawal(n) /\ Publish(OfNode("withdraw_cancelled", n))
    \/ execute_withdrawal(n) /\ Publish(WithTotal("withdraw", n))
    \/ \E a \in Assets, m \in Ceilings, d \in Discounts, on \in BOOLEAN :
         set_appetite(n, a, m, d, on) /\ Publish(OnAsset("appetite_set", n, a))
    \/ \E a \in Assets, amt \in ReduceAmounts : reduce_exposure(n, a, amt) /\ UNCHANGED snap

EventNext ==
    \/ LayerTick /\ UNCHANGED snap
    \/ AdminCalls /\ UNCHANGED snap
    \/ \E n \in Nodes : NodeEvents(n) /\ UNCHANGED <<routerStorage, queueVars, auctionStorage>>
    \/ \E s \in Sellers, a \in Assets, amt \in SaleAmounts, r \in References,
          m \in Reserves, d \in Durations : open_exit(s, a, amt, r, m, d) /\ Publish(OpenEvents)
    \/ \E id \in ExitIds : \/ accept_bid(id) /\ Publish(FillEvents(id))
                           \/ cancel(id) /\ Publish(CancelEvents(id))
                           \/ close(id) /\ Publish(CloseEvents(id))
    \/ \E n \in Nodes, id \in ExitIds, amt \in BidAmounts :
         place_bid(n, id, amt) /\ Publish(BidEvents(n, id, amt))

EventSpec == EventInit /\ [][EventNext]_eventVars

-----------------------------------------------------------------------------
(* Properties.                                                             *)

StateNames == [Open |-> "open", Queued |-> "queued", Settled |-> "settled",
               Cancelled |-> "cancelled"]

\* The snapshot shows every exit where the auction has it: opened exits and no
\* others, each in its status, a live one with the best bid it stands at.  The refund
\* and the dequeuing that go with an ending must not be what is shown.
SnapshotShowsExits ==
    \A id \in ExitIds :
        LET ex == exits[id]  key == <<ex.asset, id>> IN
        IF ex.status = "None" THEN \A k \in DOMAIN snap.exits : k[2] # id
        ELSE /\ key \in DOMAIN snap.exits
             /\ snap.exits[key].state = StateNames[ex.status]
             /\ Live(ex) => snap.exits[key].bestBid = ex.best_usdc

\* The line the snapshot derives from the events is the line of the queue contract.
SnapshotShowsLines == \A a \in Assets : Line(snap, a) = queues[a]

\* Where SnapshotAddsUp can be read off the balances: nodes hold the tokens they bought
\* and no others, treasuries the fees they were paid and nothing else.
BooksApart ==
    /\ Usdc \notin Assets
    /\ IsFiniteSet(Treasuries)
    /\ Treasuries \cap (Nodes \cup Sellers \cup {VaultAddr}) = {}
    /\ Nodes \cap Sellers = {}
    /\ \A t \in Treasuries : InitialBalance[Usdc][t] = 0
    /\ \A n \in Nodes, a \in Assets : InitialBalance[a][n] = 0

\* The money the snapshot adds up from events is the money that moved: what each node
\* paid, what the treasury was given, what changed hands asset by asset.
SnapshotAddsUp ==
    /\ \A n \in Nodes : Entry(snap.nodes, n, BlankNode).usdcPaidOut = nodes[n].filled
    /\ snap.usdcTotal = Total([n \in Nodes |-> nodes[n].filled])
    /\ snap.feesTotal = Total([t \in Treasuries |-> balance[Usdc][t]])
    /\ \A a \in Assets :
         Entry(snap.assets, a, BlankAsset).tokensSettled = Total([n \in Nodes |-> balance[a][n]])

\* What the snapshot reports of a node's deposit is never below what the vault holds,
\* and above it by no more than the node has paid out, whatever it deposited, withdrew
\* or filled since.
ReportReadsHigh ==
    \A n \in Nodes :
        LET seen == Entry(snap.nodes, n, BlankNode)
            excess == seen.depositedAtLastReport - nodes[n].deposited
        IN  0 <= excess /\ excess <= seen.usdcPaidOut
=============================================================================
