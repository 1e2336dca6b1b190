------------------------------ MODULE Snapshot ------------------------------
(***************************************************************************)
(* The monitor's snapshot: what build() of monitor/snapshot.js computes    *)
(* from the events in its log.  build is one pass over the log, event by   *)
(* event, and a last step that derives the lines; Apply is the pass over   *)
(* one event and Line the last step.  The counters of the dashboard        *)
(* (bids, deposits, times, discounts) are left out.                        *)
(*                                                                         *)
(* The maps of the snapshot are functions whose domain is what the log has *)
(* mentioned so far.                                                       *)
(***************************************************************************)
EXTENDS Integers, SequencesExt

BlankAsset == [settled |-> 0, usdcSettled |-> 0, tokensSettled |-> 0, feesPaid |-> 0,
               queue |-> <<>>]
BlankNode == [depositedAtLastReport |-> 0, usdcPaidOut |-> 0, fillsWon |-> 0]
BlankExit == [state |-> "unknown", bestBid |-> 0]

EmptySnapshot ==
    [assets |-> <<>>, nodes |-> <<>>, exits |-> <<>>, feesTotal |-> 0, usdcTotal |-> 0]

\* The entry of a map, or a blank one when the log has not mentioned the key.
Entry(map, key, blank) == IF key \in DOMAIN map THEN map[key] ELSE blank
Put(map, key, entry) ==
    [k \in DOMAIN map \cup {key} |-> IF k = key THEN entry ELSE map[k]]

\* The entries of the list q that are in S, in their order.
Filter(q, S) == FoldLeft(LAMBDA kept, x : IF x \in S THEN Append(kept, x) ELSE kept, <<>>, q)

SeeAsset(s, e) ==
    IF "asset" \in DOMAIN e
    THEN [s EXCEPT !.assets = Put(@, e.asset, Entry(@, e.asset, BlankAsset))] ELSE s
SeeNode(s, n) == [s EXCEPT !.nodes = Put(@, n, Entry(@, n, BlankNode))]

Key(e) == <<e.asset, e.exit_id>>
ExitOf(s, e) == Entry(s.exits, Key(e), BlankExit)
SetExit(s, e, x) == [s EXCEPT !.exits = Put(@, Key(e), x)]
SetState(s, e, state) == SetExit(s, e, [ExitOf(s, e) EXCEPT !.state = state])

\* Mutant: a deposit adds to what was reported before.
ReportAdds(s, e) ==
    LET seen == SeeNode(s, e.node)
    IN  [seen EXCEPT !.nodes[e.node].depositedAtLastReport = @ + e.total_deposited]

\* deposit and withdraw carry the node's new total.
Report(s, e) ==
    LET seen == SeeNode(s, e.node)
    IN  [seen EXCEPT !.nodes[e.node].depositedAtLastReport = e.total_deposited]

PaidOut(s, e) ==
    LET seen == SeeNode(s, e.node)
    IN  [seen EXCEPT !.nodes[e.node].usdcPaidOut = @ + e.amount]

BidPlaced(s, e) ==
    LET x == [ExitOf(s, e) EXCEPT !.bestBid = e.usdc_amount]
    IN  SeeNode(SetExit(s, e, x), e.node)

Settled(s, e) ==
    LET x == SeeNode(SetState(s, e, "settled"), e.node)
    IN  [x EXCEPT !.assets[e.asset].settled = @ + 1,
                  !.assets[e.asset].usdcSettled = @ + e.usdc_gross,
                  !.assets[e.asset].tokensSettled = @ + e.token_amount,
                  !.assets[e.asset].feesPaid = @ + e.protocol_fee,
                  !.feesTotal = @ + e.protocol_fee,
                  !.usdcTotal = @ + e.usdc_gross,
                  !.nodes[e.node].fillsWon = @ + 1]

Refunded(s, e) ==
    IF ExitOf(s, e).state \in {"settled", "cancelled"} THEN SetExit(s, e, ExitOf(s, e))
    ELSE SetState(s, e, "refunded")

\* Mutant: the list grows at the wrong end.
QueuedAtFront(s, e) ==
    LET x == SetState(s, e, "queued")
    IN  [x EXCEPT !.assets[e.asset].queue = <<e.exit_id>> \o @]

Queued(s, e) ==
    LET x == SetState(s, e, "queued") IN
    IF Contains(x.assets[e.asset].queue, e.exit_id) THEN x
    ELSE [x EXCEPT !.assets[e.asset].queue = Append(@, e.exit_id)]

Dequeued(s, e) ==
    LET x == IF ExitOf(s, e).state = "queued" THEN SetState(s, e, "left_queue")
             ELSE SetExit(s, e, ExitOf(s, e))
    IN  [x EXCEPT !.assets[e.asset].queue = Filter(@, Range(@) \ {e.exit_id})]

\* The loop body of build.
Apply(snap, e) ==
    LET s == SeeAsset(snap, e) IN
    CASE e.name \in {"deposit", "withdraw"} -> Report(s, e)
      [] e.name \in {"withdraw_requested", "withdraw_cancelled", "appetite_set",
                     "committed", "released"} -> SeeNode(s, e.node)
      [] e.name = "paid_out" -> PaidOut(s, e)
      [] e.name = "opened" -> SetState(s, e, "open")
      [] e.name = "escrowed" -> SetExit(s, e, ExitOf(s, e))
      [] e.name = "bid" -> BidPlaced(s, e)
      [] e.name = "settled" -> Settled(s, e)
      [] e.name = "cancelled" -> SetState(s, e, "cancelled")
      [] e.name = "refunded" -> Refunded(s, e)
      [] e.name = "queued" -> Queued(s, e)
      [] e.name = "dequeued" -> Dequeued(s, e)

\* The line of an asset, re-derived from the states of its exits.
Line(s, a) ==
    LET q == Entry(s.assets, a, BlankAsset).queue
    IN  Filter(q, {id \in Range(q) : Entry(s.exits, <<a, id>>, BlankExit).state = "queued"})
=============================================================================
