----------------------------- MODULE ExitMarket -----------------------------
(***************************************************************************)
(* What the exit layer promises, with nobody's custody in it: a market in  *)
(* which sellers offer tokens, nodes outbid one another for them, and a    *)
(* sale changes what the parties own in a single step.  There is no vault, *)
(* no escrow, no commitment and no clock here.  The four contracts         *)
(* together implement this market: see MarketRefinement.                   *)
(***************************************************************************)
EXTENDS Integers, Sequences

CONSTANTS
    Sellers, Nodes, Treasuries, NoAddr,
    Assets, Usdc,
    ExitIds,
    ReservePrices,      \* what a seller may ask for at least
    BPS_DENOMINATOR, MAX_PROTOCOL_FEE_BPS,
    InitialWealth       \* what each party owns at the start

VARIABLES
    deals,      \* the terms, the standing bid and the outcome of every exit
    lines,      \* who is waiting, asset by asset, longest first
    wealth      \* what each party owns, wherever it is kept

marketVars == <<deals, lines, wealth>>

Waiting == {"Open", "Queued"}

NoDeal == [status |-> "None", seller |-> NoAddr, asset |-> NoAddr, amount |-> 0,
           reserve |-> 0, bidder |-> NoAddr, price |-> 0]

MarketInit ==
    /\ deals = [id \in ExitIds |-> NoDeal]
    /\ lines = [a \in Assets |-> <<>>]
    /\ wealth = InitialWealth

-----------------------------------------------------------------------------
\* Offering tokens moves nothing; they must be the seller's to offer.
Offer(id, s, a) ==
    /\ deals[id] = NoDeal
    /\ \E amount \in 1 .. wealth[a][s], reserve \in ReservePrices :
         deals' = [deals EXCEPT ![id] =
           [status |-> "Open", seller |-> s, asset |-> a, amount |-> amount,
            reserve |-> reserve, bidder |-> NoAddr, price |-> 0]]
    /\ UNCHANGED <<lines, wealth>>

\* A bid is for all of the tokens, above the standing bid, and the bidder owns it.
Bid(id, n) ==
    /\ deals[id].status \in Waiting
    /\ \E price \in (deals[id].price + 1) .. wealth[Usdc][n] :
         deals' = [deals EXCEPT ![id].bidder = n, ![id].price = price]
    /\ UNCHANGED <<lines, wealth>>

\* An exit that nobody took goes to the back of its line.
JoinLine(id) ==
    /\ deals[id].status = "Open"
    /\ deals' = [deals EXCEPT ![id].status = "Queued"]
    /\ lines' = [lines EXCEPT ![deals[id].asset] = Append(@, id)]
    /\ UNCHANGED wealth

\* Whoever was behind moves up; an exit that never joined leaves nothing behind.
LeavesLine(id) ==
    LET a == deals[id].asset
        line == lines[a]
    IN  \/ /\ \A i \in 1 .. Len(line) : line[i] # id
           /\ UNCHANGED lines
        \/ \E i \in 1 .. Len(line) :
             /\ line[i] = id
             /\ lines' = [lines EXCEPT ![a] =
                   SubSeq(line, 1, i - 1) \o SubSeq(line, i + 1, Len(line))]

FirstServed(id) ==
    LET line == lines[deals[id].asset] IN line = <<>> \/ Head(line) = id

Pay(w, token, from, to, amount) ==
    [w EXCEPT ![token] = [h \in DOMAIN @ |->
        @[h] + (IF h = to THEN amount ELSE 0) - (IF h = from THEN amount ELSE 0)]]

\* The standing bid, at least the seller's reserve, buys all of the tokens.
Sell(id) ==
    LET d == deals[id] IN
    /\ d.status \in Waiting
    /\ d.bidder # NoAddr /\ d.price >= d.reserve
    /\ FirstServed(id)
    /\ deals' = [deals EXCEPT ![id].status = "Settled"]
    /\ LeavesLine(id)
    /\ \E treasury \in Treasuries, fee \in 0 .. d.price :
         /\ fee * BPS_DENOMINATOR <= d.price * MAX_PROTOCOL_FEE_BPS
         /\ wealth' = Pay(Pay(Pay(wealth, d.asset, d.seller, d.bidder, d.amount),
                          Usdc, d.bidder, d.seller, d.price - fee),
                      Usdc, d.bidder, treasury, fee)

\* The seller changes their mind, and nobody is the poorer for it.
CallOff(id) ==
    /\ deals[id].status \in Waiting
    /\ deals' = [deals EXCEPT ![id].status = "Cancelled",
                              ![id].bidder = NoAddr, ![id].price = 0]
    /\ LeavesLine(id)
    /\ UNCHANGED wealth

-----------------------------------------------------------------------------
MarketNext ==
    \E id \in ExitIds :
        \/ \E s \in Sellers, a \in Assets : Offer(id, s, a)
        \/ \E n \in Nodes : Bid(id, n)
        \/ JoinLine(id)
        \/ Sell(id)
        \/ CallOff(id)

MarketSpec == MarketInit /\ [][MarketNext]_marketVars
=============================================================================
