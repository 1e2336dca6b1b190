--------------------------- MODULE MCExitAuction ----------------------------
(***************************************************************************)
(* The exit layer on small instances, with one history variable: the order *)
(* in which exits joined the line, kept apart from the queue contract.     *)
(***************************************************************************)
EXTENDS MCLayer, TLC

VARIABLE ticket     \* ticket[id] = k: the exit was the k-th to join a line
mcVars == <<layerVars, ticket>>

Joins(id) == exits[id].status = "Open" /\ exits'[id].status = "Queued"
LastTicket == Cardinality({id \in ExitIds : ticket[id] # 0})

MCNext ==
    /\ LayerNext
    /\ ticket' = [id \in ExitIds |-> IF Joins(id) THEN LastTicket + 1 ELSE ticket[id]]

NoTickets == ticket = [id \in ExitIds |-> 0]
MCInit == WiredInit /\ NoTickets
MCDeployInit == LayerInit /\ NoTickets

MCSpec == MCInit /\ [][MCNext]_mcVars
MCDeploySpec == MCDeployInit /\ [][MCNext]_mcVars

\* Nobody buys their way past a seller who has been waiting: when an exit settles,
\* every other exit of the asset that is in line joined it later.
LineRespected ==
    [][\A id, other \in ExitIds :
          (/\ exits[id].status # "Settled" /\ exits'[id].status = "Settled"
           /\ other # id /\ exits[other].status = "Queued"
           /\ exits[other].asset = exits[id].asset)
          => /\ exits[id].status = "Queued"
             /\ ticket[id] < ticket[other]]_mcVars

\* The contracts have found each other.
Wired ==
    /\ vaultConfig.auction = AuctionAddr /\ vaultConfig.router = RouterAddr
    /\ routerConfig.auction = AuctionAddr /\ queueConfig.auction = AuctionAddr

\* Ledgers close, and somebody calls close on a finished auction.
FairDeploySpec ==
    /\ MCDeploySpec
    /\ WF_mcVars(MCNext /\ now' # now)
    /\ \A id \in ExitIds : WF_mcVars(close(id) /\ MCNext)

\* No exit stays Open once the layer is wired: a window that ends within the modelled
\* time is followed by a settlement, a place in line or a cancellation.
WindowCloses ==
    \A id \in ExitIds :
        (Wired /\ exits[id].status = "Open" /\ exits[id].closes_at < MaxTime)
            ~> exits[id].status # "Open"

\* The seller at the head of a line makes up their mind: takes the standing bid or
\* leaves.  No call by anyone else can move the head, close included.
HeadDecides(id) ==
    /\ exits[id].status = "Queued" /\ AtHead(exits[id].asset, id)
    /\ accept_bid(id) \/ cancel(id)
    /\ MCNext

\* Nobody waits in line forever behind sellers who decide when their turn comes: if
\* they do, an exit that is in line once the layer is wired leaves it, whoever bids, joins,
\* leaves or reports exposure away meanwhile.
LineDrains ==
    (\A id \in ExitIds : WF_mcVars(HeadDecides(id)))
        => \A id \in ExitIds :
              (Wired /\ exits[id].status = "Queued") ~> exits[id].status # "Queued"

Symmetry == Permutations(Nodes) \cup Permutations(Sellers)
=============================================================================
