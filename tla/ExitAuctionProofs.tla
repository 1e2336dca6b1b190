------------------------- MODULE ExitAuctionProofs --------------------------
(***************************************************************************)
(* Proofs about the exit layer as a whole: the records that the vault, the *)
(* router, the queue and the auction keep of one exit agree, for any       *)
(* number of nodes, sellers, assets and exits, any amounts, and whatever   *)
(* the admins wire in which order.                                         *)
(***************************************************************************)
EXTENDS ExitAuction, CustodyProofs

-----------------------------------------------------------------------------
(* The queue on its own: any number of assets, any depth, and an auction     *)
(* that moves exits in and out of the lines as it pleases.                   *)

\* No exit stands in the line q twice.
NoDuplicates(q) == \A i, j \in 1 .. Len(q) : q[i] = q[j] => i = j

\* The inductive invariant.
QueueInv == QueueTypeOK /\ LineWellFormed

-----------------------------------------------------------------------------
(* Lines as sequences.                                                     *)

\* In a line without duplicates the first match is the only one.
LEMMA PositionOf ==
  ASSUME NEW q \in Seq(ExitIds), NoDuplicates(q), NEW i \in 1 .. Len(q)
  PROVE  position_of(q, q[i]) = i
<1>1. q[i] = q[i] /\ \A j \in 1 .. (i - 1) : q[j] # q[i]
  <2> SUFFICES ASSUME NEW j \in 1 .. (i - 1) PROVE q[j] # q[i]
    OBVIOUS
  <2>1. j \in 1 .. Len(q) /\ j # i
    OBVIOUS
  <2> QED BY <2>1 DEF NoDuplicates
<1>2. \A k \in 1 .. Len(q) : q[k] = q[i] => k = i
  BY DEF NoDuplicates
<1> QED BY <1>1, <1>2 DEF position_of

\* What the copy of the line without its i-th entry is.
LEMMA WithoutIndexEffect ==
  ASSUME NEW q \in Seq(ExitIds), NEW i \in 1 .. Len(q)
  PROVE  LET r == WithoutIndex(q, i)
         IN  /\ r \in Seq(ExitIds)
             /\ Len(r) = Len(q) - 1
             /\ \A k \in 1 .. Len(r) : r[k] = q[IF k < i THEN k ELSE k + 1]
<1> DEFINE n == Len(q) - 1
           r == [k \in 1 .. n |-> IF k < i THEN q[k] ELSE q[k + 1]]
<1>1. n \in Nat
  OBVIOUS
<1>2. \A k \in 1 .. n : (IF k < i THEN q[k] ELSE q[k + 1]) \in ExitIds
  OBVIOUS
<1>3. WithoutIndex(q, i) = r
  BY DEF WithoutIndex
<1>4. r \in [1 .. n -> ExitIds]
  BY <1>2
<1>5. r \in Seq(ExitIds) /\ Len(r) = n
  <2> HIDE DEF r, n
  <2> QED BY <1>1, <1>4
<1>6. \A k \in 1 .. n : r[k] = q[IF k < i THEN k ELSE k + 1]
  OBVIOUS
<1> HIDE DEF r
<1> QED BY <1>3, <1>5, <1>6

\* Leaving keeps a line free of duplicates and everybody's place relative to the
\* others.
LEMMA LeavingKeepsOrder ==
  ASSUME NEW q \in Seq(ExitIds), NoDuplicates(q), NEW i \in 1 .. Len(q)
  PROVE  LET r == WithoutIndex(q, i)
         IN  /\ r \in Seq(ExitIds)
             /\ Len(r) = Len(q) - 1
             /\ NoDuplicates(r)
             /\ \A k \in 1 .. Len(r) : InLine(q, r[k])
             /\ \A k, l \in 1 .. Len(r) :
                   k < l => position_of(q, r[k]) < position_of(q, r[l])
<1> DEFINE r == WithoutIndex(q, i)
           old(k) == IF k < i THEN k ELSE k + 1
<1>1. /\ r \in Seq(ExitIds) /\ Len(r) = Len(q) - 1
      /\ \A k \in 1 .. Len(r) : r[k] = q[old(k)]
  BY WithoutIndexEffect
<1> HIDE DEF r
<1>2. \A k \in 1 .. Len(r) : old(k) \in 1 .. Len(q)
  BY <1>1
<1>3. \A k, l \in 1 .. Len(r) : k < l => old(k) < old(l)
  BY <1>1
<1>4. \A k, l \in 1 .. Len(r) : old(k) = old(l) => k = l
  BY <1>1
<1> HIDE DEF old
<1>5. NoDuplicates(r)
  BY <1>1, <1>2, <1>4 DEF NoDuplicates
<1>6. \A k \in 1 .. Len(r) : InLine(q, r[k])
  BY <1>1, <1>2 DEF InLine
<1>7. \A k \in 1 .. Len(r) : position_of(q, r[k]) = old(k)
  BY <1>1, <1>2, PositionOf
<1>8. \A k, l \in 1 .. Len(r) : k < l => position_of(q, r[k]) < position_of(q, r[l])
  BY <1>3, <1>7
<1> QED BY <1>1, <1>5, <1>6, <1>8 DEF r

\* An exit that joins stands behind everybody.
LEMMA JoiningKeepsOrder ==
  ASSUME NEW q \in Seq(ExitIds), NoDuplicates(q), NEW id \in ExitIds, ~InLine(q, id)
  PROVE  LET r == Append(q, id)
         IN  /\ r \in Seq(ExitIds)
             /\ Len(r) = Len(q) + 1
             /\ NoDuplicates(r)
             /\ \A k, l \in 1 .. Len(r) :
                   (k < l /\ InLine(q, r[l])) =>
                       /\ InLine(q, r[k])
                       /\ position_of(q, r[k]) < position_of(q, r[l])
<1> DEFINE r == Append(q, id)
<1>1. /\ r \in Seq(ExitIds) /\ Len(r) = Len(q) + 1 /\ r[Len(r)] = id
      /\ \A k \in 1 .. Len(q) : r[k] = q[k]
  OBVIOUS
<1>2. Len(q) \in Nat /\ \A k \in 1 .. Len(q) : q[k] # id
  BY DEF InLine
<1> HIDE DEF r
<1>3. NoDuplicates(r)
  <2> SUFFICES ASSUME NEW k \in 1 .. Len(r), NEW l \in 1 .. Len(r), r[k] = r[l]
               PROVE  k = l
    BY DEF NoDuplicates
  <2>1. CASE k \in 1 .. Len(q) /\ l \in 1 .. Len(q)
    BY <1>1, <2>1 DEF NoDuplicates
  <2>2. CASE k = Len(r) \/ l = Len(r)
    BY <1>1, <1>2, <2>2
  <2> QED BY <1>1, <1>2, <2>1, <2>2
<1>4. ASSUME NEW k \in 1 .. Len(r), NEW l \in 1 .. Len(r), k < l, InLine(q, r[l])
      PROVE  InLine(q, r[k]) /\ position_of(q, r[k]) < position_of(q, r[l])
  <2>1. l # Len(r)
    BY <1>1, <1>4
  <2>2. k \in 1 .. Len(q) /\ l \in 1 .. Len(q)
    BY <1>1, <1>2, <1>4, <2>1
  <2>3. position_of(q, q[k]) = k /\ position_of(q, q[l]) = l
    BY <2>2, PositionOf
  <2> QED BY <1>1, <1>4, <2>2, <2>3 DEF InLine
<1> QED BY <1>1, <1>3, <1>4 DEF r

-----------------------------------------------------------------------------
(* One lemma per operation, then the theorems.                             *)

\* What a step does to one line: it stays well formed, and nobody passes anybody.
LineStep(q, r) ==
    /\ r \in Seq(ExitIds)
    /\ Len(r) <= MAX_QUEUE_DEPTH
    /\ NoDuplicates(r)
    /\ \A k, l \in 1 .. Len(r) :
          (k < l /\ InLine(q, r[l])) =>
              /\ InLine(q, r[k])
              /\ position_of(q, r[k]) < position_of(q, r[l])

\* A line that stays as it is makes a trivial step.
LEMMA SameLine ==
  ASSUME QueueInv, NEW a \in Assets
  PROVE  LineStep(queues[a], queues[a])
<1>1. /\ queues[a] \in Seq(ExitIds) /\ Len(queues[a]) <= MAX_QUEUE_DEPTH
      /\ NoDuplicates(queues[a])
  BY DEF QueueInv, QueueTypeOK, LineWellFormed, NoDuplicates
<1>2. \A i \in 1 .. Len(queues[a]) : position_of(queues[a], queues[a][i]) = i
  BY <1>1, PositionOf
<1> QED BY <1>1, <1>2 DEF LineStep, InLine

\* enqueue changes one line, behind everybody in it and within its bound.
LEMMA EnqueueStep ==
  ASSUME QueueInv, NEW x, NEW a \in Assets, NEW id \in ExitIds, enqueue(x, a, id)
  PROVE  /\ queues' \in [Assets -> Seq(ExitIds)]
         /\ \A b \in Assets : LineStep(queues[b], queues'[b])
<1> DEFINE q == queues[a]
<1>1. /\ queues \in [Assets -> Seq(ExitIds)] /\ q \in Seq(ExitIds) /\ NoDuplicates(q)
      /\ ~InLine(q, id) /\ Len(q) < MAX_QUEUE_DEPTH
      /\ queues' = [queues EXCEPT ![a] = Append(q, id)]
  BY DEF QueueInv, QueueTypeOK, LineWellFormed, NoDuplicates, enqueue
<1> HIDE DEF q
<1>2. LineStep(q, Append(q, id))
  <2> DEFINE r == Append(q, id)
  <2>1. /\ r \in Seq(ExitIds) /\ Len(r) = Len(q) + 1 /\ NoDuplicates(r)
        /\ \A k, l \in 1 .. Len(r) :
              (k < l /\ InLine(q, r[l])) =>
                  InLine(q, r[k]) /\ position_of(q, r[k]) < position_of(q, r[l])
    BY <1>1, JoiningKeepsOrder
  <2>2. Len(q) + 1 <= MAX_QUEUE_DEPTH
    BY <1>1, QueueAssumption
  <2> HIDE DEF r
  <2>3. LineStep(q, r)
    BY <2>1, <2>2 DEF LineStep
  <2> QED BY <2>3 DEF r
<1>3. queues' \in [Assets -> Seq(ExitIds)]
  BY <1>1
<1>4. \A b \in Assets : queues'[b] = IF b = a THEN Append(q, id) ELSE queues[b]
  BY <1>1
<1> QED BY <1>2, <1>3, <1>4, SameLine DEF q

\* dequeue takes the exit out of one line and moves up those behind it.
LEMMA DequeueStep ==
  ASSUME QueueInv, NEW x, NEW a \in Assets, NEW id \in ExitIds, dequeue(x, a, id)
  PROVE  /\ queues' \in [Assets -> Seq(ExitIds)]
         /\ \A b \in Assets : LineStep(queues[b], queues'[b])
<1> DEFINE q == queues[a]
           r == WithoutIndex(q, position_of(q, id))
<1>1. /\ queues \in [Assets -> Seq(ExitIds)] /\ q \in Seq(ExitIds) /\ NoDuplicates(q)
      /\ Len(q) <= MAX_QUEUE_DEPTH
      /\ InLine(q, id) /\ queues' = [queues EXCEPT ![a] = r]
  BY DEF QueueInv, QueueTypeOK, LineWellFormed, NoDuplicates, dequeue
<1> HIDE DEF q
<1>2. position_of(q, id) \in 1 .. Len(q)
  <2>1. PICK i \in 1 .. Len(q) : q[i] = id
    BY <1>1 DEF InLine
  <2> QED BY <1>1, <2>1, PositionOf
<1>3. LineStep(q, r)
  BY <1>1, <1>2, LeavingKeepsOrder, QueueAssumption DEF LineStep
<1>4. r \in Seq(ExitIds)
  BY <1>3 DEF LineStep
<1> HIDE DEF r
<1>5. queues' \in [Assets -> Seq(ExitIds)]
  BY <1>1, <1>4
<1>6. \A b \in Assets : queues'[b] = IF b = a THEN r ELSE queues[b]
  BY <1>1
<1> QED BY <1>3, <1>5, <1>6, SameLine DEF q

\* Every step of the queue keeps the configuration's type and moves every line by a
\* LineStep.
LEMMA QueueStep ==
  ASSUME QueueInv, [QueueNext]_queueVars
  PROVE  /\ QueueTypeOK'
         /\ \A b \in Assets : LineStep(queues[b], queues'[b])
<1>1. CASE QueueAdminCalls
  <2>1. UNCHANGED queues
    BY <1>1 DEF QueueAdminCalls, queue_initialize, queue_set_auction
  <2>2. queueConfig' \in QueueConfigs
    <3> USE DEF QueueInv, QueueTypeOK, QueueConfigs
    <3>1. CASE \E admin \in Admins : queue_initialize(admin)
      BY <3>1 DEF queue_initialize
    <3>2. CASE \E s \in Admins, y \in Auctions : queue_set_auction(s, y)
      BY <3>2 DEF queue_set_auction
    <3> QED BY <1>1, <3>1, <3>2 DEF QueueAdminCalls
  <2> QED BY <2>1, <2>2, SameLine DEF QueueInv, QueueTypeOK
<1>2. CASE QueueMoves
  <2>1. PICK x \in Auctions, a \in Assets, id \in ExitIds :
          (enqueue(x, a, id) \/ dequeue(x, a, id)) /\ UNCHANGED queueConfig
    BY <1>2 DEF QueueMoves
  <2>2. /\ queues' \in [Assets -> Seq(ExitIds)]
        /\ \A b \in Assets : LineStep(queues[b], queues'[b])
    BY <2>1, EnqueueStep, DequeueStep
  <2> QED BY <2>1, <2>2 DEF QueueInv, QueueTypeOK
<1>3. CASE UNCHANGED queueVars
  BY <1>3, SameLine DEF queueVars, QueueInv, QueueTypeOK
<1> QED BY <1>1, <1>2, <1>3 DEF QueueNext

\* QueueInv holds in every reachable state.
LEMMA QueueInvariance == QueueSpec => []QueueInv
<1>1. QueueInit => QueueInv
  BY QueueAssumption DEF QueueInit, QueueInv, QueueTypeOK, LineWellFormed, NoQueueConfig,
                         QueueConfigs
<1>2. QueueInv /\ [QueueNext]_queueVars => QueueInv'
  BY QueueStep DEF QueueInv, LineWellFormed, LineStep, NoDuplicates
<1> QED BY <1>1, <1>2, PTL DEF QueueSpec

\* For any depth and any number of assets and exits, no line outgrows
\* MAX_QUEUE_DEPTH and no exit stands in a line twice, whatever the auction calls.
THEOREM LinesStayWellFormed == QueueSpec => []LineWellFormed
<1>1. QueueInv => LineWellFormed
  BY DEF QueueInv
<1> QED BY <1>1, QueueInvariance, PTL

\* No call of enqueue or dequeue, and no change of the wiring, lets an exit pass
\* another one in line.
THEOREM NobodyPasses == QueueSpec => OrderKept
<1> DEFINE Kept ==
      \A a \in Assets :
         \A i, j \in 1 .. Len(queues'[a]) :
            LET ahead == queues'[a][i]  behind == queues'[a][j]
            IN  (i < j /\ InLine(queues[a], behind)) =>
                    /\ InLine(queues[a], ahead)
                    /\ position_of(queues[a], ahead) < position_of(queues[a], behind)
<1>1. QueueInv /\ [QueueNext]_queueVars => [Kept]_queueVars
  BY QueueStep DEF LineStep
<1> QED BY <1>1, QueueInvariance, PTL DEF QueueSpec, OrderKept

-----------------------------------------------------------------------------
(* The layer: the agreements and the inductive invariant.                    *)

LiveStatuses == {"Open", "Queued"}

\* The standing bid of node n on each exit in one of the given statuses.
Bids(es, n, statuses) ==
    [id \in ExitIds |-> IF es[id].status \in statuses /\ es[id].best_node = n
                        THEN es[id].best_usdc ELSE 0]

\* What the slots of the auction say: exits are numbered in the order they open, an
\* identifier that was given out names a seller and an asset, and one that was not has
\* no exit.  Nothing is opened before initialize.
AuctionSlots ==
    /\ ~auctionConfig.stored => next_id = 1
    /\ \A id \in ExitIds :
          IF id < next_id
          THEN /\ exits[id].status # "None"
               /\ exits[id].seller \in Sellers /\ exits[id].asset \in Assets
          ELSE exits[id] = NoExit

AuctionTypeOK ==
    /\ auctionConfig \in AuctionConfigs
    /\ next_id \in 1 .. (MaxExits + 1)
    /\ exits \in [ExitIds -> ExitStates]

\* The inductive invariant.  The three agreements need each other and the slots: a
\* settlement finds its escrow because EscrowMatches says so, its commitment because
\* BidsBacked does, and its place in line because QueueMatches does.
LayerInv ==
    /\ RouterInv
    /\ QueueInv
    /\ AuctionTypeOK
    /\ AuctionSlots
    /\ BidsBacked
    /\ EscrowMatches
    /\ QueueMatches

\* The same three agreements when the vault, the router and the queue serve two auctions
\* whose exits are es and fs: capital and lines hold what both need, and an identifier
\* that both have given out is live in one of them at most.
CapitalAgrees(es, fs) ==
    \A n \in Nodes :
        /\ nodes[n].committed =
              Total(Bids(es, n, LiveStatuses)) + Total(Bids(fs, n, LiveStatuses))
        /\ nodes[n].filled =
              Total(Bids(es, n, {"Settled"})) + Total(Bids(fs, n, {"Settled"}))

EscrowOf(ex) ==
    [stored |-> TRUE, seller |-> ex.seller, asset |-> ex.asset, amount |-> ex.amount]

EscrowsAgree(es, fs) ==
    \A id \in ExitIds :
        /\ ~(Live(es[id]) /\ Live(fs[id]))
        /\ Live(es[id]) => escrows[id] = EscrowOf(es[id])
        /\ Live(fs[id]) => escrows[id] = EscrowOf(fs[id])
        /\ ~Live(es[id]) /\ ~Live(fs[id]) => escrows[id] = NoEscrow

Waits(ex, a) == ex.status = "Queued" /\ ex.asset = a

LinesAgree(es, fs) ==
    \A a \in Assets, id \in ExitIds :
        InLine(queues[a], id) <=> Waits(es[id], a) \/ Waits(fs[id], a)

\* What a call of this auction keeps, whatever exits fs another one has that shares the
\* other three contracts with it.  LayerInv is the case in which there is no other.
SharedInv(fs) ==
    /\ RouterInv
    /\ QueueInv
    /\ AuctionTypeOK
    /\ AuctionSlots
    /\ fs \in [ExitIds -> ExitStates]
    /\ CapitalAgrees(exits, fs)
    /\ EscrowsAgree(exits, fs)
    /\ LinesAgree(exits, fs)

NoExits == [id \in ExitIds |-> NoExit]

-----------------------------------------------------------------------------
(* Bids and sums.                                                          *)

\* The sum over a node's bids is defined.
LEMMA BidsType ==
  ASSUME NEW es \in [ExitIds -> ExitStates], NEW n, NEW S
  PROVE  /\ IsFiniteSet(ExitIds)
         /\ Bids(es, n, S) \in [ExitIds -> Nat]
         /\ Total(Bids(es, n, S)) \in Nat
<1>1. Bids(es, n, S) \in [ExitIds -> Nat]
  BY DEF Bids, ExitStates
<1>2. IsFiniteSet(ExitIds)
  BY AddressAssumption, FS_Interval DEF ExitIds
<1> QED BY <1>1, <1>2, TotalType

\* A node's bids move by what its bid on one exit moves.
LEMMA BidsMove ==
  ASSUME NEW es \in [ExitIds -> ExitStates], NEW fs \in [ExitIds -> ExitStates],
         NEW id \in ExitIds, \A x \in ExitIds : x # id => fs[x] = es[x], NEW n, NEW S
  PROVE  Total(Bids(fs, n, S)) = Total(Bids(es, n, S)) - Bids(es, n, S)[id] + Bids(fs, n, S)[id]
<1>1. Bids(es, n, S) \in [ExitIds -> Nat] /\ Bids(fs, n, S) \in [ExitIds -> Nat]
  BY BidsType
<1>2. IsFiniteSet(ExitIds)
  BY BidsType
<1>3. \A x \in ExitIds : x # id => Bids(fs, n, S)[x] = Bids(es, n, S)[x]
  BY DEF Bids
<1> QED BY <1>1, <1>2, <1>3, TotalChange

\* BidsBacked in terms of Bids.
LEMMA BackedByBids ==
  BidsBacked <=> \A n \in Nodes : /\ nodes[n].committed = Total(Bids(exits, n, LiveStatuses))
                                  /\ nodes[n].filled = Total(Bids(exits, n, {"Settled"}))
BY DEF BidsBacked, BidsOf, Bids, LiveStatuses

\* LayerInv is SharedInv without another auction.
LEMMA LayerIsShared == LayerInv <=> SharedInv(NoExits)
<1>1. NoExits \in [ExitIds -> ExitStates]
  BY DEF NoExits, NoExit, ExitStates
<1>2. ASSUME NEW n, NEW S \in {LiveStatuses, {"Settled"}}
      PROVE  Total(Bids(NoExits, n, S)) = 0
  <2>1. Bids(NoExits, n, S) \in [ExitIds -> Nat]
    BY <1>1, BidsType
  <2>2. \A id \in ExitIds : Bids(NoExits, n, S)[id] = 0
    BY DEF Bids, NoExits, NoExit, LiveStatuses
  <2> QED BY <2>1, <2>2, TotalZero
<1>3. ASSUME AuctionTypeOK PROVE BidsBacked <=> CapitalAgrees(exits, NoExits)
  <2>1. \A n \in Nodes, S \in {LiveStatuses, {"Settled"}} :
           Total(Bids(exits, n, S)) + Total(Bids(NoExits, n, S)) = Total(Bids(exits, n, S))
    BY <1>2, <1>3, BidsType DEF AuctionTypeOK
  <2> QED BY <2>1, BackedByBids DEF CapitalAgrees
<1>4. EscrowMatches <=> EscrowsAgree(exits, NoExits)
  BY DEF EscrowMatches, EscrowsAgree, EscrowOf, NoExits, NoExit, Live
<1>5. QueueMatches <=> LinesAgree(exits, NoExits)
  BY DEF QueueMatches, LinesAgree, Waits, NoExits, NoExit
<1> QED BY <1>1, <1>3, <1>4, <1>5 DEF LayerInv, SharedInv

\* One exit changes: the bids stay backed if every node's commitment and fills move as
\* far as its bid on that exit.
LEMMA BidsBackedMove ==
  ASSUME NEW fs, SharedInv(fs), NEW id \in ExitIds, exits' \in [ExitIds -> ExitStates],
         \A x \in ExitIds : x # id => exits'[x] = exits[x],
         nodes' \in [Nodes -> NodeStates],
         \A n \in Nodes :
            /\ nodes'[n].committed - nodes[n].committed =
                  Bids(exits', n, LiveStatuses)[id] - Bids(exits, n, LiveStatuses)[id]
            /\ nodes'[n].filled - nodes[n].filled =
                  Bids(exits', n, {"Settled"})[id] - Bids(exits, n, {"Settled"})[id]
  PROVE  CapitalAgrees(exits, fs)'
<1> SUFFICES ASSUME NEW n \in Nodes
             PROVE  /\ nodes'[n].committed = Total(Bids(exits', n, LiveStatuses))
                                                + Total(Bids(fs, n, LiveStatuses))
                    /\ nodes'[n].filled = Total(Bids(exits', n, {"Settled"}))
                                                + Total(Bids(fs, n, {"Settled"}))
  BY DEF CapitalAgrees, Bids, LiveStatuses
<1>1. /\ exits \in [ExitIds -> ExitStates] /\ nodes \in [Nodes -> NodeStates]
      /\ fs \in [ExitIds -> ExitStates]
  BY DEF SharedInv, AuctionTypeOK, RouterInv, VaultInv, VaultTypeOK
<1>2. /\ nodes[n].committed \in Nat /\ nodes[n].filled \in Nat
      /\ nodes'[n].committed \in Nat /\ nodes'[n].filled \in Nat
  BY <1>1 DEF NodeStates
<1>3. ASSUME NEW S \in {LiveStatuses, {"Settled"}}, NEW c \in Nat, NEW d \in Nat,
             c = Total(Bids(exits, n, S)) + Total(Bids(fs, n, S)),
             d - c = Bids(exits', n, S)[id] - Bids(exits, n, S)[id]
      PROVE  d = Total(Bids(exits', n, S)) + Total(Bids(fs, n, S))
  <2> DEFINE k == Total(Bids(fs, n, S))
             t == Total(Bids(exits, n, S))   u == Total(Bids(exits', n, S))
             x == Bids(exits, n, S)[id]      y == Bids(exits', n, S)[id]
  <2>1. k \in Nat /\ t \in Nat /\ u \in Nat /\ x \in Nat /\ y \in Nat
    BY <1>1, BidsType
  <2>2. u = t - x + y
    BY <1>1, BidsMove
  <2>3. c = t + k /\ d - c = y - x
    BY <1>3
  <2> HIDE DEF k, t, u, x, y
  <2>4. d = u + k
    BY <1>3, <2>1, <2>2, <2>3
  <2> QED BY <2>4 DEF u, k
<1>4. /\ nodes[n].committed = Total(Bids(exits, n, LiveStatuses)) + Total(Bids(fs, n, LiveStatuses))
      /\ nodes[n].filled = Total(Bids(exits, n, {"Settled"})) + Total(Bids(fs, n, {"Settled"}))
  BY DEF SharedInv, CapitalAgrees
<1>5. nodes'[n].committed = Total(Bids(exits', n, LiveStatuses)) + Total(Bids(fs, n, LiveStatuses))
  BY <1>2, <1>3, <1>4
<1>6. nodes'[n].filled = Total(Bids(exits', n, {"Settled"})) + Total(Bids(fs, n, {"Settled"}))
  BY <1>2, <1>3, <1>4
<1> QED BY <1>5, <1>6

\* Nothing changes in the auction, and no commitment or fill in the vault.
LEMMA BidsBackedUntouched ==
  ASSUME NEW fs, CapitalAgrees(exits, fs), UNCHANGED exits,
         \A n \in Nodes : nodes'[n].committed = nodes[n].committed /\ nodes'[n].filled = nodes[n].filled
  PROVE  CapitalAgrees(exits, fs)'
BY DEF CapitalAgrees, Bids

-----------------------------------------------------------------------------
(* Lines.                                                                  *)

\* Who stands in a line after somebody joined it.
LEMMA JoinMembers ==
  ASSUME NEW q \in Seq(ExitIds), NEW id \in ExitIds, NEW x
  PROVE  InLine(Append(q, id), x) <=> (InLine(q, x) \/ x = id)
<1> DEFINE r == Append(q, id)
<1>1. /\ Len(r) = Len(q) + 1 /\ Len(q) \in Nat /\ r[Len(q) + 1] = id
      /\ \A k \in 1 .. Len(q) : r[k] = q[k]
  OBVIOUS
<1> HIDE DEF r
<1>2. InLine(r, x) <=> (InLine(q, x) \/ x = id)
  BY <1>1 DEF InLine
<1> QED BY <1>2 DEF r

\* Who stands in a line after somebody left it.
LEMMA LeaveMembers ==
  ASSUME NEW q \in Seq(ExitIds), NoDuplicates(q), NEW i \in 1 .. Len(q), NEW x
  PROVE  InLine(WithoutIndex(q, i), x) <=> (InLine(q, x) /\ x # q[i])
<1> DEFINE r == WithoutIndex(q, i)
<1>1. /\ r \in Seq(ExitIds) /\ Len(r) = Len(q) - 1 /\ Len(q) \in Nat
      /\ \A k \in 1 .. Len(r) : r[k] = q[IF k < i THEN k ELSE k + 1]
  BY WithoutIndexEffect
<1> HIDE DEF r
<1>2. ASSUME InLine(r, x) PROVE InLine(q, x) /\ x # q[i]
  <2>1. PICK k \in 1 .. Len(r) : r[k] = x
    BY <1>2 DEF InLine
  <2> DEFINE j == IF k < i THEN k ELSE k + 1
  <2>2. j \in 1 .. Len(q) /\ x = q[j] /\ j # i
    BY <1>1, <2>1
  <2> HIDE DEF j
  <2>3. InLine(q, x)
    BY <2>2 DEF InLine
  <2>4. q[j] # q[i]
    BY <2>2 DEF NoDuplicates
  <2> QED BY <2>2, <2>3, <2>4
<1>3. ASSUME InLine(q, x), x # q[i] PROVE InLine(r, x)
  <2>1. PICK j \in 1 .. Len(q) : q[j] = x /\ j # i
    BY <1>3 DEF InLine
  <2>2. CASE j < i
    <3>1. j \in 1 .. Len(r) /\ r[j] = x
      BY <1>1, <2>1, <2>2
    <3> QED BY <3>1 DEF InLine
  <2>3. CASE j > i
    <3>1. j - 1 \in 1 .. Len(r) /\ r[j - 1] = x
      BY <1>1, <2>1, <2>3
    <3> QED BY <3>1 DEF InLine
  <2> QED BY <2>1, <2>2, <2>3
<1> QED BY <1>2, <1>3 DEF r

\* A live exit that leaves its line, if it stands in one, stands in no line any more,
\* and everybody else stays.
LEMMA LeaveLineEffect ==
  ASSUME NEW fs, SharedInv(fs), NEW id \in ExitIds, Live(exits[id]), exits[id].asset \in Assets,
         LeaveLine(id), UNCHANGED queueConfig
  PROVE  /\ QueueInv'
         /\ \A a \in Assets, x \in ExitIds :
               InLine(queues'[a], x) <=> (InLine(queues[a], x) /\ x # id)
<1> DEFINE b == exits[id].asset
<1>1. /\ QueueInv /\ queues \in [Assets -> Seq(ExitIds)]
      /\ \A a \in Assets :
            InLine(queues[a], id) <=> (exits[id].status = "Queued" /\ exits[id].asset = a)
  <2>1. fs[id].status # "Queued"
    BY DEF SharedInv, EscrowsAgree, Live
  <2> QED BY <2>1 DEF SharedInv, LinesAgree, Waits, QueueInv, QueueTypeOK
<1>2. CASE exits[id].status # "Queued"
  <2>1. UNCHANGED <<queueConfig, queues>>
    BY <1>2 DEF LeaveLine
  <2>2. QueueInv'
    BY <1>1, <2>1 DEF QueueInv, QueueTypeOK, LineWellFormed
  <2>3. \A a \in Assets : ~InLine(queues[a], id)
    BY <1>1, <1>2
  <2> QED BY <2>1, <2>2, <2>3
<1>3. CASE exits[id].status = "Queued"
  <2>1. dequeue(AuctionAddr, b, id)
    BY <1>3 DEF LeaveLine
  <2>2. /\ queues' \in [Assets -> Seq(ExitIds)]
        /\ \A a \in Assets : LineStep(queues[a], queues'[a])
    BY <1>1, <2>1, DequeueStep
  <2>3. QueueInv'
    BY <1>1, <2>2 DEF QueueInv, QueueTypeOK, LineWellFormed, LineStep, NoDuplicates
  <2> DEFINE q == queues[b]
  <2>4. /\ q \in Seq(ExitIds) /\ NoDuplicates(q) /\ InLine(q, id)
        /\ queues' = [queues EXCEPT ![b] = WithoutIndex(q, position_of(q, id))]
    BY <1>1, <2>1 DEF dequeue, QueueInv, LineWellFormed, NoDuplicates
  <2> HIDE DEF q
  <2>5. PICK i \in 1 .. Len(q) : q[i] = id
    BY <2>4 DEF InLine
  <2>6. position_of(q, id) = i
    BY <2>4, <2>5, PositionOf
  <2>7. \A x \in ExitIds : InLine(WithoutIndex(q, i), x) <=> (InLine(q, x) /\ x # id)
    BY <2>4, <2>5, LeaveMembers
  <2>8. queues'[b] = WithoutIndex(q, i) /\ \A a \in Assets : a # b => queues'[a] = queues[a]
    BY <1>1, <2>4, <2>6
  <2>9. \A a \in Assets : a # b => ~InLine(queues[a], id)
    BY <1>1
  <2> QED BY <2>3, <2>7, <2>8, <2>9 DEF q
<1> QED BY <1>2, <1>3

\* An exit that joins the line of its asset stands in it, and everybody else stays.
LEMMA JoinLineEffect ==
  ASSUME QueueInv, NEW id \in ExitIds, NEW b \in Assets,
         enqueue(AuctionAddr, b, id), UNCHANGED queueConfig
  PROVE  /\ QueueInv'
         /\ \A a \in Assets, x \in ExitIds :
               InLine(queues'[a], x) <=> (InLine(queues[a], x) \/ (x = id /\ a = b))
<1>1. /\ queues' \in [Assets -> Seq(ExitIds)]
      /\ \A a \in Assets : LineStep(queues[a], queues'[a])
  BY EnqueueStep
<1>2. QueueInv'
  BY <1>1 DEF QueueInv, QueueTypeOK, LineWellFormed, LineStep, NoDuplicates
<1>3. queues \in [Assets -> Seq(ExitIds)] /\ queues[b] \in Seq(ExitIds)
  BY DEF QueueInv, QueueTypeOK
<1>4. queues'[b] = Append(queues[b], id) /\ \A a \in Assets : a # b => queues'[a] = queues[a]
  BY <1>3 DEF enqueue
<1>5. \A x \in ExitIds : InLine(queues'[b], x) <=> (InLine(queues[b], x) \/ x = id)
  BY <1>3, <1>4, JoinMembers
<1> QED BY <1>2, <1>4, <1>5

-----------------------------------------------------------------------------
(* Capital and exits.                                                      *)

\* What the four contracts say of one live exit.
LEMMA SharedExit ==
  ASSUME NEW fs, SharedInv(fs), NEW id \in ExitIds, Live(exits[id])
  PROVE  /\ id < next_id
         /\ exits[id] \in ExitStates
         /\ exits[id].seller \in Sellers /\ exits[id].asset \in Assets
         /\ exits[id].amount \in Nat /\ exits[id].best_usdc \in Nat
         /\ exits[id].best_node \in Nodes \cup {NoAddr}
         /\ escrows[id] = [stored |-> TRUE, seller |-> exits[id].seller,
                           asset |-> exits[id].asset, amount |-> exits[id].amount]
         /\ ~Live(fs[id])
<1>1. exits[id] \in ExitStates
  BY DEF SharedInv, AuctionTypeOK
<1>2. exits[id] # NoExit
  BY DEF Live, NoExit
<1>3. id < next_id /\ exits[id].seller \in Sellers /\ exits[id].asset \in Assets
  BY <1>2 DEF SharedInv, AuctionSlots
<1>4. escrows[id] = [stored |-> TRUE, seller |-> exits[id].seller,
                     asset |-> exits[id].asset, amount |-> exits[id].amount]
  BY DEF SharedInv, EscrowsAgree, EscrowOf
<1>5. ~Live(fs[id])
  BY DEF SharedInv, EscrowsAgree
<1> QED BY <1>1, <1>3, <1>4, <1>5 DEF ExitStates

\* What the four contracts say of one live exit.
LEMMA LiveExit ==
  ASSUME LayerInv, NEW id \in ExitIds, Live(exits[id])
  PROVE  /\ id < next_id
         /\ exits[id] \in ExitStates
         /\ exits[id].seller \in Sellers /\ exits[id].asset \in Assets
         /\ exits[id].amount \in Nat /\ exits[id].best_usdc \in Nat
         /\ exits[id].best_node \in Nodes \cup {NoAddr}
         /\ escrows[id] = [stored |-> TRUE, seller |-> exits[id].seller,
                           asset |-> exits[id].asset, amount |-> exits[id].amount]
BY LayerIsShared, SharedExit

\* The auction writes one exit that it has opened.
LEMMA ExitWritten ==
  ASSUME NEW fs, SharedInv(fs), NEW id \in ExitIds, id < next_id, NEW e \in ExitStates,
         e.status # "None", e.seller \in Sellers, e.asset \in Assets,
         exits' = [exits EXCEPT ![id] = e], UNCHANGED <<auctionConfig, next_id>>
  PROVE  /\ AuctionTypeOK' /\ AuctionSlots'
         /\ exits'[id] = e
         /\ \A x \in ExitIds : x # id => exits'[x] = exits[x]
<1>1. exits \in [ExitIds -> ExitStates]
  BY DEF SharedInv, AuctionTypeOK
<1>2. /\ exits' \in [ExitIds -> ExitStates] /\ exits'[id] = e
      /\ \A x \in ExitIds : x # id => exits'[x] = exits[x]
  BY <1>1
<1>3. AuctionTypeOK'
  BY <1>2 DEF SharedInv, AuctionTypeOK
<1>4. AuctionSlots'
  BY <1>2 DEF SharedInv, AuctionSlots
<1> QED BY <1>2, <1>3, <1>4

\* A change of one commitment, up or down.
LEMMA LockEffect ==
  ASSUME NEW ns \in [Nodes -> NodeStates], NEW n \in Nodes, NEW k \in Int,
         ns[n].committed + k \in Nat
  PROVE  LET ms == LockCapital(ns, n, k)
         IN  /\ ms \in [Nodes -> NodeStates]
             /\ ms[n].committed = ns[n].committed + k
             /\ \A m \in Nodes : /\ m # n => ms[m] = ns[m]
                                 /\ ms[m].deposited = ns[m].deposited
                                 /\ ms[m].filled = ns[m].filled
                                 /\ ms[m].stored = ns[m].stored
<1> DEFINE ms == LockCapital(ns, n, k)
<1>1. ms = [ns EXCEPT ![n].committed = ns[n].committed + k]
  BY DEF LockCapital
<1> HIDE DEF ms
<1>2. /\ ms \in [Nodes -> NodeStates]
      /\ ms[n].committed = ns[n].committed + k
      /\ \A m \in Nodes : /\ m # n => ms[m] = ns[m]
                          /\ ms[m].deposited = ns[m].deposited
                          /\ ms[m].filled = ns[m].filled
                          /\ ms[m].stored = ns[m].stored
  BY <1>1 DEF NodeStates
<1> QED BY <1>2 DEF ms

\* Releasing the standing bid takes exactly that bid off its bidder's commitment.
LEMMA ReleaseEffect ==
  ASSUME NEW ns \in [Nodes -> NodeStates],
         NEW aps \in [Nodes -> [Assets -> AppetiteStates]],
         NEW ex \in ExitStates, ex.asset \in Assets, release_best(ns, aps, ex)
  PROVE  /\ nodes' \in [Nodes -> NodeStates]
         /\ appetites' \in [Nodes -> [Assets -> AppetiteStates]]
         /\ \A m \in Nodes :
               /\ nodes'[m].committed =
                     IF ex.best_node = m THEN ns[m].committed - ex.best_usdc ELSE ns[m].committed
               /\ nodes'[m].deposited = ns[m].deposited
               /\ nodes'[m].filled = ns[m].filled
               /\ nodes'[m].stored = ns[m].stored
<1>1. ex.best_node \in Nodes \cup {NoAddr} /\ ex.best_usdc \in Nat
  BY DEF ExitStates
<1>2. CASE ex.best_node = NoAddr
  <2>1. NoAddr \notin Nodes
    BY AuctionAssumption
  <2> QED BY <1>2, <2>1 DEF release_best
<1>3. CASE ex.best_node # NoAddr
  <2> DEFINE n == ex.best_node
             u == ex.best_usdc
             a == ex.asset
  <2>1. /\ n \in Nodes /\ u \in Nat /\ a \in Assets
        /\ ns[n].committed >= u /\ aps[n][a].exposure >= u
        /\ nodes' = LockCapital(ns, n, -u)
        /\ appetites' = AddExposure(aps, n, a, -u)
    BY <1>1, <1>3 DEF release_best, ReleaseAllowed
  <2> HIDE DEF n, u, a
  <2>2. ns[n].committed \in Nat /\ aps[n][a].exposure \in Nat
    BY <2>1 DEF NodeStates, AppetiteStates
  <2>3. /\ -u \in Int /\ ns[n].committed + (-u) \in Nat /\ aps[n][a].exposure + (-u) \in Nat
        /\ ns[n].committed + (-u) = ns[n].committed - u
    BY <2>1, <2>2
  <2>4. appetites' \in [Nodes -> [Assets -> AppetiteStates]]
    BY <2>1, <2>3, ExposureType
  <2>5. /\ nodes' \in [Nodes -> NodeStates]
        /\ nodes'[n].committed = ns[n].committed - u
        /\ \A m \in Nodes : /\ m # n => nodes'[m] = ns[m]
                            /\ nodes'[m].deposited = ns[m].deposited
                            /\ nodes'[m].filled = ns[m].filled
                            /\ nodes'[m].stored = ns[m].stored
    BY <2>1, <2>3, LockEffect
  <2>6. ASSUME NEW m \in Nodes
        PROVE  nodes'[m].committed =
                  IF n = m THEN ns[m].committed - u ELSE ns[m].committed
    BY <2>5
  <2> QED BY <2>4, <2>5, <2>6 DEF n, u
<1> QED BY <1>2, <1>3

\* Commitments move, within what each node has deposited and not asked back.
LEMMA CommitmentsMove ==
  ASSUME VaultInv, UNCHANGED <<vaultConfig, withdrawals, now>>,
         balance' \in [Tokens -> [Holders -> Nat]],
         balance'[Usdc][VaultAddr] >= balance[Usdc][VaultAddr],
         nodes' \in [Nodes -> NodeStates],
         appetites' \in [Nodes -> [Assets -> AppetiteStates]],
         \A m \in Nodes : /\ nodes'[m].deposited = nodes[m].deposited
                          /\ nodes'[m].stored = nodes[m].stored
                          /\ nodes'[m].committed + withdrawals[m].amount <= nodes[m].deposited
  PROVE  VaultInv'
<1>1. VaultTypeOK' /\ Covered' /\ SlotsConsistent'
  BY DEF VaultInv, VaultTypeOK, TokenTypeOK, Covered, SlotsConsistent
<1>2. VaultSolvent'
  <2>1. Deposits(nodes') = Deposits(nodes) /\ Deposits(nodes) \in [Nodes -> Nat]
    BY DEF VaultInv, VaultTypeOK, Deposits, NodeStates
  <2>2. Total(Deposits(nodes)) \in Nat
    BY <2>1, VaultAssumption, TotalType
  <2>3. balance[Usdc][VaultAddr] >= Total(Deposits(nodes))
    BY DEF VaultInv, VaultSolvent, Deposits
  <2>4. balance[Usdc][VaultAddr] \in Nat /\ balance'[Usdc][VaultAddr] \in Nat
    BY TokenAssumption, VaultAssumption DEF VaultInv, VaultTypeOK, TokenTypeOK
  <2>5. balance'[Usdc][VaultAddr] >= Total(Deposits(nodes'))
    BY <2>1, <2>2, <2>3, <2>4
  <2> QED BY <2>5 DEF VaultSolvent, Deposits
<1> QED BY <1>1, <1>2 DEF VaultInv

-----------------------------------------------------------------------------
(* One lemma per call.                                                     *)

\* The admin calls, the clock and the nodes' own calls touch no commitment, no fill,
\* no escrow, no line and no exit.
LEMMA ElsewhereKeepsInv ==
  ASSUME NEW fs, SharedInv(fs),
         \/ LayerTick
         \/ VaultAdminCalls /\ UNCHANGED <<routerStorage, queueVars, auctionStorage>>
         \/ RouterAdminCalls /\ UNCHANGED <<queueVars, auctionStorage>>
         \/ NodeCalls /\ UNCHANGED <<routerStorage, queueVars, auctionStorage>>
  PROVE  SharedInv(fs)'
<1>1. RouterInv
  BY DEF SharedInv
<1>2. RouterInv'
  BY <1>1, RouterInvStep DEF RouterNext, LayerTick
<1>3. UNCHANGED <<escrows, queueConfig, queues, auctionConfig, next_id, exits>>
  BY DEF LayerTick, routerStorage, queueVars, auctionStorage, RouterAdminCalls,
         router_initialize, router_set_auction, router_set_admin, set_treasury,
         set_protocol_fee_bps
<1>4. \A n \in Nodes : nodes'[n].committed = nodes[n].committed /\ nodes'[n].filled = nodes[n].filled
  <2>1. CASE LayerTick \/ VaultAdminCalls \/ RouterAdminCalls
    BY <2>1 DEF LayerTick, Tick, vaultStorage, vaultVars, VaultAdminCalls, vault_initialize,
           vault_set_auction, vault_set_router, vault_set_admin, set_max_single_fill_bps,
           RouterAdminCalls, router_initialize, router_set_auction, router_set_admin,
           set_treasury, set_protocol_fee_bps
  <2>2. CASE NodeCalls
    <3>1. nodes \in [Nodes -> NodeStates]
      BY <1>1 DEF RouterInv, VaultInv, VaultTypeOK
    <3>2. \/ UNCHANGED nodes
          \/ \E n \in Nodes, amt \in DepositAmounts : deposit(n, amt)
          \/ \E n \in Nodes : execute_withdrawal(n)
      BY <2>2 DEF NodeCalls, request_withdrawal, cancel_withdrawal, set_appetite,
                  reduce_exposure
    <3>3. CASE \E n \in Nodes, amt \in DepositAmounts : deposit(n, amt)
      BY <3>1, <3>3 DEF deposit, NodeStates
    <3>4. CASE \E n \in Nodes : execute_withdrawal(n)
      BY <3>1, <3>4 DEF execute_withdrawal, NodeStates
    <3> QED BY <3>2, <3>3, <3>4
  <2> QED BY <2>1, <2>2
<1>5. CapitalAgrees(exits, fs)'
  BY <1>3, <1>4, BidsBackedUntouched DEF SharedInv
<1>6. QueueInv' /\ AuctionTypeOK' /\ AuctionSlots' /\ EscrowsAgree(exits, fs)' /\ LinesAgree(exits, fs)'
  BY <1>3 DEF SharedInv, QueueInv, QueueTypeOK, LineWellFormed, AuctionTypeOK, AuctionSlots,
              EscrowsAgree, EscrowOf, LinesAgree, Waits
<1> QED BY <1>2, <1>5, <1>6 DEF SharedInv

\* The admin calls of the queue and of the auction write configurations only; initialize
\* also restarts the numbering, of exits that were never opened.
LEMMA ConfigKeepsInv ==
  ASSUME NEW fs, SharedInv(fs),
         \/ QueueAdminCalls /\ UNCHANGED <<routerVars, auctionStorage>>
         \/ \E admin \in Admins : auction_initialize(admin)
         \/ \E g, x \in Admins : auction_set_admin(g, x)
         \/ UNCHANGED layerVars
  PROVE  SharedInv(fs)'
<1>1. UNCHANGED <<routerVars, queues, exits>>
  BY DEF QueueAdminCalls, queue_initialize, queue_set_auction, auctionStorage,
         auction_initialize, auction_set_admin, layerVars, queueVars
<1>2. RouterInv'
  BY <1>1, RouterInvStep DEF SharedInv
<1>3. QueueInv'
  <2>1. CASE QueueAdminCalls
    BY <2>1, QueueStep DEF SharedInv, QueueNext, QueueInv, LineWellFormed, LineStep, NoDuplicates
  <2>2. CASE UNCHANGED <<queueConfig, queues>>
    BY <2>2 DEF SharedInv, QueueInv, QueueTypeOK, LineWellFormed
  <2> QED BY <2>1, <2>2 DEF auction_initialize, auction_set_admin, layerVars, queueVars
<1>4. AuctionTypeOK' /\ AuctionSlots'
  <2>1. /\ auctionConfig' \in AuctionConfigs /\ next_id' = next_id
        /\ auctionConfig.stored => auctionConfig'.stored
    <3> USE DEF SharedInv, AuctionTypeOK, AuctionSlots, AuctionConfigs
    <3>1. CASE UNCHANGED <<auctionConfig, next_id>>
      BY <3>1
    <3>2. CASE \E admin \in Admins : auction_initialize(admin)
      BY <3>2 DEF auction_initialize
    <3>3. CASE \E g, x \in Admins : auction_set_admin(g, x)
      BY <3>3 DEF auction_set_admin
    <3> QED BY <3>1, <3>2, <3>3 DEF auctionStorage, layerVars
  <2> QED BY <1>1, <2>1 DEF SharedInv, AuctionTypeOK, AuctionSlots
<1>5. UNCHANGED <<nodes, escrows>>
  BY <1>1 DEF routerVars, vaultVars, vaultStorage, routerStorage
<1>6. CapitalAgrees(exits, fs)'
  BY <1>1, <1>5, BidsBackedUntouched DEF SharedInv
<1>7. EscrowsAgree(exits, fs)' /\ LinesAgree(exits, fs)'
  BY <1>1, <1>5 DEF SharedInv, EscrowsAgree, EscrowOf, LinesAgree, Waits
<1> QED BY <1>2, <1>3, <1>4, <1>6, <1>7 DEF SharedInv

\* An exit opens under an identifier that has no bids, no escrow and no place in line.
LEMMA OpenKeepsInv ==
  ASSUME NEW fs, SharedInv(fs), NEW p \in Sellers, NEW a \in Assets, NEW amount \in Int,
         NEW r \in Int, NEW m \in Int, NEW d \in Nat, open_exit(p, a, amount, r, m, d)
  PROVE  SharedInv(fs)'
<1> DEFINE id == next_id
           e == [status |-> "Open", seller |-> p, asset |-> a, amount |-> amount,
                 reference_usdc |-> r, min_accept_usdc |-> m,
                 closes_at |-> now + d, best_node |-> NoAddr, best_usdc |-> 0]
<1>1. /\ id <= MaxExits /\ auctionConfig.stored /\ amount > 0 /\ m >= 0 /\ r > 0
      /\ escrow(AuctionAddr, id, p, a, amount)
      /\ next_id' = id + 1 /\ exits' = [exits EXCEPT ![id] = e]
      /\ UNCHANGED <<vaultStorage, now, routerConfig, queueVars, auctionConfig>>
  BY DEF open_exit
<1>2. /\ RouterInv /\ now \in Nat /\ exits \in [ExitIds -> ExitStates]
      /\ auctionConfig \in AuctionConfigs /\ next_id \in 1 .. (MaxExits + 1)
      /\ nodes \in [Nodes -> NodeStates] /\ escrows \in [ExitIds -> EscrowStates]
  BY DEF SharedInv, AuctionTypeOK, RouterInv, RouterTypeOK, VaultInv, VaultTypeOK
<1>3. id \in ExitIds /\ exits[id] = NoExit
  BY <1>1, <1>2, AddressAssumption DEF SharedInv, AuctionSlots, ExitIds
<1>4. e \in ExitStates
  BY <1>1, <1>2 DEF ExitStates
<1>5. RouterInv'
  BY <1>1, <1>2, <1>3, EscrowKeepsInv
<1>6. /\ escrows'[id] = [stored |-> TRUE, seller |-> p, asset |-> a, amount |-> amount]
      /\ \A x \in ExitIds : x # id => escrows'[x] = escrows[x]
  BY <1>1, <1>2, <1>3 DEF escrow
<1>free. ~escrows[id].stored
  BY <1>1 DEF escrow
<1>7. UNCHANGED <<nodes, queueConfig, queues, auctionConfig>>
  BY <1>1 DEF vaultStorage, queueVars
<1>8. /\ e.status = "Open" /\ e.seller = p /\ e.asset = a /\ e.amount = amount
      /\ e.best_node = NoAddr
  OBVIOUS
<1> HIDE DEF id, e
<1>9. /\ exits' \in [ExitIds -> ExitStates] /\ exits'[id] = e
      /\ \A x \in ExitIds : x # id => exits'[x] = exits[x]
  BY <1>1, <1>2, <1>3, <1>4
<1>10. AuctionTypeOK'
  <2>1. next_id' \in 1 .. (MaxExits + 1)
    BY <1>1, <1>2, AddressAssumption DEF id
  <2> QED BY <1>2, <1>7, <1>9, <2>1 DEF AuctionTypeOK
<1>11. AuctionSlots'
  <2>1. \A x \in ExitIds : x < next_id' <=> (x = id \/ x < next_id)
    BY <1>1, <1>2 DEF ExitIds, id
  <2> QED BY <1>1, <1>7, <1>8, <1>9, <2>1 DEF SharedInv, AuctionSlots
<1>12. QueueInv'
  BY <1>7 DEF SharedInv, QueueInv, QueueTypeOK, LineWellFormed
<1>13. CapitalAgrees(exits, fs)'
  <2>1. \A n \in Nodes, S \in {LiveStatuses, {"Settled"}} :
           Bids(exits', n, S)[id] = 0 /\ Bids(exits, n, S)[id] = 0
    BY <1>3, <1>8, <1>9, AuctionAssumption DEF Bids, NoExit
  <2>2. \A n \in Nodes : /\ nodes'[n].committed - nodes[n].committed = 0
                         /\ nodes'[n].filled - nodes[n].filled = 0
    BY <1>2, <1>7 DEF NodeStates
  <2> QED BY <1>2, <1>3, <1>7, <1>9, <2>1, <2>2, BidsBackedMove
<1>14. EscrowsAgree(exits, fs)'
  <2>1. ~Live(fs[id])
    <3> SUFFICES ASSUME Live(fs[id]) PROVE FALSE
      OBVIOUS
    <3>1. escrows[id] = EscrowOf(fs[id])
      BY <1>3 DEF SharedInv, EscrowsAgree
    <3>2. EscrowOf(fs[id]).stored
      BY DEF EscrowOf
    <3> QED BY <1>free, <3>1, <3>2
  <2> QED BY <1>6, <1>8, <1>9, <2>1 DEF SharedInv, EscrowsAgree, EscrowOf, Live
<1>15. LinesAgree(exits, fs)'
  <2>1. exits[id].status # "Queued"
    BY <1>3 DEF NoExit
  <2> QED BY <1>7, <1>8, <1>9, <2>1 DEF SharedInv, LinesAgree, Waits
<1> QED BY <1>5, <1>10, <1>11, <1>12, <1>13, <1>14, <1>15 DEF SharedInv

\* A settlement consumes the standing bid: it leaves the commitment and enters the
\* fills of its bidder, the escrow it bought and the place in line go with it.
LEMMA FillKeepsInv ==
  ASSUME NEW fs, SharedInv(fs), NEW id \in ExitIds, Live(exits[id]), fill(id)
  PROVE  SharedInv(fs)'
<1> DEFINE ex == exits[id]
           n == ex.best_node
           u == ex.best_usdc
           e == [ex EXCEPT !.status = "Settled"]
<1>1. /\ id < next_id /\ ex \in ExitStates /\ ex.seller \in Sellers /\ ex.asset \in Assets
      /\ ex.amount \in Nat /\ u \in Nat /\ n \in Nodes \cup {NoAddr}
      /\ escrows[id].amount = ex.amount
  <2>1. escrows[id] = [stored |-> TRUE, seller |-> ex.seller,
                       asset |-> ex.asset, amount |-> ex.amount]
    BY SharedExit
  <2>2. escrows[id].amount = ex.amount
    BY <2>1
  <2> QED BY <2>2, SharedExit
<1>2. /\ n # NoAddr
      /\ settle(AuctionAddr, id, n, ex.amount, u)
      /\ LeaveLine(id)
      /\ exits' = [exits EXCEPT ![id] = e]
      /\ UNCHANGED <<vaultConfig, appetites, withdrawals, now, routerConfig,
                     queueConfig, auctionConfig, next_id>>
  BY DEF fill
<1>3. n \in Nodes
  BY <1>1, <1>2
<1>4. /\ RouterInv /\ nodes \in [Nodes -> NodeStates] /\ escrows \in [ExitIds -> EscrowStates]
  BY DEF SharedInv, RouterInv, RouterTypeOK, VaultInv, VaultTypeOK
<1>5. RouterInv'
  BY <1>1, <1>2, <1>3, <1>4, SettleKeepsInv
<1>6. /\ nodes' \in [Nodes -> NodeStates]
      /\ nodes'[n].committed = nodes[n].committed - u
      /\ nodes'[n].filled = nodes[n].filled + u
      /\ \A m \in Nodes : m # n => nodes'[m] = nodes[m]
  <2>1. /\ RouterInv /\ n \in Nodes /\ ex.amount \in Int /\ u \in Int
        /\ settle(AuctionAddr, id, n, ex.amount, u)
    BY <1>1, <1>2, <1>3, <1>4
  <2> HIDE DEF ex, n, u
  <2> QED BY <2>1, SettlePays
<1>7. escrows'[id] = NoEscrow /\ \A x \in ExitIds : x # id => escrows'[x] = escrows[x]
  BY <1>1, <1>2, <1>4 DEF settle, AfterSale
<1>8. /\ e \in ExitStates /\ e.status = "Settled" /\ e.seller \in Sellers /\ e.asset \in Assets
      /\ e.best_node = n /\ e.best_usdc = u
  BY <1>1 DEF ExitStates
<1>9. /\ QueueInv'
      /\ \A a \in Assets, x \in ExitIds :
            InLine(queues'[a], x) <=> (InLine(queues[a], x) /\ x # id)
  BY <1>1, <1>2, LeaveLineEffect
<1> HIDE DEF e
<1>10. /\ AuctionTypeOK' /\ AuctionSlots' /\ exits'[id] = e
       /\ \A x \in ExitIds : x # id => exits'[x] = exits[x]
  BY <1>1, <1>2, <1>8, ExitWritten
<1>11. CapitalAgrees(exits, fs)'
  <2>1. \A m \in Nodes :
           /\ Bids(exits, m, LiveStatuses)[id] = IF m = n THEN u ELSE 0
           /\ Bids(exits, m, {"Settled"})[id] = 0
           /\ Bids(exits', m, LiveStatuses)[id] = 0
           /\ Bids(exits', m, {"Settled"})[id] = IF m = n THEN u ELSE 0
    BY <1>8, <1>10 DEF Bids, LiveStatuses, Live
  <2>2. \A m \in Nodes :
           /\ nodes'[m].committed - nodes[m].committed = IF m = n THEN 0 - u ELSE 0
           /\ nodes'[m].filled - nodes[m].filled = IF m = n THEN u - 0 ELSE 0
    <3>1. \A m \in Nodes : nodes[m].committed \in Nat /\ nodes[m].filled \in Nat
      BY <1>4 DEF NodeStates
    <3> HIDE DEF n, u
    <3> QED BY <1>1, <1>6, <3>1
  <2>3. exits' \in [ExitIds -> ExitStates]
    BY <1>10 DEF AuctionTypeOK
  <2>4. \A m \in Nodes :
           /\ nodes'[m].committed - nodes[m].committed =
                 Bids(exits', m, LiveStatuses)[id] - Bids(exits, m, LiveStatuses)[id]
           /\ nodes'[m].filled - nodes[m].filled =
                 Bids(exits', m, {"Settled"})[id] - Bids(exits, m, {"Settled"})[id]
    <3> HIDE DEF n, u
    <3> QED BY <1>1, <2>1, <2>2
  <2> QED BY <1>6, <1>10, <2>3, <2>4, BidsBackedMove
<1>12. EscrowsAgree(exits, fs)'
  BY <1>7, <1>8, <1>10 DEF SharedInv, EscrowsAgree, EscrowOf, Live
<1>13. LinesAgree(exits, fs)'
  <2>1. ~Live(fs[id])
    BY SharedExit
  <2> QED BY <1>8, <1>9, <1>10, <2>1 DEF SharedInv, LinesAgree, Waits, Live
<1> QED BY <1>5, <1>9, <1>10, <1>11, <1>12, <1>13 DEF SharedInv

\* A cancelled exit gives back both sides: the bid to its bidder's free balance, the
\* tokens to the seller.
LEMMA CancelKeepsInv ==
  ASSUME NEW fs, SharedInv(fs), NEW id \in ExitIds, cancel(id)
  PROVE  SharedInv(fs)'
<1> DEFINE ex == exits[id]
           n == ex.best_node
           u == ex.best_usdc
           e == [ex EXCEPT !.status = "Cancelled", !.best_node = NoAddr, !.best_usdc = 0]
<1>1. /\ Live(ex)
      /\ release_best(nodes, appetites, ex)
      /\ LeaveLine(id)
      /\ refund(AuctionAddr, id)
      /\ exits' = [exits EXCEPT ![id] = e]
      /\ UNCHANGED <<vaultConfig, withdrawals, now, routerConfig,
                     queueConfig, auctionConfig, next_id>>
  BY DEF cancel
<1>2. /\ id < next_id /\ ex \in ExitStates /\ ex.seller \in Sellers /\ ex.asset \in Assets
      /\ u \in Nat
  BY <1>1, SharedExit
<1>3. /\ RouterInv /\ VaultInv /\ nodes \in [Nodes -> NodeStates]
      /\ appetites \in [Nodes -> [Assets -> AppetiteStates]]
      /\ withdrawals \in [Nodes -> WithdrawRequests]
  BY DEF SharedInv, RouterInv, VaultInv, VaultTypeOK
<1>4. /\ balance' \in [Tokens -> [Holders -> Nat]]
      /\ balance'[Usdc][VaultAddr] >= balance[Usdc][VaultAddr]
      /\ escrows' \in [ExitIds -> EscrowStates] /\ escrows'[id] = NoEscrow
      /\ \A x \in ExitIds : x # id => escrows'[x] = escrows[x]
      /\ EscrowBacked'
  BY <1>1, <1>3, RefundMoves
<1>5. /\ nodes' \in [Nodes -> NodeStates]
      /\ appetites' \in [Nodes -> [Assets -> AppetiteStates]]
      /\ \A m \in Nodes :
            /\ nodes'[m].committed =
                  IF n = m THEN nodes[m].committed - u ELSE nodes[m].committed
            /\ nodes'[m].deposited = nodes[m].deposited
            /\ nodes'[m].filled = nodes[m].filled
            /\ nodes'[m].stored = nodes[m].stored
  BY <1>1, <1>2, <1>3, ReleaseEffect
<1>6. /\ e \in ExitStates /\ e.status = "Cancelled"
      /\ e.seller \in Sellers /\ e.asset \in Assets
  BY <1>2 DEF ExitStates
<1>7. /\ QueueInv'
      /\ \A a \in Assets, x \in ExitIds :
            InLine(queues'[a], x) <=> (InLine(queues[a], x) /\ x # id)
  BY <1>1, <1>2, LeaveLineEffect
<1> HIDE DEF e
<1>8. /\ AuctionTypeOK' /\ AuctionSlots' /\ exits'[id] = e
      /\ \A x \in ExitIds : x # id => exits'[x] = exits[x]
  BY <1>1, <1>2, <1>6, ExitWritten
<1>9. \A m \in Nodes : /\ nodes[m].committed \in Nat /\ nodes[m].filled \in Nat
                       /\ nodes[m].deposited \in Nat /\ withdrawals[m].amount \in Nat
                       /\ nodes[m].committed + withdrawals[m].amount <= nodes[m].deposited
  BY <1>3 DEF NodeStates, WithdrawRequests, VaultInv, Covered
<1>10. VaultInv'
  <2>1. \A m \in Nodes : nodes'[m].committed + withdrawals[m].amount <= nodes[m].deposited
    <3> HIDE DEF n, u
    <3> QED BY <1>2, <1>5, <1>9
  <2> QED BY <1>1, <1>3, <1>4, <1>5, <2>1, CommitmentsMove
<1>11. RouterInv'
  BY <1>1, <1>3, <1>4, <1>10 DEF RouterInv, RouterTypeOK, RouterSlots, VaultInv, NoEscrow
<1>12. CapitalAgrees(exits, fs)'
  <2>1. \A m \in Nodes :
           /\ Bids(exits, m, LiveStatuses)[id] = IF m = n THEN u ELSE 0
           /\ Bids(exits, m, {"Settled"})[id] = 0
           /\ Bids(exits', m, LiveStatuses)[id] = 0
           /\ Bids(exits', m, {"Settled"})[id] = 0
    BY <1>1, <1>6, <1>8 DEF Bids, LiveStatuses, Live
  <2>2. exits' \in [ExitIds -> ExitStates]
    BY <1>8 DEF AuctionTypeOK
  <2>3. \A m \in Nodes :
           /\ nodes'[m].committed - nodes[m].committed =
                 Bids(exits', m, LiveStatuses)[id] - Bids(exits, m, LiveStatuses)[id]
           /\ nodes'[m].filled - nodes[m].filled =
                 Bids(exits', m, {"Settled"})[id] - Bids(exits, m, {"Settled"})[id]
    <3> HIDE DEF n, u
    <3> QED BY <1>2, <1>5, <1>9, <2>1
  <2> QED BY <1>5, <1>8, <2>2, <2>3, BidsBackedMove
<1>13. ~Live(fs[id])
  BY <1>1, SharedExit
<1>14. EscrowsAgree(exits, fs)'
  BY <1>4, <1>6, <1>8, <1>13 DEF SharedInv, EscrowsAgree, EscrowOf, Live
<1>15. LinesAgree(exits, fs)'
  BY <1>6, <1>7, <1>8, <1>13 DEF SharedInv, LinesAgree, Waits, Live
<1> QED BY <1>7, <1>8, <1>11, <1>12, <1>14, <1>15 DEF SharedInv

\* A window that ends without a sale: the exit joins the line of its asset.
LEMMA CloseKeepsInv ==
  ASSUME NEW fs, SharedInv(fs), NEW id \in ExitIds, close(id)
  PROVE  SharedInv(fs)'
<1> DEFINE ex == exits[id]
           e == [ex EXCEPT !.status = "Queued"]
<1>1. ex.status = "Open" /\ Live(ex)
  BY DEF close, Live
<1>2. CASE fill(id)
  BY <1>1, <1>2, FillKeepsInv
<1>3. CASE /\ enqueue(AuctionAddr, ex.asset, id)
           /\ exits' = [exits EXCEPT ![id] = e]
           /\ UNCHANGED <<routerVars, queueConfig, auctionConfig, next_id>>
  <2>1. id < next_id /\ ex \in ExitStates /\ ex.seller \in Sellers /\ ex.asset \in Assets
    BY <1>1, SharedExit
  <2>2. /\ e \in ExitStates /\ e.status = "Queued" /\ e.seller = ex.seller
        /\ e.asset = ex.asset /\ e.amount = ex.amount
        /\ e.best_node = ex.best_node /\ e.best_usdc = ex.best_usdc
    BY <2>1 DEF ExitStates
  <2>3. /\ QueueInv'
        /\ \A a \in Assets, x \in ExitIds :
              InLine(queues'[a], x) <=> (InLine(queues[a], x) \/ (x = id /\ a = ex.asset))
    BY <1>3, <2>1, JoinLineEffect DEF SharedInv
  <2> HIDE DEF e
  <2>4. /\ AuctionTypeOK' /\ AuctionSlots' /\ exits'[id] = e
        /\ \A x \in ExitIds : x # id => exits'[x] = exits[x]
    BY <1>3, <2>1, <2>2, ExitWritten
  <2>5. RouterInv' /\ UNCHANGED <<nodes, escrows>>
    BY <1>3, RouterInvStep DEF SharedInv, routerVars, vaultVars, vaultStorage, routerStorage
  <2>6. CapitalAgrees(exits, fs)'
    <3>1. \A m \in Nodes :
             /\ Bids(exits', m, LiveStatuses)[id] = Bids(exits, m, LiveStatuses)[id]
             /\ Bids(exits', m, {"Settled"})[id] = Bids(exits, m, {"Settled"})[id]
      BY <1>1, <2>2, <2>4 DEF Bids, LiveStatuses
    <3>2. nodes \in [Nodes -> NodeStates] /\ exits \in [ExitIds -> ExitStates]
      BY DEF SharedInv, AuctionTypeOK, RouterInv, VaultInv, VaultTypeOK
    <3>3. \A m \in Nodes : /\ nodes[m].committed \in Nat /\ nodes[m].filled \in Nat
                           /\ Bids(exits, m, LiveStatuses)[id] \in Nat
                           /\ Bids(exits, m, {"Settled"})[id] \in Nat
      BY <3>2, BidsType DEF NodeStates
    <3>4. exits' \in [ExitIds -> ExitStates]
      BY <2>4 DEF AuctionTypeOK
    <3>5. \A m \in Nodes :
             /\ nodes'[m].committed - nodes[m].committed =
                   Bids(exits', m, LiveStatuses)[id] - Bids(exits, m, LiveStatuses)[id]
             /\ nodes'[m].filled - nodes[m].filled =
                   Bids(exits', m, {"Settled"})[id] - Bids(exits, m, {"Settled"})[id]
      BY <2>5, <3>1, <3>3
    <3> QED BY <2>4, <2>5, <3>2, <3>4, <3>5, BidsBackedMove
  <2>7. EscrowsAgree(exits, fs)'
    BY <1>1, <2>2, <2>4, <2>5 DEF SharedInv, EscrowsAgree, EscrowOf, Live
  <2>8. LinesAgree(exits, fs)'
    BY <1>1, <2>2, <2>3, <2>4 DEF SharedInv, LinesAgree, Waits
  <2> QED BY <2>3, <2>4, <2>5, <2>6, <2>7, <2>8 DEF SharedInv
<1> QED BY <1>2, <1>3 DEF close

\* A bid locks its amount before it frees the one it beats.  It fits into the bidder's
\* free balance on top of its own standing bid, so it fits when that one is gone.
LEMMA BidKeepsInv ==
  ASSUME NEW fs, SharedInv(fs), NEW n \in Nodes, NEW id \in ExitIds, NEW u \in Int, place_bid(n, id, u)
  PROVE  SharedInv(fs)'
<1> DEFINE ex == exits[id]
           best == ex.best_node
           beaten == ex.best_usdc
           locked == LockCapital(nodes, n, u)
           exposed == AddExposure(appetites, n, ex.asset, u)
           e == [ex EXCEPT !.best_node = n, !.best_usdc = u]
<1>1. /\ Live(ex) /\ u > beaten /\ u > 0
      /\ Free(n) >= u
      /\ release_best(locked, exposed, ex)
      /\ exits' = [exits EXCEPT ![id] = e]
      /\ UNCHANGED <<vaultConfig, withdrawals, balance, now, routerStorage,
                     queueVars, auctionConfig, next_id>>
  BY DEF place_bid, Beats, CommitAllowed
<1>2. /\ id < next_id /\ ex \in ExitStates /\ ex.seller \in Sellers /\ ex.asset \in Assets
      /\ beaten \in Nat
  BY <1>1, SharedExit
<1>3. /\ RouterInv /\ VaultInv /\ nodes \in [Nodes -> NodeStates]
      /\ appetites \in [Nodes -> [Assets -> AppetiteStates]]
      /\ withdrawals \in [Nodes -> WithdrawRequests]
      /\ balance \in [Tokens -> [Holders -> Nat]]
  BY DEF SharedInv, RouterInv, VaultInv, VaultTypeOK, TokenTypeOK
<1>4. \A m \in Nodes : /\ nodes[m].committed \in Nat /\ nodes[m].filled \in Nat
                       /\ nodes[m].deposited \in Nat /\ withdrawals[m].amount \in Nat
                       /\ nodes[m].committed + withdrawals[m].amount <= nodes[m].deposited
  BY <1>3 DEF NodeStates, WithdrawRequests, VaultInv, Covered
<1>5. u \in Nat /\ nodes[n].committed + u + withdrawals[n].amount <= nodes[n].deposited
  BY <1>1, <1>4 DEF Free, reserved
<1>6. /\ locked \in [Nodes -> NodeStates]
      /\ locked[n].committed = nodes[n].committed + u
      /\ \A m \in Nodes : /\ m # n => locked[m] = nodes[m]
                          /\ locked[m].deposited = nodes[m].deposited
                          /\ locked[m].filled = nodes[m].filled
                          /\ locked[m].stored = nodes[m].stored
  <2>1. u \in Int /\ nodes[n].committed + u \in Nat
    BY <1>4, <1>5
  <2> QED BY <1>3, <2>1, LockEffect
<1>7. exposed \in [Nodes -> [Assets -> AppetiteStates]]
  <2>1. appetites[n][ex.asset].exposure + u \in Nat
    BY <1>2, <1>3, <1>5 DEF AppetiteStates
  <2> QED BY <1>2, <1>3, <1>5, <2>1, ExposureType
<1> HIDE DEF locked, exposed
<1>8. /\ nodes' \in [Nodes -> NodeStates]
      /\ appetites' \in [Nodes -> [Assets -> AppetiteStates]]
      /\ \A m \in Nodes :
            /\ nodes'[m].committed =
                  IF best = m THEN locked[m].committed - beaten ELSE locked[m].committed
            /\ nodes'[m].deposited = locked[m].deposited
            /\ nodes'[m].filled = locked[m].filled
            /\ nodes'[m].stored = locked[m].stored
  BY <1>1, <1>2, <1>6, <1>7, ReleaseEffect
<1>9. \A m \in Nodes : nodes'[m].committed - nodes[m].committed =
                          (IF m = n THEN u ELSE 0) - (IF m = best THEN beaten ELSE 0)
  <2> HIDE DEF best, beaten
  <2> QED BY <1>2, <1>4, <1>5, <1>6, <1>8
<1>10. VaultInv'
  <2>1. \A m \in Nodes : nodes'[m].committed + withdrawals[m].amount <= nodes[m].deposited
    <3>1. \A m \in Nodes : nodes'[m].committed \in Nat
      BY <1>8 DEF NodeStates
    <3> HIDE DEF best, beaten
    <3> QED BY <1>2, <1>4, <1>5, <1>9, <3>1
  <2>2. balance' \in [Tokens -> [Holders -> Nat]]
        /\ balance'[Usdc][VaultAddr] >= balance[Usdc][VaultAddr]
    BY <1>1, <1>3, TokenAssumption, VaultAssumption
  <2> QED BY <1>1, <1>3, <1>6, <1>8, <2>1, <2>2, CommitmentsMove
<1>11. RouterInv'
  <2>1. UNCHANGED <<routerConfig, escrows, balance>>
    BY <1>1 DEF routerStorage
  <2>2. EscrowBacked'
    BY <1>3, <2>1 DEF RouterInv, EscrowBacked, EscrowedFor
  <2> QED BY <1>3, <1>10, <2>1, <2>2 DEF RouterInv, RouterTypeOK, RouterSlots, VaultInv
<1>12. /\ e \in ExitStates /\ e.status = ex.status /\ e.seller = ex.seller
       /\ e.asset = ex.asset /\ e.amount = ex.amount /\ e.best_node = n /\ e.best_usdc = u
  BY <1>2, <1>5 DEF ExitStates
<1> HIDE DEF e
<1>13. /\ AuctionTypeOK' /\ AuctionSlots' /\ exits'[id] = e
       /\ \A x \in ExitIds : x # id => exits'[x] = exits[x]
  BY <1>1, <1>2, <1>12, ExitWritten DEF Live
<1>14. UNCHANGED <<queueConfig, queues, escrows>>
  BY <1>1 DEF queueVars, routerStorage
<1>15. QueueInv'
  BY <1>14 DEF SharedInv, QueueInv, QueueTypeOK, LineWellFormed
<1>16. CapitalAgrees(exits, fs)'
  <2>1. \A m \in Nodes :
           /\ Bids(exits, m, LiveStatuses)[id] = IF m = best THEN beaten ELSE 0
           /\ Bids(exits, m, {"Settled"})[id] = 0
           /\ Bids(exits', m, LiveStatuses)[id] = IF m = n THEN u ELSE 0
           /\ Bids(exits', m, {"Settled"})[id] = 0
    BY <1>1, <1>12, <1>13 DEF Bids, LiveStatuses, Live
  <2>2. exits' \in [ExitIds -> ExitStates]
    BY <1>13 DEF AuctionTypeOK
  <2>3. \A m \in Nodes :
           /\ nodes'[m].committed - nodes[m].committed =
                 Bids(exits', m, LiveStatuses)[id] - Bids(exits, m, LiveStatuses)[id]
           /\ nodes'[m].filled - nodes[m].filled =
                 Bids(exits', m, {"Settled"})[id] - Bids(exits, m, {"Settled"})[id]
    <3> HIDE DEF best, beaten
    <3> QED BY <1>4, <1>6, <1>8, <1>9, <2>1
  <2> QED BY <1>8, <1>13, <2>2, <2>3, BidsBackedMove
<1>17. EscrowsAgree(exits, fs)'
  BY <1>12, <1>13, <1>14 DEF SharedInv, EscrowsAgree, EscrowOf, Live
<1>18. LinesAgree(exits, fs)'
  BY <1>12, <1>13, <1>14 DEF SharedInv, LinesAgree, Waits
<1> QED BY <1>11, <1>13, <1>15, <1>16, <1>17, <1>18 DEF SharedInv

-----------------------------------------------------------------------------
(* The theorems.                                                           *)

\* Nothing has been opened, deposited or queued, whatever is wired.
LEMMA NothingYet ==
  ASSUME RouterInv, auctionConfig \in AuctionConfigs, queueConfig \in QueueConfigs,
         queues = [a \in Assets |-> <<>>], escrows = [id \in ExitIds |-> NoEscrow],
         nodes = [n \in Nodes |-> NoNode], NothingOpened
  PROVE  LayerInv
<1>1. QueueInv
  BY QueueAssumption DEF QueueInv, QueueTypeOK, LineWellFormed
<1>2. NoExit \in ExitStates
  BY DEF NoExit, ExitStates
<1>3. AuctionTypeOK
  BY <1>2, AddressAssumption DEF NothingOpened, AuctionTypeOK
<1>4. AuctionSlots
  BY DEF NothingOpened, AuctionSlots, ExitIds
<1>5. ASSUME NEW n \in Nodes, NEW S \in {LiveStatuses, {"Settled"}}
      PROVE  Total(Bids(exits, n, S)) = 0
  <2>1. Bids(exits, n, S) \in [ExitIds -> Nat]
    BY <1>3, BidsType DEF AuctionTypeOK
  <2>2. \A id \in ExitIds : Bids(exits, n, S)[id] = 0
    BY DEF Bids, NothingOpened, NoExit, LiveStatuses
  <2> QED BY <2>1, <2>2, TotalZero
<1>6. BidsBacked
  BY <1>5, BackedByBids DEF NoNode
<1>7. EscrowMatches /\ QueueMatches
  BY DEF EscrowMatches, QueueMatches, NothingOpened, NoExit, Live, InLine
<1> QED BY <1>1, <1>3, <1>4, <1>6, <1>7 DEF LayerInv

\* LayerInv holds of contracts that are deployed and not initialised.
LEMMA LayerInvInit == LayerInit => LayerInv
<1> SUFFICES ASSUME LayerInit PROVE LayerInv
  OBVIOUS
<1>1. RouterInv
  BY RouterInvInit DEF LayerInit
<1>2. auctionConfig \in AuctionConfigs /\ queueConfig \in QueueConfigs
  BY DEF LayerInit, QueueInit, NoQueueConfig, QueueConfigs, NoAuctionConfig, AuctionConfigs
<1> QED BY <1>1, <1>2, NothingYet DEF LayerInit, RouterInit, VaultInit, EmptyVault, QueueInit

\* LayerInv holds where the deployment script ends.
LEMMA LayerInvWired == WiredInit => LayerInv
<1> SUFFICES ASSUME WiredInit PROVE LayerInv
  OBVIOUS
<1>1. /\ vaultConfig \in VaultConfigs /\ routerConfig \in RouterConfigs
      /\ queueConfig \in QueueConfigs /\ auctionConfig \in AuctionConfigs
      /\ routerConfig.treasury \in Treasuries
  BY AuctionAssumption, RouterAssumption, VaultAssumption, AddressAssumption
     DEF WiredInit, VaultConfigs, RouterConfigs, QueueConfigs, AuctionConfigs
<1>2. VaultInv
  <2> USE DEF WiredInit, EmptyVault, TokenInit
  <2>1. VaultTypeOK
    BY <1>1, TokenAssumption
       DEF VaultTypeOK, TokenTypeOK, NoNode, NodeStates,
           NoAppetite, AppetiteStates, NoWithdrawal, WithdrawRequests
  <2>2. Covered /\ SlotsConsistent
    BY DEF Covered, SlotsConsistent, NoNode, NoWithdrawal
  <2>3. Deposits(nodes) \in [Nodes -> Nat] /\ \A n \in Nodes : Deposits(nodes)[n] = 0
    BY DEF Deposits, NoNode
  <2>4. Total(Deposits(nodes)) = 0
    BY <2>3, TotalZero
  <2>5. balance[Usdc][VaultAddr] \in Nat
    BY <2>1, TokenAssumption, VaultAssumption DEF VaultTypeOK, TokenTypeOK
  <2>6. VaultSolvent
    BY <2>4, <2>5 DEF VaultSolvent, Deposits
  <2> QED BY <2>1, <2>2, <2>6 DEF VaultInv
<1>3. RouterInv
  <2>1. escrows = [id \in ExitIds |-> NoEscrow]
    BY DEF WiredInit
  <2>2. RouterTypeOK /\ RouterSlots
    BY <1>1, <1>2, <2>1 DEF RouterTypeOK, RouterSlots, VaultInv, NoEscrow, EscrowStates
  <2>3. ASSUME NEW a \in Assets
        PROVE  balance[a][RouterAddr] >= Total(Held(escrows, a))
    <3>1. Held(escrows, a) \in [ExitIds -> Nat] /\ \A id \in ExitIds : Held(escrows, a)[id] = 0
      BY <2>1 DEF Held, NoEscrow
    <3>2. Total(Held(escrows, a)) = 0
      BY <3>1, TotalZero
    <3>3. balance[a][RouterAddr] \in Nat
      BY <1>2, RouterAssumption, TokenAssumption DEF VaultInv, VaultTypeOK, TokenTypeOK
    <3> QED BY <3>2, <3>3
  <2> QED BY <1>2, <2>2, <2>3, BackedByHeld DEF RouterInv
<1> QED BY <1>1, <1>3, NothingYet DEF WiredInit, EmptyVault

\* The calls that the auction makes itself.
LEMMA CallsKeepInv ==
  ASSUME NEW fs, SharedInv(fs),
         \/ SellerCalls
         \/ \E n \in Nodes, id \in ExitIds, amt \in BidAmounts : place_bid(n, id, amt)
         \/ \E id \in ExitIds : close(id)
  PROVE  SharedInv(fs)'
<1>1. CASE SellerCalls
  <2>1. CASE \E p \in Sellers, a \in Assets, amt \in SaleAmounts, r \in References,
                m \in Reserves, d \in Durations : open_exit(p, a, amt, r, m, d)
    <3>1. /\ SaleAmounts \subseteq Int /\ References \subseteq Int
          /\ Reserves \subseteq Int /\ Durations \subseteq Nat
      BY RouterAssumption, AuctionAssumption
    <3> QED BY <2>1, <3>1, OpenKeepsInv
  <2>2. CASE \E id \in ExitIds : accept_bid(id) \/ cancel(id)
    BY <2>2, FillKeepsInv, CancelKeepsInv DEF accept_bid
  <2> QED BY <1>1, <2>1, <2>2 DEF SellerCalls
<1>2. CASE \E n \in Nodes, id \in ExitIds, amt \in BidAmounts : place_bid(n, id, amt)
  <2>1. BidAmounts \subseteq Int
    BY VaultAssumption
  <2> QED BY <1>2, <2>1, BidKeepsInv
<1>3. CASE \E id \in ExitIds : close(id)
  BY <1>3, CloseKeepsInv
<1> QED BY <1>1, <1>2, <1>3

\* Every transaction keeps LayerInv.
LEMMA LayerInvStep == LayerInv /\ [LayerNext]_layerVars => LayerInv'
<1> SUFFICES ASSUME SharedInv(NoExits), [LayerNext]_layerVars PROVE SharedInv(NoExits)'
  <2>1. LayerInv <=> SharedInv(NoExits)
    BY LayerIsShared
  <2>2. (LayerInv <=> SharedInv(NoExits))'
    BY LayerIsShared, PTL
  <2> QED BY <2>1, <2>2
<1>1. CASE LayerTick
  BY <1>1, ElsewhereKeepsInv
<1>2. CASE AdminCalls
  BY <1>2, ElsewhereKeepsInv, ConfigKeepsInv DEF AdminCalls
<1>3. CASE NodeCalls /\ UNCHANGED <<routerStorage, queueVars, auctionStorage>>
  BY <1>3, ElsewhereKeepsInv
<1>4. CASE \/ SellerCalls
           \/ \E n \in Nodes, id \in ExitIds, amt \in BidAmounts : place_bid(n, id, amt)
           \/ \E id \in ExitIds : close(id)
  BY <1>4, CallsKeepInv
<1>5. CASE UNCHANGED layerVars
  BY <1>5, ConfigKeepsInv
<1> QED BY <1>1, <1>2, <1>3, <1>4, <1>5 DEF LayerNext

\* LayerInv holds in every reachable state, from an uninitialised layer and from a
\* wired one.
LEMMA LayerInvariance == (LayerSpec => []LayerInv) /\ (WiredSpec => []LayerInv)
<1>1. LayerSpec => []LayerInv
  BY LayerInvInit, LayerInvStep, PTL DEF LayerSpec
<1>2. WiredSpec => []LayerInv
  BY LayerInvWired, LayerInvStep, PTL DEF WiredSpec
<1> QED BY <1>1, <1>2

\* From contracts that are deployed and not wired, in whatever order they are then wired,
\* and from wired ones: no call of any party takes the storage of the four contracts out
\* of its types.
THEOREM LayerTypeCorrect == (LayerSpec => []LayerTypeOK) /\ (WiredSpec => []LayerTypeOK)
<1>1. LayerInv => LayerTypeOK
  BY DEF LayerInv, LayerTypeOK, RouterInv, QueueInv, AuctionTypeOK
<1> QED BY <1>1, LayerInvariance, PTL

\* For any number of nodes and exits, the vault's commitments are the standing bids of
\* the live exits and its fills the bids that settled: bidding over oneself, being
\* outbid, closing, cancelling from the line and settling keep the two books together,
\* and so does wiring the contracts in any order.
THEOREM BidsStayBacked == (LayerSpec => []BidsBacked) /\ (WiredSpec => []BidsBacked)
<1>1. LayerInv => BidsBacked
  BY DEF LayerInv
<1> QED BY <1>1, LayerInvariance, PTL

\* The escrows of the router are those of the live exits, no more and no less.
THEOREM EscrowsMatchExits == (LayerSpec => []EscrowMatches) /\ (WiredSpec => []EscrowMatches)
<1>1. LayerInv => EscrowMatches
  BY DEF LayerInv
<1> QED BY <1>1, LayerInvariance, PTL

\* The lines of the queue hold exactly the exits that the auction has queued.
THEOREM LinesMatchExits == (LayerSpec => []QueueMatches) /\ (WiredSpec => []QueueMatches)
<1>1. LayerInv => QueueMatches
  BY DEF LayerInv
<1> QED BY <1>1, LayerInvariance, PTL

\* What a fill does to the exit it settles and to the records of the nodes.
LEMMA FillTakes ==
  ASSUME LayerInv, NEW id \in ExitIds, Live(exits[id]), fill(id)
  PROVE  /\ exits[id].best_node \in Nodes /\ exits[id].best_usdc \in Nat
         /\ nodes'[exits[id].best_node].deposited =
               nodes[exits[id].best_node].deposited - exits[id].best_usdc
         /\ nodes'[exits[id].best_node].filled =
               nodes[exits[id].best_node].filled + exits[id].best_usdc
         /\ \A m \in Nodes : m # exits[id].best_node => nodes'[m] = nodes[m]
         /\ exits'[id] = [exits[id] EXCEPT !.status = "Settled"]
         /\ \A x \in ExitIds : x # id => exits'[x] = exits[x]
<1>1. /\ exits[id].best_node \in Nodes \cup {NoAddr} /\ exits[id].best_usdc \in Nat
      /\ exits[id].amount \in Nat
  BY LiveExit
<1>2. /\ exits[id].best_node # NoAddr
      /\ settle(AuctionAddr, id, exits[id].best_node, exits[id].amount, exits[id].best_usdc)
      /\ exits' = [exits EXCEPT ![id] = [exits[id] EXCEPT !.status = "Settled"]]
  BY DEF fill
<1>3. RouterInv /\ exits \in [ExitIds -> ExitStates]
  BY DEF LayerInv, AuctionTypeOK
<1>4. exits[id].best_node \in Nodes
  BY <1>1, <1>2
<1>5. \A n \in Nodes, k \in Int, u \in Int :
         settle(AuctionAddr, id, n, k, u) =>
            /\ nodes'[n].deposited = nodes[n].deposited - u
            /\ nodes'[n].filled = nodes[n].filled + u
            /\ \A m \in Nodes : m # n => nodes'[m] = nodes[m]
  BY <1>3, SettlePays
<1>6. /\ nodes'[exits[id].best_node].deposited =
            nodes[exits[id].best_node].deposited - exits[id].best_usdc
      /\ nodes'[exits[id].best_node].filled =
            nodes[exits[id].best_node].filled + exits[id].best_usdc
      /\ \A m \in Nodes : m # exits[id].best_node => nodes'[m] = nodes[m]
  BY <1>1, <1>2, <1>4, <1>5
<1>7. /\ exits'[id] = [exits[id] EXCEPT !.status = "Settled"]
      /\ \A x \in ExitIds : x # id => exits'[x] = exits[x]
  BY <1>2, <1>3
<1> QED BY <1>1, <1>4, <1>6, <1>7

\* Every step of the layer, as the deposits see it: nothing is taken, a withdrawal that
\* is due is paid, or a fill pays.
LEMMA DepositsStep ==
  ASSUME LayerInv, [LayerNext]_layerVars
  PROVE  \/ \A n \in Nodes : nodes'[n].deposited >= nodes[n].deposited
         \/ \E n \in Nodes : execute_withdrawal(n)
         \/ \E id \in ExitIds : Live(exits[id]) /\ fill(id)
<1>1. nodes \in [Nodes -> NodeStates] /\ appetites \in [Nodes -> [Assets -> AppetiteStates]]
  BY DEF LayerInv, RouterInv, VaultInv, VaultTypeOK
<1>2. \A n \in Nodes : nodes[n].deposited \in Nat
  BY <1>1 DEF NodeStates
<1>3. CASE UNCHANGED nodes
  BY <1>2, <1>3
<1>4. CASE LayerTick \/ AdminCalls
  <2>1. UNCHANGED nodes
    BY <1>4 DEF LayerTick, Tick, AdminCalls, vaultStorage, vaultVars, routerVars,
           VaultAdminCalls, vault_initialize, vault_set_auction, vault_set_router,
           vault_set_admin, set_max_single_fill_bps,
           RouterAdminCalls, router_initialize, router_set_auction, router_set_admin,
           set_treasury, set_protocol_fee_bps, auction_initialize, auction_set_admin
  <2> QED BY <1>2, <2>1
<1>5. CASE NodeCalls
  <2>1. \/ UNCHANGED nodes
        \/ \E n \in Nodes, amt \in DepositAmounts : deposit(n, amt)
        \/ \E n \in Nodes : execute_withdrawal(n)
    BY <1>5 DEF NodeCalls, request_withdrawal, cancel_withdrawal, set_appetite, reduce_exposure
  <2>2. CASE \E n \in Nodes, amt \in DepositAmounts : deposit(n, amt)
    <3>1. PICK n \in Nodes, amt \in DepositAmounts : deposit(n, amt)
      BY <2>2
    <3>2. amt \in Nat
      BY <3>1, VaultAssumption DEF deposit
    <3>3. \A m \in Nodes : nodes'[m].deposited = IF m = n THEN nodes[m].deposited + amt
                                                 ELSE nodes[m].deposited
      BY <1>1, <3>1 DEF deposit, NodeStates
    <3> QED BY <1>2, <3>2, <3>3
  <2> QED BY <1>2, <2>1, <2>2
<1>6. CASE SellerCalls
  <2>1. CASE \E id \in ExitIds : cancel(id)
    <3>1. PICK id \in ExitIds : cancel(id)
      BY <2>1
    <3>2. Live(exits[id]) /\ release_best(nodes, appetites, exits[id])
      BY <3>1 DEF cancel
    <3>3. exits[id] \in ExitStates /\ exits[id].asset \in Assets
      BY <3>2, LiveExit
    <3>4. \A n \in Nodes : nodes'[n].deposited = nodes[n].deposited
      BY <1>1, <3>2, <3>3, ReleaseEffect
    <3> QED BY <1>2, <3>4
  <2>2. CASE \E id \in ExitIds : accept_bid(id)
    BY <2>2 DEF accept_bid
  <2>3. CASE \E p \in Sellers, a \in Assets, amt \in SaleAmounts, r \in References,
                m \in Reserves, d \in Durations : open_exit(p, a, amt, r, m, d)
    BY <1>3, <2>3 DEF open_exit, vaultStorage
  <2> QED BY <1>6, <2>1, <2>2, <2>3 DEF SellerCalls
<1>7. CASE \E n \in Nodes, id \in ExitIds, amt \in BidAmounts : place_bid(n, id, amt)
  <2>1. PICK n \in Nodes, id \in ExitIds, amt \in BidAmounts : place_bid(n, id, amt)
    BY <1>7
  <2> DEFINE ex == exits[id]
             locked == LockCapital(nodes, n, amt)
             exposed == AddExposure(appetites, n, ex.asset, amt)
  <2>2. Live(ex) /\ amt > 0 /\ release_best(locked, exposed, ex)
    BY <2>1 DEF place_bid, CommitAllowed
  <2>3. amt \in Nat
    BY <2>2, VaultAssumption
  <2>4. ex \in ExitStates /\ ex.asset \in Assets
    BY <2>2, LiveExit
  <2>5. /\ amt \in Int /\ nodes[n].committed + amt \in Nat
        /\ appetites[n][ex.asset].exposure + amt \in Nat
    BY <1>1, <2>3, <2>4 DEF NodeStates, AppetiteStates
  <2>6. /\ locked \in [Nodes -> NodeStates]
        /\ \A m \in Nodes : locked[m].deposited = nodes[m].deposited
    BY <1>1, <2>5, LockEffect
  <2>7. exposed \in [Nodes -> [Assets -> AppetiteStates]]
    BY <1>1, <2>4, <2>5, ExposureType
  <2> HIDE DEF locked, exposed
  <2>8. \A m \in Nodes : nodes'[m].deposited = nodes[m].deposited
    BY <2>2, <2>4, <2>6, <2>7, ReleaseEffect
  <2> QED BY <1>2, <2>8
<1>8. CASE \E id \in ExitIds : close(id)
  <2>1. PICK id \in ExitIds : close(id)
    BY <1>8
  <2>2. Live(exits[id])
    BY <2>1 DEF close, Live
  <2>3. CASE UNCHANGED routerVars
    BY <1>3, <2>3 DEF routerVars, vaultVars, vaultStorage
  <2>4. CASE fill(id)
    BY <2>2, <2>4
  <2> QED BY <2>1, <2>3, <2>4 DEF close
<1>9. CASE UNCHANGED layerVars
  BY <1>3, <1>9 DEF layerVars, routerVars, vaultVars, vaultStorage
<1> QED BY <1>4, <1>5, <1>6, <1>7, <1>8, <1>9 DEF LayerNext

\* For any number of nodes and exits, and in every order of withdrawals, bids, fills and
\* admin calls, a deposit shrinks only by a withdrawal of its owner that is due or by the
\* owner's bid that settles in that step.
THEOREM CapitalLeavesOnlyByConsent ==
  (LayerSpec => CapitalLeavesByConsent) /\ (WiredSpec => CapitalLeavesByConsent)
<1> DEFINE Consent ==
      \A n \in Nodes :
          LET out == nodes[n].deposited - nodes'[n].deposited IN
          out > 0 =>
            \/ /\ withdrawals[n].stored /\ withdrawals[n].amount = out
               /\ now >= withdrawals[n].unlock_at
            \/ \E id \in ExitIds :
                 /\ Live(exits[id]) /\ exits'[id].status = "Settled"
                 /\ exits[id].best_node = n /\ exits[id].best_usdc = out
<1>1. ASSUME LayerInv, LayerInv', [LayerNext]_layerVars
      PROVE  Consent
  <2>1. /\ nodes \in [Nodes -> NodeStates] /\ nodes' \in [Nodes -> NodeStates]
        /\ withdrawals \in [Nodes -> WithdrawRequests]
        /\ exits \in [ExitIds -> ExitStates]
    BY <1>1 DEF LayerInv, AuctionTypeOK, RouterInv, VaultInv, VaultTypeOK
  <2>2. \A n \in Nodes : /\ nodes[n].deposited \in Nat /\ nodes'[n].deposited \in Nat
                         /\ withdrawals[n].amount \in Nat
    BY <2>1 DEF NodeStates, WithdrawRequests
  <2> SUFFICES ASSUME NEW n \in Nodes, nodes[n].deposited - nodes'[n].deposited > 0
               PROVE  LET out == nodes[n].deposited - nodes'[n].deposited IN
                      \/ /\ withdrawals[n].stored /\ withdrawals[n].amount = out
                         /\ now >= withdrawals[n].unlock_at
                      \/ \E id \in ExitIds :
                           /\ Live(exits[id]) /\ exits'[id].status = "Settled"
                           /\ exits[id].best_node = n /\ exits[id].best_usdc = out
    BY Zenon
  <2>3. CASE \A m \in Nodes : nodes'[m].deposited >= nodes[m].deposited
    BY <2>2, <2>3
  <2>4. CASE \E m \in Nodes : execute_withdrawal(m)
    <3>1. PICK m \in Nodes : execute_withdrawal(m)
      BY <2>4
    <3>2. \A k \in Nodes : nodes'[k].deposited =
             IF k = m THEN nodes[k].deposited - withdrawals[k].amount ELSE nodes[k].deposited
      BY <2>1, <3>1 DEF execute_withdrawal, NodeStates
    <3>3. n = m /\ withdrawals[n].amount = nodes[n].deposited - nodes'[n].deposited
      BY <2>2, <3>2
    <3> QED BY <3>1, <3>3 DEF execute_withdrawal
  <2>5. CASE \E id \in ExitIds : Live(exits[id]) /\ fill(id)
    <3>1. PICK id \in ExitIds : Live(exits[id]) /\ fill(id)
      BY <2>5
    <3>2. /\ exits[id].best_node \in Nodes /\ exits[id].best_usdc \in Nat
          /\ nodes'[exits[id].best_node].deposited =
                nodes[exits[id].best_node].deposited - exits[id].best_usdc
          /\ \A m \in Nodes : m # exits[id].best_node => nodes'[m] = nodes[m]
          /\ exits'[id] = [exits[id] EXCEPT !.status = "Settled"]
      BY <1>1, <3>1, FillTakes
    <3>3. exits'[id].status = "Settled"
      BY <2>1, <3>2 DEF ExitStates
    <3>4. exits[id].best_node = n
      BY <2>2, <3>2
    <3>5. exits[id].best_usdc = nodes[n].deposited - nodes'[n].deposited
      BY <2>2, <3>2, <3>4
    <3> QED BY <3>1, <3>3, <3>4, <3>5
  <2> QED BY <1>1, <2>3, <2>4, <2>5, DepositsStep
<1>2. LayerInv /\ LayerInv' /\ [LayerNext]_layerVars => [Consent]_layerVars
  BY <1>1
<1>3. LayerSpec => CapitalLeavesByConsent
  BY <1>2, LayerInvariance, PTL DEF LayerSpec, CapitalLeavesByConsent
<1>4. WiredSpec => CapitalLeavesByConsent
  BY <1>2, LayerInvariance, PTL DEF WiredSpec, CapitalLeavesByConsent
<1> QED BY <1>3, <1>4

\* What one step may do to one exit.
Firm(ex, next) ==
    next # ex =>
        /\ ex.status \notin {"Settled", "Cancelled"}
        /\ \/ next.best_usdc > ex.best_usdc /\ next.status = ex.status
           \/ <<next.best_node, next.best_usdc>> = <<ex.best_node, ex.best_usdc>>
           \/ next.status = "Cancelled"

\* The step on one exit carries over to all of them when the others stay as they are.
LEMMA FirmAt ==
  ASSUME NEW es, NEW fs, NEW id \in ExitIds, Firm(es[id], fs[id]),
         \A x \in ExitIds : x # id => fs[x] = es[x]
  PROVE  \A x \in ExitIds : Firm(es[x], fs[x])
<1>1. \A x \in ExitIds : x # id => Firm(es[x], fs[x])
  BY DEF Firm
<1> QED BY <1>1

\* Every step treats every exit firmly.
LEMMA FirmStep ==
  ASSUME LayerInv, [LayerNext]_layerVars
  PROVE  \A id \in ExitIds : Firm(exits[id], exits'[id])
<1>1. exits \in [ExitIds -> ExitStates]
  BY DEF LayerInv, AuctionTypeOK
<1>2. CASE UNCHANGED exits
  BY <1>2 DEF Firm
<1>3. CASE LayerTick \/ AdminCalls
  BY <1>2, <1>3 DEF LayerTick, AdminCalls, auctionStorage, auction_initialize, auction_set_admin
<1>4. CASE NodeCalls /\ UNCHANGED <<routerStorage, queueVars, auctionStorage>>
  BY <1>2, <1>4 DEF auctionStorage
<1>5. ASSUME NEW id \in ExitIds, Live(exits[id]), fill(id)
      PROVE  \A x \in ExitIds : Firm(exits[x], exits'[x])
  <2>1. /\ exits'[id] = [exits[id] EXCEPT !.status = "Settled"]
        /\ \A x \in ExitIds : x # id => exits'[x] = exits[x]
    BY <1>5, FillTakes
  <2>2. Firm(exits[id], exits'[id])
    BY <1>1, <1>5, <2>1 DEF Firm, Live, ExitStates
  <2> QED BY <2>1, <2>2, FirmAt
<1>6. CASE SellerCalls
  <2>1. CASE \E id \in ExitIds : cancel(id)
    <3>1. PICK id \in ExitIds : cancel(id)
      BY <2>1
    <3>2. exits' = [exits EXCEPT ![id].status = "Cancelled",
                                 ![id].best_node = NoAddr, ![id].best_usdc = 0]
      BY <3>1 DEF cancel
    <3>3. /\ exits'[id].status = "Cancelled"
          /\ \A x \in ExitIds : x # id => exits'[x] = exits[x]
      BY <1>1, <3>2 DEF ExitStates
    <3>4. Firm(exits[id], exits'[id])
      BY <3>1, <3>3 DEF Firm, cancel, Live
    <3> QED BY <3>3, <3>4, FirmAt
  <2>2. CASE \E id \in ExitIds : accept_bid(id)
    BY <1>5, <2>2 DEF accept_bid
  <2>3. CASE \E p \in Sellers, a \in Assets, amt \in SaleAmounts, r \in References,
                m \in Reserves, d \in Durations : open_exit(p, a, amt, r, m, d)
    <3>1. PICK p \in Sellers, a \in Assets, amt \in SaleAmounts, r \in References,
                m \in Reserves, d \in Durations : open_exit(p, a, amt, r, m, d)
      BY <2>3
    <3>2. next_id \in ExitIds /\ exits[next_id] = NoExit
      BY <3>1, AddressAssumption
         DEF open_exit, LayerInv, AuctionTypeOK, AuctionSlots, ExitIds
    <3>3. /\ exits'[next_id].best_node = NoAddr /\ exits'[next_id].best_usdc = 0
          /\ \A x \in ExitIds : x # next_id => exits'[x] = exits[x]
      BY <1>1, <3>1, <3>2 DEF open_exit
    <3>4. Firm(exits[next_id], exits'[next_id])
      BY <3>2, <3>3 DEF Firm, NoExit
    <3> QED BY <3>2, <3>3, <3>4, FirmAt
  <2> QED BY <1>6, <2>1, <2>2, <2>3 DEF SellerCalls
<1>7. CASE \E n \in Nodes, id \in ExitIds, amt \in BidAmounts : place_bid(n, id, amt)
  <2>1. PICK n \in Nodes, id \in ExitIds, amt \in BidAmounts : place_bid(n, id, amt)
    BY <1>7
  <2>2. /\ Live(exits[id]) /\ amt > exits[id].best_usdc
        /\ exits' = [exits EXCEPT ![id].best_node = n, ![id].best_usdc = amt]
    BY <2>1 DEF place_bid, Beats
  <2>3. /\ exits'[id].best_usdc = amt /\ exits'[id].status = exits[id].status
        /\ \A x \in ExitIds : x # id => exits'[x] = exits[x]
    BY <1>1, <2>2 DEF ExitStates
  <2>4. Firm(exits[id], exits'[id])
    BY <2>2, <2>3 DEF Firm, Live
  <2> QED BY <2>3, <2>4, FirmAt
<1>8. CASE \E id \in ExitIds : close(id)
  <2>1. PICK id \in ExitIds : close(id)
    BY <1>8
  <2>2. exits[id].status = "Open" /\ Live(exits[id])
    BY <2>1 DEF close, Live
  <2>3. CASE fill(id)
    BY <1>5, <2>2, <2>3
  <2>4. CASE exits' = [exits EXCEPT ![id].status = "Queued"]
    <3>1. /\ exits'[id].best_node = exits[id].best_node /\ exits'[id].best_usdc = exits[id].best_usdc
          /\ \A x \in ExitIds : x # id => exits'[x] = exits[x]
      BY <1>1, <2>4 DEF ExitStates
    <3>2. Firm(exits[id], exits'[id])
      BY <2>2, <3>1 DEF Firm
    <3> QED BY <3>1, <3>2, FirmAt
  <2> QED BY <2>1, <2>3, <2>4 DEF close
<1>9. CASE UNCHANGED layerVars
  BY <1>2, <1>9 DEF layerVars, auctionStorage
<1> QED BY <1>3, <1>4, <1>6, <1>7, <1>8, <1>9 DEF LayerNext

\* While an exit is live its best bid is only ever replaced by a higher one, it settles at
\* the best bid, and an exit that has ended stays as it is: place_bid, close, accept_bid and
\* cancel in every order, for any number of bidders.
THEOREM QuotesStayFirm == (LayerSpec => QuotesAreFirm) /\ (WiredSpec => QuotesAreFirm)
<1> DEFINE AllFirm ==
      \A id \in ExitIds :
          LET ex == exits[id]  next == exits'[id] IN
          next # ex =>
            /\ ex.status \notin {"Settled", "Cancelled"}
            /\ \/ next.best_usdc > ex.best_usdc /\ next.status = ex.status
               \/ <<next.best_node, next.best_usdc>> = <<ex.best_node, ex.best_usdc>>
               \/ next.status = "Cancelled"
<1>1. LayerInv /\ [LayerNext]_layerVars => [AllFirm]_layerVars
  BY FirmStep DEF Firm
<1>2. LayerSpec => QuotesAreFirm
  BY <1>1, LayerInvariance, PTL DEF LayerSpec, QuotesAreFirm
<1>3. WiredSpec => QuotesAreFirm
  BY <1>1, LayerInvariance, PTL DEF WiredSpec, QuotesAreFirm
<1> QED BY <1>2, <1>3

-----------------------------------------------------------------------------
(* Payability.  An action is enabled exactly when its call returns Ok; the   *)
(* prover knows no ENABLED, so the guards of fill, cancel and close are      *)
(* collected here as conditions on the state, and each action is shown to be *)
(* its conditions and an assignment to every variable.                       *)

\* The payout of the net, the payout of the fee and the transfer of the tokens, each
\* against the state that the one before it left: what settle asks of node n paying u
\* for k tokens.
SettleAllowed(id, n, k, u) ==
    LET esc == escrows[id]
        fee == protocol_fee(u)
        net == u - fee
        sellerPaid == Transfer(balance, Usdc, VaultAddr, esc.seller, net)
        cashMoved == IF fee > 0
                     THEN Transfer(sellerPaid, Usdc, VaultAddr, routerConfig.treasury, fee)
                     ELSE sellerPaid
    IN  /\ RouterFromAuction(AuctionAddr) /\ FromRouter(RouterAddr)
        /\ k > 0 /\ u > 0
        /\ esc.stored /\ k <= esc.amount
        /\ PayOutAllowed(nodes, n, esc.asset, net)
        /\ CanTransfer(balance, Usdc, VaultAddr, net)
        /\ fee > 0 => /\ PayOutAllowed(PayFromCommitted(nodes, n, net), n, esc.asset, fee)
                      /\ CanTransfer(sellerPaid, Usdc, VaultAddr, fee)
        /\ CanTransfer(cashMoved, esc.asset, RouterAddr, k)

SettleEffect(id, n, k, u) ==
    LET esc == escrows[id]
        fee == protocol_fee(u)
        net == u - fee
        paid == PayFromCommitted(nodes, n, net)
        sellerPaid == Transfer(balance, Usdc, VaultAddr, esc.seller, net)
        cashMoved == IF fee > 0
                     THEN Transfer(sellerPaid, Usdc, VaultAddr, routerConfig.treasury, fee)
                     ELSE sellerPaid
    IN  /\ nodes' = IF fee > 0 THEN PayFromCommitted(paid, n, fee) ELSE paid
        /\ balance' = Transfer(cashMoved, esc.asset, RouterAddr, n, k)
        /\ escrows' = [escrows EXCEPT ![id] = AfterSale(@, k)]

LeaveAllowed(ex, id) ==
    ex.status = "Queued" => QueueFromAuction(AuctionAddr) /\ InLine(queues[ex.asset], id)

LeaveEffect(ex, id) ==
    queues' = IF ex.status = "Queued"
              THEN [queues EXCEPT ![ex.asset] = WithoutIndex(@, position_of(@, id))]
              ELSE queues

FillAllowed(id) ==
    LET ex == exits[id] IN
    /\ acceptable(ex) /\ AtHead(ex.asset, id) /\ auctionConfig.stored
    /\ SettleAllowed(id, ex.best_node, ex.amount, ex.best_usdc)
    /\ LeaveAllowed(ex, id)

CancelAllowed(id) ==
    LET ex == exits[id]  esc == escrows[id] IN
    /\ Live(ex) /\ auctionConfig.stored
    /\ ex.best_node # NoAddr =>
          /\ FromAuction(AuctionAddr)
          /\ ReleaseAllowed(nodes, appetites, ex.best_node, ex.asset, ex.best_usdc)
    /\ LeaveAllowed(ex, id)
    /\ RouterFromAuction(AuctionAddr) /\ esc.stored
    /\ CanTransfer(balance, esc.asset, RouterAddr, esc.amount)

CloseAllowed(id) ==
    LET ex == exits[id] IN
    /\ ex.status = "Open" /\ now > ex.closes_at
    /\ IF acceptable(ex) /\ AtHead(ex.asset, id)
       THEN FillAllowed(id)
       ELSE /\ auctionConfig.stored /\ QueueFromAuction(AuctionAddr)
            /\ Len(queues[ex.asset]) < MAX_QUEUE_DEPTH /\ ~InLine(queues[ex.asset], id)

\* fill is its conditions and an assignment to every variable of the layer.
LEMMA FillIsGuarded ==
  ASSUME NEW id \in ExitIds
  PROVE  fill(id) <=>
           LET ex == exits[id] IN
           /\ FillAllowed(id)
           /\ SettleEffect(id, ex.best_node, ex.amount, ex.best_usdc)
           /\ LeaveEffect(ex, id)
           /\ exits' = [exits EXCEPT ![id].status = "Settled"]
           /\ UNCHANGED <<vaultConfig, appetites, withdrawals, now, routerConfig,
                          queueConfig, auctionConfig, next_id>>
<1> DEFINE ex == exits[id]
<1>1. settle(AuctionAddr, id, ex.best_node, ex.amount, ex.best_usdc) <=>
         /\ SettleAllowed(id, ex.best_node, ex.amount, ex.best_usdc)
         /\ SettleEffect(id, ex.best_node, ex.amount, ex.best_usdc)
  BY DEF settle, SettleAllowed, SettleEffect
<1>2. LeaveLine(id) <=> LeaveAllowed(ex, id) /\ LeaveEffect(ex, id)
  BY DEF LeaveLine, dequeue, LeaveAllowed, LeaveEffect
<1> QED BY <1>1, <1>2 DEF fill, FillAllowed, acceptable

\* So is cancel.
LEMMA CancelIsGuarded ==
  ASSUME NEW id \in ExitIds
  PROVE  cancel(id) <=>
           LET ex == exits[id]  esc == escrows[id] IN
           /\ CancelAllowed(id)
           /\ nodes' = IF ex.best_node = NoAddr THEN nodes
                       ELSE LockCapital(nodes, ex.best_node, -ex.best_usdc)
           /\ appetites' = IF ex.best_node = NoAddr THEN appetites
                           ELSE AddExposure(appetites, ex.best_node, ex.asset, -ex.best_usdc)
           /\ LeaveEffect(ex, id)
           /\ escrows' = [escrows EXCEPT ![id] = NoEscrow]
           /\ balance' = Transfer(balance, esc.asset, RouterAddr, esc.seller, esc.amount)
           /\ exits' = [exits EXCEPT ![id].status = "Cancelled",
                                     ![id].best_node = NoAddr, ![id].best_usdc = 0]
           /\ UNCHANGED <<vaultConfig, withdrawals, now, routerConfig,
                          queueConfig, auctionConfig, next_id>>
<1>1. LeaveLine(id) <=> LeaveAllowed(exits[id], id) /\ LeaveEffect(exits[id], id)
  BY DEF LeaveLine, dequeue, LeaveAllowed, LeaveEffect
<1> QED BY <1>1 DEF cancel, CancelAllowed, release_best, refund

\* And close, which settles or joins the line.
LEMMA CloseIsGuarded ==
  ASSUME NEW id \in ExitIds
  PROVE  close(id) <=>
           LET ex == exits[id] IN
           /\ CloseAllowed(id)
           /\ IF acceptable(ex) /\ AtHead(ex.asset, id)
              THEN fill(id)
              ELSE /\ queues' = [queues EXCEPT ![ex.asset] = Append(@, id)]
                   /\ exits' = [exits EXCEPT ![id].status = "Queued"]
                   /\ UNCHANGED <<routerVars, queueConfig, auctionConfig, next_id>>
<1>1. fill(id) => FillAllowed(id)
  BY FillIsGuarded
<1> QED BY <1>1 DEF close, CloseAllowed, enqueue

\* A live exit sells something, and its standing bid, if it has one, offers something
\* and comes from a node that has declared terms for the asset.
Stands(ex, aps) ==
    Live(ex) =>
        /\ ex.amount > 0
        /\ ex.best_node # NoAddr =>
              ex.best_usdc > 0 /\ aps[ex.best_node][ex.asset].stored

\* What payability needs on top of LayerInv.
BidsStand == \A id \in ExitIds : Stands(exits[id], appetites)

\* The contracts that a call about the exit goes through are wired to one another.
ServedBy(ex) ==
    /\ auctionConfig.stored /\ RouterFromAuction(AuctionAddr)
    /\ ex.best_node # NoAddr => FromAuction(AuctionAddr)
    /\ ex.status = "Queued" => QueueFromAuction(AuctionAddr)

\* A change of one exposure declares and deletes no terms.
LEMMA ExposureKeepsTerms ==
  ASSUME NEW aps \in [Nodes -> [Assets -> AppetiteStates]],
         NEW m \in Nodes, NEW b \in Assets, NEW k \in Int, NEW n \in Nodes, NEW a \in Assets
  PROVE  AddExposure(aps, m, b, k)[n][a].stored <=> aps[n][a].stored
<1> DEFINE ap == aps[m][b]
           more == [ap EXCEPT !.exposure = @ + k]
           row == [aps[m] EXCEPT ![b] = more]
<1>1. AddExposure(aps, m, b, k) = [aps EXCEPT ![m] = row]
  BY DEF AddExposure
<1>2. ap \in AppetiteStates
  OBVIOUS
<1>3. more.stored <=> ap.stored
  BY <1>2 DEF AppetiteStates
<1> HIDE DEF more
<1>4. \A c \in Assets : row[c].stored <=> aps[m][c].stored
  BY <1>3
<1> HIDE DEF row
<1>5. AddExposure(aps, m, b, k)[n] = IF n = m THEN row ELSE aps[n]
  BY <1>1
<1> QED BY <1>4, <1>5

\* Terms that were declared once stay declared: nothing deletes a node's appetite.
LEMMA TermsStay ==
  ASSUME LayerInv, [LayerNext]_layerVars, NEW n \in Nodes, NEW a \in Assets,
         appetites[n][a].stored
  PROVE  appetites'[n][a].stored
<1>1. appetites \in [Nodes -> [Assets -> AppetiteStates]]
  BY DEF LayerInv, RouterInv, VaultInv, VaultTypeOK
<1>2. CASE UNCHANGED appetites
  BY <1>2
<1>3. ASSUME NEW aps \in [Nodes -> [Assets -> AppetiteStates]], aps[n][a].stored,
             NEW ns, NEW ex \in ExitStates, ex.asset \in Assets, release_best(ns, aps, ex)
      PROVE  appetites'[n][a].stored
  <2>1. CASE ex.best_node = NoAddr
    BY <1>3, <2>1 DEF release_best
  <2>2. CASE ex.best_node # NoAddr
    <3>1. ex.best_node \in Nodes
      BY <2>2 DEF ExitStates
    <3>2. appetites' = AddExposure(aps, ex.best_node, ex.asset, -ex.best_usdc)
      BY <1>3, <2>2 DEF release_best
    <3>3. -ex.best_usdc \in Int
      BY DEF ExitStates
    <3> QED BY <1>3, <3>1, <3>2, <3>3, ExposureKeepsTerms
  <2> QED BY <2>1, <2>2
<1>4. CASE LayerTick \/ AdminCalls
  BY <1>2, <1>4 DEF LayerTick, Tick, AdminCalls, vaultStorage, vaultVars, routerVars,
         VaultAdminCalls, vault_initialize, vault_set_auction, vault_set_router,
         vault_set_admin, set_max_single_fill_bps,
         RouterAdminCalls, router_initialize, router_set_auction, router_set_admin,
         set_treasury, set_protocol_fee_bps, auction_initialize, auction_set_admin
<1>5. CASE NodeCalls
  <2>1. \/ UNCHANGED appetites
        \/ \E m \in Nodes, b \in Assets, c \in Ceilings, d \in Discounts, on \in BOOLEAN :
              set_appetite(m, b, c, d, on)
        \/ \E m \in Nodes, b \in Assets, amt \in ReduceAmounts : reduce_exposure(m, b, amt)
    BY <1>5 DEF NodeCalls, deposit, request_withdrawal, cancel_withdrawal, execute_withdrawal
  <2>2. ASSUME NEW m \in Nodes, NEW b \in Assets, NEW c \in Ceilings, NEW d \in Discounts,
               NEW on \in BOOLEAN, set_appetite(m, b, c, d, on)
        PROVE  appetites'[n][a].stored
    BY <1>1, <2>2 DEF set_appetite, AppetiteStates
  <2>3. ASSUME NEW m \in Nodes, NEW b \in Assets, NEW amt \in ReduceAmounts,
               reduce_exposure(m, b, amt)
        PROVE  appetites'[n][a].stored
    BY <1>1, <2>3 DEF reduce_exposure, AppetiteStates
  <2> QED BY <1>2, <2>1, <2>2, <2>3
<1>6. ASSUME NEW id \in ExitIds, fill(id) PROVE appetites'[n][a].stored
  BY <1>2, <1>6 DEF fill
<1>7. CASE SellerCalls
  <2>1. ASSUME NEW id \in ExitIds, cancel(id) PROVE appetites'[n][a].stored
    <3>1. Live(exits[id]) /\ release_best(nodes, appetites, exits[id])
      BY <2>1 DEF cancel
    <3>2. exits[id] \in ExitStates /\ exits[id].asset \in Assets
      BY <3>1, LiveExit
    <3> QED BY <1>1, <1>3, <3>1, <3>2
  <2>2. ASSUME NEW id \in ExitIds, accept_bid(id) PROVE appetites'[n][a].stored
    BY <1>6, <2>2 DEF accept_bid
  <2>3. CASE \E p \in Sellers, b \in Assets, amt \in SaleAmounts, r \in References,
                m \in Reserves, d \in Durations : open_exit(p, b, amt, r, m, d)
    BY <1>2, <2>3 DEF open_exit, vaultStorage
  <2> QED BY <1>7, <2>1, <2>2, <2>3 DEF SellerCalls
<1>8. CASE \E m \in Nodes, id \in ExitIds, amt \in BidAmounts : place_bid(m, id, amt)
  <2>1. PICK m \in Nodes, id \in ExitIds, amt \in BidAmounts : place_bid(m, id, amt)
    BY <1>8
  <2> DEFINE ex == exits[id]
             locked == LockCapital(nodes, m, amt)
             exposed == AddExposure(appetites, m, ex.asset, amt)
  <2>2. Live(ex) /\ amt > 0 /\ release_best(locked, exposed, ex)
    BY <2>1 DEF place_bid, CommitAllowed
  <2>3. amt \in Nat /\ amt \in Int
    BY <2>2, VaultAssumption
  <2>4. ex \in ExitStates /\ ex.asset \in Assets
    BY <2>2, LiveExit
  <2>5. appetites[m][ex.asset].exposure + amt \in Nat
    BY <1>1, <2>3, <2>4 DEF AppetiteStates
  <2>6. exposed \in [Nodes -> [Assets -> AppetiteStates]]
    BY <1>1, <2>3, <2>4, <2>5, ExposureType
  <2>7. exposed[n][a].stored
    BY <1>1, <2>3, <2>4, ExposureKeepsTerms
  <2> HIDE DEF locked, exposed
  <2> QED BY <1>3, <2>2, <2>4, <2>6, <2>7
<1>9. CASE \E id \in ExitIds : close(id)
  BY <1>2, <1>6, <1>9 DEF close, routerVars, vaultVars, vaultStorage
<1>10. CASE UNCHANGED layerVars
  BY <1>2, <1>10 DEF layerVars, routerVars, vaultVars, vaultStorage
<1> QED BY <1>4, <1>5, <1>7, <1>8, <1>9, <1>10 DEF LayerNext

\* Every step keeps every live exit standing.
LEMMA StandsStep ==
  ASSUME LayerInv, BidsStand, [LayerNext]_layerVars
  PROVE  BidsStand'
<1>1. exits \in [ExitIds -> ExitStates]
  BY DEF LayerInv, AuctionTypeOK
<1>2. \A id \in ExitIds : Live(exits[id]) =>
         exits[id].asset \in Assets /\ exits[id].best_node \in Nodes \cup {NoAddr}
  BY LiveExit
<1>3. \A id \in ExitIds : Stands(exits[id], appetites')
  BY <1>2, TermsStay DEF BidsStand, Stands
<1>4. ASSUME NEW id \in ExitIds, \A x \in ExitIds : x # id => exits'[x] = exits[x],
             Stands(exits'[id], appetites')
      PROVE  BidsStand'
  BY <1>3, <1>4 DEF BidsStand
<1>5. CASE UNCHANGED exits
  BY <1>3, <1>5 DEF BidsStand
<1>6. CASE LayerTick \/ AdminCalls
  BY <1>5, <1>6 DEF LayerTick, AdminCalls, auctionStorage, auction_initialize, auction_set_admin
<1>7. CASE NodeCalls /\ UNCHANGED <<routerStorage, queueVars, auctionStorage>>
  BY <1>5, <1>7 DEF auctionStorage
<1>8. ASSUME NEW id \in ExitIds, fill(id) PROVE BidsStand'
  <2>1. exits' = [exits EXCEPT ![id].status = "Settled"]
    BY <1>8 DEF fill
  <2>2. /\ exits'[id].status = "Settled"
        /\ \A x \in ExitIds : x # id => exits'[x] = exits[x]
    BY <1>1, <2>1 DEF ExitStates
  <2>3. Stands(exits'[id], appetites')
    BY <2>2 DEF Stands, Live
  <2> QED BY <1>4, <2>2, <2>3
<1>9. CASE SellerCalls
  <2>1. ASSUME NEW id \in ExitIds, cancel(id) PROVE BidsStand'
    <3>1. exits' = [exits EXCEPT ![id].status = "Cancelled",
                                 ![id].best_node = NoAddr, ![id].best_usdc = 0]
      BY <2>1 DEF cancel
    <3>2. /\ exits'[id].status = "Cancelled"
          /\ \A x \in ExitIds : x # id => exits'[x] = exits[x]
      BY <1>1, <3>1 DEF ExitStates
    <3>3. Stands(exits'[id], appetites')
      BY <3>2 DEF Stands, Live
    <3> QED BY <1>4, <3>2, <3>3
  <2>2. ASSUME NEW id \in ExitIds, accept_bid(id) PROVE BidsStand'
    BY <1>8, <2>2 DEF accept_bid
  <2>3. ASSUME NEW p \in Sellers, NEW a \in Assets, NEW amt \in SaleAmounts,
               NEW r \in References, NEW m \in Reserves, NEW d \in Durations,
               open_exit(p, a, amt, r, m, d)
        PROVE  BidsStand'
    <3>1. next_id \in ExitIds
      BY <2>3, AddressAssumption DEF open_exit, LayerInv, AuctionTypeOK, ExitIds
    <3>2. /\ amt > 0 /\ exits'[next_id].amount = amt /\ exits'[next_id].best_node = NoAddr
          /\ \A x \in ExitIds : x # next_id => exits'[x] = exits[x]
      BY <1>1, <2>3, <3>1 DEF open_exit
    <3>3. Stands(exits'[next_id], appetites')
      BY <3>2 DEF Stands
    <3> QED BY <1>4, <3>1, <3>2, <3>3
  <2> QED BY <1>9, <2>1, <2>2, <2>3 DEF SellerCalls
<1>10. ASSUME NEW n \in Nodes, NEW id \in ExitIds, NEW amt \in BidAmounts, place_bid(n, id, amt)
       PROVE  BidsStand'
  <2>1. /\ Live(exits[id]) /\ amt > 0 /\ appetites[n][exits[id].asset].stored
        /\ exits' = [exits EXCEPT ![id].best_node = n, ![id].best_usdc = amt]
    BY <1>10 DEF place_bid, CommitAllowed
  <2>2. /\ exits'[id].best_node = n /\ exits'[id].best_usdc = amt
        /\ exits'[id].asset = exits[id].asset /\ exits'[id].amount = exits[id].amount
        /\ \A x \in ExitIds : x # id => exits'[x] = exits[x]
    BY <1>1, <2>1 DEF ExitStates
  <2>3. exits[id].amount > 0 /\ exits[id].asset \in Assets
    BY <1>2, <2>1 DEF BidsStand, Stands
  <2>4. appetites'[n][exits[id].asset].stored
    BY <2>1, <2>3, TermsStay
  <2>5. Stands(exits'[id], appetites')
    BY <2>1, <2>2, <2>3, <2>4 DEF Stands
  <2> QED BY <1>4, <2>2, <2>5
<1>11. ASSUME NEW id \in ExitIds, close(id) PROVE BidsStand'
  <2>1. CASE exits' = [exits EXCEPT ![id].status = "Queued"]
    <3>1. Live(exits[id])
      BY <1>11 DEF close, Live
    <3>2. /\ exits'[id].best_node = exits[id].best_node
          /\ exits'[id].best_usdc = exits[id].best_usdc
          /\ exits'[id].asset = exits[id].asset /\ exits'[id].amount = exits[id].amount
          /\ \A x \in ExitIds : x # id => exits'[x] = exits[x]
      BY <1>1, <2>1 DEF ExitStates
    <3>3. Stands(exits'[id], appetites')
      BY <1>3, <3>1, <3>2 DEF Stands
    <3> QED BY <1>4, <3>2, <3>3
  <2> QED BY <1>8, <1>11, <2>1 DEF close
<1>12. CASE UNCHANGED layerVars
  BY <1>5, <1>12 DEF layerVars, auctionStorage
<1> QED BY <1>6, <1>7, <1>9, <1>10, <1>11, <1>12 DEF LayerNext

\* Both specifications keep the exits standing.
LEMMA BidsAlwaysStand == (LayerSpec => []BidsStand) /\ (WiredSpec => []BidsStand)
<1>1. NothingOpened => BidsStand
  BY DEF NothingOpened, BidsStand, Stands, Live, NoExit
<1>2. LayerInv /\ BidsStand /\ [LayerNext]_layerVars => BidsStand'
  BY StandsStep
<1>3. LayerSpec => []BidsStand
  BY <1>1, <1>2, LayerInvariance, PTL DEF LayerSpec, LayerInit
<1>4. WiredSpec => []BidsStand
  BY <1>1, <1>2, LayerInvariance, PTL DEF WiredSpec, WiredInit
<1> QED BY <1>3, <1>4

\* The bidder of a standing bid has at least the bid committed, because it is one of the
\* bids that the node's commitments sum up to; its deposit covers them, and the vault
\* holds the deposit.
LEMMA BidCovered ==
  ASSUME LayerInv, BidsStand, NEW id \in ExitIds, Live(exits[id]),
         exits[id].best_node # NoAddr
  PROVE  LET node == nodes[exits[id].best_node] IN
         /\ node.committed \in Nat /\ node.deposited \in Nat /\ node.stored
         /\ node.committed >= exits[id].best_usdc
         /\ node.deposited >= node.committed
         /\ balance[Usdc][VaultAddr] \in Nat /\ balance[Usdc][VaultAddr] >= node.deposited
<1> DEFINE n == exits[id].best_node
           u == exits[id].best_usdc
<1>1. n \in Nodes /\ u \in Nat /\ u > 0
  BY LiveExit DEF BidsStand, Stands
<1>2. /\ VaultInv /\ nodes \in [Nodes -> NodeStates]
      /\ withdrawals \in [Nodes -> WithdrawRequests]
      /\ exits \in [ExitIds -> ExitStates] /\ balance \in [Tokens -> [Holders -> Nat]]
  BY DEF LayerInv, RouterInv, AuctionTypeOK, VaultInv, VaultTypeOK, TokenTypeOK
<1>3. /\ nodes[n].committed \in Nat /\ nodes[n].deposited \in Nat
      /\ withdrawals[n].amount \in Nat
  BY <1>1, <1>2 DEF NodeStates, WithdrawRequests
<1>4. nodes[n].committed >= u
  <2> DEFINE bids == Bids(exits, n, LiveStatuses)
  <2>1. nodes[n].committed = Total(bids)
    BY <1>1, BackedByBids DEF LayerInv
  <2>2. bids[id] = u
    BY DEF Bids, LiveStatuses, Live
  <2>3. IsFiniteSet(ExitIds) /\ bids \in [ExitIds -> Nat] /\ Total(bids) \in Nat
    BY <1>2, BidsType
  <2> HIDE DEF u, n, bids
  <2>4. bids[id] <= Total(bids)
    BY <2>3, TotalBounds
  <2> QED BY <1>1, <2>1, <2>2, <2>3, <2>4
<1>5. nodes[n].deposited >= nodes[n].committed /\ nodes[n].stored
  <2>1. nodes[n].committed + withdrawals[n].amount <= nodes[n].deposited
    BY <1>1, <1>2 DEF VaultInv, Covered
  <2>2. ~nodes[n].stored => nodes[n].deposited = 0
    BY <1>1, <1>2 DEF VaultInv, SlotsConsistent
  <2> HIDE DEF u, n
  <2> QED BY <1>1, <1>3, <1>4, <2>1, <2>2
<1>6. balance[Usdc][VaultAddr] \in Nat /\ balance[Usdc][VaultAddr] >= nodes[n].deposited
  <2>1. /\ Total(Deposits(nodes)) \in Nat
        /\ nodes[n].deposited <= Total(Deposits(nodes))
    BY <1>1, <1>2, DepositsMove
  <2>2. balance[Usdc][VaultAddr] >= Total(Deposits(nodes))
    BY <1>2 DEF VaultInv, VaultSolvent, Deposits
  <2>3. balance[Usdc][VaultAddr] \in Nat
    BY <1>2, TokenAssumption, VaultAssumption
  <2> HIDE DEF n
  <2> QED BY <1>3, <2>1, <2>2, <2>3
<1> QED BY <1>3, <1>4, <1>5, <1>6

\* The router holds what a live exit sells.
LEMMA EscrowCovers ==
  ASSUME LayerInv, NEW id \in ExitIds, Live(exits[id])
  PROVE  /\ balance[exits[id].asset][RouterAddr] \in Nat
         /\ balance[exits[id].asset][RouterAddr] >= exits[id].amount
<1> DEFINE a == exits[id].asset
           k == exits[id].amount
           held == Held(escrows, a)
<1>1. /\ a \in Assets /\ k \in Nat
      /\ escrows[id] = [stored |-> TRUE, seller |-> exits[id].seller, asset |-> a, amount |-> k]
  BY LiveExit
<1>2. /\ RouterInv /\ escrows \in [ExitIds -> EscrowStates]
      /\ balance \in [Tokens -> [Holders -> Nat]]
  BY DEF LayerInv, RouterInv, RouterTypeOK, VaultInv, VaultTypeOK, TokenTypeOK
<1>3. held[id] = k
  <2>1. escrows[id].asset = a /\ escrows[id].amount = k
    BY <1>1
  <2> QED BY <2>1 DEF Held
<1>4. IsFiniteSet(ExitIds) /\ held \in [ExitIds -> Nat] /\ Total(held) \in Nat
  BY <1>2, HeldType
<1>5. balance[a][RouterAddr] >= Total(held)
  BY <1>1, <1>2, BackedByHeld DEF RouterInv
<1>6. balance[a][RouterAddr] \in Nat
  BY <1>1, <1>2, TokenAssumption, RouterAssumption
<1> HIDE DEF a, k, held
<1>7. held[id] <= Total(held)
  BY <1>4, TotalBounds
<1>8. balance[a][RouterAddr] >= k
  BY <1>1, <1>3, <1>4, <1>5, <1>6, <1>7
<1> QED BY <1>6, <1>8 DEF a, k

\* A standing bid is payable: the commitment is still there and covered, the fee is less
\* than the whole, so both payouts are of a positive amount, and the escrow is backed.
LEMMA SettleIsAllowed ==
  ASSUME LayerInv, BidsStand, NEW id \in ExitIds, Live(exits[id]),
         exits[id].best_node # NoAddr, RouterFromAuction(AuctionAddr), FromRouter(RouterAddr)
  PROVE  SettleAllowed(id, exits[id].best_node, exits[id].amount, exits[id].best_usdc)
<1> DEFINE ex == exits[id]
           n == ex.best_node
           u == ex.best_usdc
           k == ex.amount
           a == ex.asset
           esc == escrows[id]
           fee == protocol_fee(u)
           net == u - fee
           paid == PayFromCommitted(nodes, n, net)
           treasury == routerConfig.treasury
           sellerPaid == Transfer(balance, Usdc, VaultAddr, esc.seller, net)
           bothPaid == Transfer(sellerPaid, Usdc, VaultAddr, treasury, fee)
           cashMoved == IF fee > 0 THEN bothPaid ELSE sellerPaid
<1>1. /\ n \in Nodes /\ u \in Nat /\ u > 0 /\ k \in Nat /\ k > 0 /\ a \in Assets
      /\ ex.seller \in Sellers /\ appetites[n][a].stored
  BY LiveExit DEF BidsStand, Stands
<1>2. esc.stored /\ esc.seller = ex.seller /\ esc.asset = a /\ esc.amount = k
  <2>1. escrows[id] = [stored |-> TRUE, seller |-> ex.seller, asset |-> ex.asset,
                       amount |-> ex.amount]
    BY LiveExit
  <2> QED BY <2>1
<1>3. /\ RouterInv /\ VaultInv
      /\ nodes \in [Nodes -> NodeStates] /\ balance \in [Tokens -> [Holders -> Nat]]
      /\ withdrawals \in [Nodes -> WithdrawRequests]
      /\ escrows \in [ExitIds -> EscrowStates] /\ exits \in [ExitIds -> ExitStates]
      /\ routerConfig \in RouterConfigs /\ routerConfig.stored /\ treasury \in Treasuries
  BY DEF LayerInv, RouterInv, RouterTypeOK, RouterSlots, AuctionTypeOK, VaultInv, VaultTypeOK,
         TokenTypeOK, RouterFromAuction
<1>4. /\ nodes[n].committed \in Nat /\ nodes[n].deposited \in Nat /\ nodes[n].stored
      /\ nodes[n].committed >= u /\ nodes[n].deposited >= nodes[n].committed
      /\ balance[Usdc][VaultAddr] \in Nat /\ balance[Usdc][VaultAddr] >= nodes[n].deposited
  BY BidCovered
<1>5. balance[a][RouterAddr] \in Nat /\ balance[a][RouterAddr] >= k
  BY EscrowCovers
<1>6. fee \in Nat /\ fee < u
  <2>1. fee \in Nat
    BY <1>1, <1>3, FeeType
  <2>2. fee * BPS_DENOMINATOR <= u * MAX_PROTOCOL_FEE_BPS
    BY <1>1, <1>3, FeeBounded
  <2>3. /\ BPS_DENOMINATOR \in Nat \ {0} /\ MAX_PROTOCOL_FEE_BPS \in Nat
        /\ BPS_DENOMINATOR >= MAX_PROTOCOL_FEE_BPS + 1
    BY AddressAssumption, RouterAssumption
  <2>4. \A x, y, d, m \in Nat : (y > 0 /\ d >= m + 1 /\ x * d <= y * m) => x < y
    <3> SUFFICES ASSUME NEW x \in Nat, NEW y \in Nat, NEW d \in Nat, NEW m \in Nat,
                        y > 0, d >= m + 1, x >= y
                 PROVE  x * d > y * m
      OBVIOUS
    <3>1. x - y \in Nat /\ d - m \in Nat /\ d - m > 0
      OBVIOUS
    <3>2. (x - y) * d \in Nat /\ x * d = y * d + (x - y) * d
      BY <3>1
    <3>3. y * d = y * m + y * (d - m)
      BY <3>1
    <3>4. y * (d - m) \in Nat /\ y * (d - m) > 0
      BY <3>1
    <3>5. x * d \in Nat /\ y * d \in Nat /\ y * m \in Nat
      OBVIOUS
    <3> QED BY <3>2, <3>3, <3>4, <3>5
  <2> HIDE DEF fee, u
  <2> QED BY <1>1, <2>1, <2>2, <2>3, <2>4
<1>7. net \in Nat /\ net > 0 /\ net + fee = u
  <2> HIDE DEF fee, u
  <2> QED BY <1>1, <1>6
<1>8. /\ esc.seller \in Holders /\ treasury \in Holders /\ n \in Holders
       /\ RouterAddr \in Holders /\ VaultAddr \in Holders /\ RouterAddr # VaultAddr
       /\ a \in Tokens /\ Usdc \in Tokens
  BY <1>1, <1>2, <1>3, RouterAssumption, VaultAssumption, TokenAssumption
<1> HIDE DEF ex, n, u, k, a, esc, fee, net, treasury
<1>9. PayOutAllowed(nodes, n, esc.asset, net) /\ CanTransfer(balance, Usdc, VaultAddr, net)
  <2>1. balance[Usdc][VaultAddr] \in Nat
    BY <1>3, <1>8
  <2>2. /\ nodes[n].committed >= net /\ nodes[n].deposited >= net
        /\ balance[Usdc][VaultAddr] >= net
    BY <1>1, <1>4, <1>6, <1>7, <2>1
  <2> QED BY <1>1, <1>2, <1>4, <1>7, <2>2 DEF PayOutAllowed, CanTransfer
<1>10. /\ sellerPaid \in [Tokens -> [Holders -> Nat]]
       /\ sellerPaid[Usdc][VaultAddr] >= balance[Usdc][VaultAddr] - net
       /\ sellerPaid[a][RouterAddr] >= balance[a][RouterAddr]
  BY <1>3, <1>7, <1>8, <1>9, TransferEffect, TransferSpares
<1> HIDE DEF sellerPaid
<1>11. CanTransfer(sellerPaid, Usdc, VaultAddr, fee)
  <2>1. balance[Usdc][VaultAddr] \in Nat /\ sellerPaid[Usdc][VaultAddr] \in Nat
    BY <1>3, <1>8, <1>10
  <2>2. sellerPaid[Usdc][VaultAddr] >= fee
    BY <1>1, <1>4, <1>6, <1>7, <1>10, <2>1
  <2> QED BY <1>6, <2>2 DEF CanTransfer
<1>12. fee > 0 => PayOutAllowed(paid, n, esc.asset, fee)
  <2>1. nodes[n].committed >= net /\ nodes[n].deposited >= net
    BY <1>9 DEF PayOutAllowed
  <2>2. /\ paid[n].committed = nodes[n].committed - net
        /\ paid[n].deposited = nodes[n].deposited - net
        /\ paid[n].stored = nodes[n].stored
    BY <1>1, <1>3, <1>7, <2>1, PayEffect
  <2> HIDE DEF paid
  <2>3. paid[n].committed >= fee /\ paid[n].deposited >= fee
    BY <1>1, <1>4, <1>6, <1>7, <2>2
  <2> QED BY <1>1, <1>2, <1>4, <2>2, <2>3 DEF PayOutAllowed
<1>13. CanTransfer(cashMoved, esc.asset, RouterAddr, k)
  <2>1. bothPaid \in [Tokens -> [Holders -> Nat]] /\ bothPaid[a][RouterAddr] >= sellerPaid[a][RouterAddr]
    BY <1>6, <1>8, <1>10, <1>11, TransferEffect, TransferSpares
  <2> HIDE DEF bothPaid
  <2>2. cashMoved = bothPaid \/ cashMoved = sellerPaid
    OBVIOUS
  <2> HIDE DEF cashMoved
  <2>3. /\ cashMoved[a][RouterAddr] \in Nat /\ sellerPaid[a][RouterAddr] \in Nat
        /\ balance[a][RouterAddr] \in Nat /\ bothPaid[a][RouterAddr] \in Nat
    BY <1>3, <1>8, <1>10, <2>1, <2>2
  <2>4. cashMoved[a][RouterAddr] >= balance[a][RouterAddr]
    BY <1>10, <2>1, <2>2, <2>3
  <2>5. cashMoved[a][RouterAddr] >= k
    BY <1>1, <1>5, <2>3, <2>4
  <2> QED BY <1>1, <1>2, <2>5 DEF CanTransfer
<1> QED
  BY <1>1, <1>2, <1>9, <1>11, <1>12, <1>13
     DEF SettleAllowed, ex, n, u, k, a, esc, fee, net, treasury, sellerPaid

\* A queued exit is found in its line, one that is not queued is in no line.
LEMMA LeaveIsAllowed ==
  ASSUME LayerInv, NEW id \in ExitIds, Live(exits[id]),
         exits[id].status = "Queued" => QueueFromAuction(AuctionAddr)
  PROVE  /\ LeaveAllowed(exits[id], id)
         /\ exits[id].status # "Queued" => ~InLine(queues[exits[id].asset], id)
<1>1. exits[id].asset \in Assets
  BY LiveExit
<1>2. InLine(queues[exits[id].asset], id) <=> exits[id].status = "Queued"
  BY <1>1 DEF LayerInv, QueueMatches
<1> QED BY <1>2 DEF LeaveAllowed

\* An acceptable bid whose turn has come is paid whenever it is called for, provided the
\* router still is the vault's: the code's check of the deposit at the moment of the
\* payment, of the commitment, of the escrow and of every transfer always passes,
\* whatever the bidder has withdrawn, reported or declared since it bid.
PaymentNeverRefused ==
    \A id \in ExitIds :
        LET ex == exits[id] IN
        (/\ Live(ex) /\ acceptable(ex) /\ AtHead(ex.asset, id)
         /\ ServedBy(ex) /\ FromRouter(RouterAddr)) => FillAllowed(id)

\* Once the window of a wired exit is over, its line being full is the only thing that
\* can keep anyone from closing it.
OnlyRoomNeeded ==
    \A id \in ExitIds :
        LET ex == exits[id] IN
        (/\ ex.status = "Open" /\ now > ex.closes_at
         /\ ServedBy(ex) /\ FromRouter(RouterAddr) /\ QueueFromAuction(AuctionAddr))
            => CloseAllowed(id) \/ Len(queues[ex.asset]) = MAX_QUEUE_DEPTH

\* The bidder having reported away the exposure of the standing bid is the only thing
\* that can keep the seller of a live exit from leaving, from the window or the line.
OnlyExposureBlocks ==
    \A id \in ExitIds :
        LET ex == exits[id] IN
        (Live(ex) /\ ServedBy(ex) /\ ~CancelAllowed(id))
            => /\ ex.best_node # NoAddr
               /\ appetites[ex.best_node][ex.asset].exposure < ex.best_usdc

\* The first in every state in which the books agree.
LEMMA PaymentsPass ==
  ASSUME LayerInv, BidsStand
  PROVE  PaymentNeverRefused
<1> SUFFICES ASSUME NEW id \in ExitIds, Live(exits[id]), acceptable(exits[id]),
                    AtHead(exits[id].asset, id), ServedBy(exits[id]), FromRouter(RouterAddr)
             PROVE  FillAllowed(id)
  BY DEF PaymentNeverRefused
<1>1. SettleAllowed(id, exits[id].best_node, exits[id].amount, exits[id].best_usdc)
  BY SettleIsAllowed DEF acceptable, ServedBy
<1>2. LeaveAllowed(exits[id], id)
  BY LeaveIsAllowed DEF ServedBy
<1> QED BY <1>1, <1>2 DEF FillAllowed, ServedBy

\* The second: an exit that cannot be settled now can join its line.
LEMMA ClosesPass ==
  ASSUME LayerInv, BidsStand
  PROVE  OnlyRoomNeeded
<1> SUFFICES ASSUME NEW id \in ExitIds, exits[id].status = "Open", now > exits[id].closes_at,
                    ServedBy(exits[id]), FromRouter(RouterAddr), QueueFromAuction(AuctionAddr),
                    Len(queues[exits[id].asset]) # MAX_QUEUE_DEPTH
             PROVE  CloseAllowed(id)
  BY DEF OnlyRoomNeeded
<1>1. Live(exits[id])
  BY DEF Live
<1>2. (acceptable(exits[id]) /\ AtHead(exits[id].asset, id)) => FillAllowed(id)
  BY <1>1, PaymentsPass DEF PaymentNeverRefused
<1>3. ~InLine(queues[exits[id].asset], id)
  BY <1>1, LeaveIsAllowed
<1>4. Len(queues[exits[id].asset]) < MAX_QUEUE_DEPTH
  <2>1. exits[id].asset \in Assets
    BY <1>1, LiveExit
  <2>2. /\ Len(queues[exits[id].asset]) <= MAX_QUEUE_DEPTH
        /\ queues[exits[id].asset] \in Seq(ExitIds) /\ MAX_QUEUE_DEPTH \in Nat
    BY <2>1, QueueAssumption DEF LayerInv, QueueInv, QueueTypeOK, LineWellFormed
  <2>3. Len(queues[exits[id].asset]) \in Nat
    BY <2>2
  <2> QED BY <2>2, <2>3
<1> QED BY <1>2, <1>3, <1>4 DEF CloseAllowed, ServedBy

\* The third: the commitment and the escrow are there to be given back.
LEMMA CancelsPass ==
  ASSUME LayerInv, BidsStand
  PROVE  OnlyExposureBlocks
<1> SUFFICES ASSUME NEW id \in ExitIds, Live(exits[id]), ServedBy(exits[id]),
                    exits[id].best_node # NoAddr =>
                       ~(appetites[exits[id].best_node][exits[id].asset].exposure
                            < exits[id].best_usdc)
             PROVE  CancelAllowed(id)
  BY DEF OnlyExposureBlocks
<1>1. /\ exits[id].asset \in Assets /\ exits[id].best_node \in Nodes \cup {NoAddr}
      /\ exits[id].best_usdc \in Nat /\ exits[id].amount \in Nat
      /\ escrows[id] = [stored |-> TRUE, seller |-> exits[id].seller,
                        asset |-> exits[id].asset, amount |-> exits[id].amount]
  BY LiveExit
<1>2. escrows[id].stored /\ CanTransfer(balance, escrows[id].asset, RouterAddr, escrows[id].amount)
  <2>1. escrows[id].stored /\ escrows[id].asset = exits[id].asset /\ escrows[id].amount = exits[id].amount
    BY <1>1
  <2> QED BY <1>1, <2>1, EscrowCovers DEF CanTransfer
<1>3. ASSUME exits[id].best_node # NoAddr
      PROVE  ReleaseAllowed(nodes, appetites, exits[id].best_node, exits[id].asset,
                            exits[id].best_usdc)
  <2> DEFINE n == exits[id].best_node
             a == exits[id].asset
             u == exits[id].best_usdc
  <2>1. n \in Nodes /\ a \in Assets /\ u \in Nat /\ u > 0 /\ appetites[n][a].stored
    BY <1>1, <1>3 DEF BidsStand, Stands
  <2>2. nodes[n].committed >= u /\ nodes[n].stored
    BY <1>3, BidCovered
  <2>3. appetites[n][a].exposure \in Nat
    BY <2>1 DEF LayerInv, RouterInv, VaultInv, VaultTypeOK, AppetiteStates
  <2>4. ~(appetites[n][a].exposure < u)
    BY <1>3
  <2> HIDE DEF n, a, u
  <2>5. appetites[n][a].exposure >= u
    BY <2>1, <2>3, <2>4
  <2> QED BY <2>1, <2>2, <2>5 DEF ReleaseAllowed, n, a, u
<1>4. LeaveAllowed(exits[id], id)
  BY LeaveIsAllowed DEF ServedBy
<1> QED BY <1>2, <1>3, <1>4 DEF CancelAllowed, ServedBy

\* For any number of nodes, sellers and exits, any fee up to its ceiling and any amounts:
\* the payment of an acceptable bid whose turn has come is never refused.  This is what
\* lets a seller rely on a standing bid.
THEOREM PaymentIsNeverRefused ==
  (LayerSpec => []PaymentNeverRefused) /\ (WiredSpec => []PaymentNeverRefused)
BY PaymentsPass, LayerInvariance, BidsAlwaysStand, PTL

\* OnlyFullLineBlocksClose without ENABLED, for every value of the constants: by
\* CloseIsGuarded, the call of close goes through exactly when CloseAllowed holds.
THEOREM OnlyLackOfRoomBlocksClose ==
  (LayerSpec => []OnlyRoomNeeded) /\ (WiredSpec => []OnlyRoomNeeded)
BY ClosesPass, LayerInvariance, BidsAlwaysStand, PTL

\* OnlyBidderBlocksCancel without ENABLED, for every value of the constants: by
\* CancelIsGuarded, the call of cancel goes through exactly when CancelAllowed holds.
THEOREM OnlyExposureBlocksCancel ==
  (LayerSpec => []OnlyExposureBlocks) /\ (WiredSpec => []OnlyExposureBlocks)
BY CancelsPass, LayerInvariance, BidsAlwaysStand, PTL

\* Every live exit has the contracts it needs.
AllServed == \A id \in ExitIds : Live(exits[id]) => ServedBy(exits[id])

\* With one auction to point at, no call of any admin takes the wiring away again.
LEMMA WiringStays ==
  ASSUME LayerInv, Auctions = {AuctionAddr}, [LayerNext]_layerVars
  PROVE  /\ auctionConfig.stored => auctionConfig'.stored
         /\ RouterFromAuction(AuctionAddr) => RouterFromAuction(AuctionAddr)'
         /\ FromAuction(AuctionAddr) => FromAuction(AuctionAddr)'
         /\ QueueFromAuction(AuctionAddr) => QueueFromAuction(AuctionAddr)'
<1>1. /\ vaultConfig \in VaultConfigs /\ routerConfig \in RouterConfigs
      /\ queueConfig \in QueueConfigs /\ auctionConfig \in AuctionConfigs
  BY DEF LayerInv, RouterInv, RouterTypeOK, QueueInv, QueueTypeOK, AuctionTypeOK, VaultInv,
         VaultTypeOK
<1> DEFINE VaultKept == FromAuction(AuctionAddr) => FromAuction(AuctionAddr)'
           RouterKept == RouterFromAuction(AuctionAddr) => RouterFromAuction(AuctionAddr)'
           QueueKept == QueueFromAuction(AuctionAddr) => QueueFromAuction(AuctionAddr)'
           AuctionKept == auctionConfig.stored => auctionConfig'.stored
<1>2. /\ UNCHANGED vaultConfig => VaultKept
      /\ UNCHANGED routerConfig => RouterKept
      /\ UNCHANGED queueConfig => QueueKept
      /\ UNCHANGED auctionConfig => AuctionKept
  BY DEF FromAuction, RouterFromAuction, QueueFromAuction
<1>3. VaultAdminCalls => VaultKept
  <2>1. ASSUME NEW admin, NEW m, NEW c, NEW t, vault_initialize(admin, m, c, t) PROVE VaultKept
    BY <2>1 DEF vault_initialize, FromAuction
  <2>2. ASSUME NEW g, NEW x \in Auctions, vault_set_auction(g, x) PROVE VaultKept
    BY <1>1, <2>2 DEF vault_set_auction, FromAuction, VaultConfigs
  <2>3. ASSUME NEW g, NEW x, vault_set_router(g, x) PROVE VaultKept
    BY <1>1, <2>3 DEF vault_set_router, FromAuction, VaultConfigs
  <2>4. ASSUME NEW g, NEW x, vault_set_admin(g, x) PROVE VaultKept
    BY <1>1, <2>4 DEF vault_set_admin, FromAuction, VaultConfigs
  <2>5. ASSUME NEW g, NEW c, set_max_single_fill_bps(g, c) PROVE VaultKept
    BY <1>1, <2>5 DEF set_max_single_fill_bps, FromAuction, VaultConfigs
  <2> HIDE DEF VaultKept
  <2> QED BY <2>1, <2>2, <2>3, <2>4, <2>5 DEF VaultAdminCalls
<1>4. RouterAdminCalls => RouterKept
  <2>1. ASSUME NEW admin, NEW t, NEW f, router_initialize(admin, t, f) PROVE RouterKept
    BY <2>1 DEF router_initialize, RouterFromAuction
  <2>2. ASSUME NEW g, NEW x \in Auctions, router_set_auction(g, x) PROVE RouterKept
    BY <1>1, <2>2 DEF router_set_auction, RouterFromAuction, RouterConfigs
  <2>3. ASSUME NEW g, NEW x, router_set_admin(g, x) PROVE RouterKept
    BY <1>1, <2>3 DEF router_set_admin, RouterFromAuction, RouterConfigs
  <2>4. ASSUME NEW g, NEW x, set_treasury(g, x) PROVE RouterKept
    BY <1>1, <2>4 DEF set_treasury, RouterFromAuction, RouterConfigs
  <2>5. ASSUME NEW g, NEW f, set_protocol_fee_bps(g, f) PROVE RouterKept
    BY <1>1, <2>5 DEF set_protocol_fee_bps, RouterFromAuction, RouterConfigs
  <2> HIDE DEF RouterKept
  <2> QED BY <2>1, <2>2, <2>3, <2>4, <2>5 DEF RouterAdminCalls
<1>5. QueueAdminCalls => QueueKept
  <2>1. ASSUME NEW admin, queue_initialize(admin) PROVE QueueKept
    BY <2>1 DEF queue_initialize, QueueFromAuction
  <2>2. ASSUME NEW g, NEW x \in Auctions, queue_set_auction(g, x) PROVE QueueKept
    BY <1>1, <2>2 DEF queue_set_auction, QueueFromAuction, QueueConfigs
  <2> HIDE DEF QueueKept
  <2> QED BY <2>1, <2>2 DEF QueueAdminCalls
<1>6. /\ \A admin : auction_initialize(admin) => AuctionKept
      /\ \A g, x : auction_set_admin(g, x) => AuctionKept
  BY <1>1 DEF auction_initialize, auction_set_admin, AuctionConfigs
<1> HIDE DEF VaultKept, RouterKept, QueueKept, AuctionKept
<1>7. CASE AdminCalls
  <2>1. \/ VaultAdminCalls /\ UNCHANGED <<routerConfig, queueConfig, auctionConfig>>
        \/ RouterAdminCalls /\ UNCHANGED <<vaultConfig, queueConfig, auctionConfig>>
        \/ QueueAdminCalls /\ UNCHANGED <<vaultConfig, routerConfig, auctionConfig>>
        \/ /\ \E admin : auction_initialize(admin)
           /\ UNCHANGED <<vaultConfig, routerConfig, queueConfig>>
        \/ /\ \E g, x : auction_set_admin(g, x)
           /\ UNCHANGED <<vaultConfig, routerConfig, queueConfig>>
    BY <1>7 DEF AdminCalls, routerStorage, queueVars, auctionStorage, routerVars, vaultVars,
           vaultStorage, RouterAdminCalls, router_initialize, router_set_auction,
           router_set_admin, set_treasury, set_protocol_fee_bps, auction_initialize,
           auction_set_admin
  <2> QED
    BY <1>2, <1>3, <1>4, <1>5, <1>6, <2>1
       DEF VaultKept, RouterKept, QueueKept, AuctionKept
<1>8. CASE ~AdminCalls
  <2>1. UNCHANGED <<vaultConfig, routerConfig, queueConfig, auctionConfig>>
    <3>1. \A id \in ExitIds : fill(id) =>
             UNCHANGED <<vaultConfig, routerConfig, queueConfig, auctionConfig>>
      BY DEF fill
    <3>2. CASE LayerTick \/ UNCHANGED layerVars
      BY <3>2 DEF LayerTick, Tick, layerVars, routerVars, vaultVars, vaultStorage,
             routerStorage, queueVars, auctionStorage
    <3>3. CASE NodeCalls /\ UNCHANGED <<routerStorage, queueVars, auctionStorage>>
      BY <3>3 DEF NodeCalls, deposit, request_withdrawal, cancel_withdrawal,
             execute_withdrawal, set_appetite, reduce_exposure, routerStorage, queueVars,
             auctionStorage
    <3>4. CASE SellerCalls
      BY <3>1, <3>4 DEF SellerCalls, open_exit, accept_bid, cancel, vaultStorage, queueVars
    <3>5. CASE \E n \in Nodes, id \in ExitIds, amt \in BidAmounts : place_bid(n, id, amt)
      BY <3>5 DEF place_bid, routerStorage, queueVars
    <3>6. CASE \E id \in ExitIds : close(id)
      BY <3>1, <3>6 DEF close, routerVars, routerStorage, vaultVars, vaultStorage
    <3> QED BY <1>8, <3>2, <3>3, <3>4, <3>5, <3>6 DEF LayerNext
  <2> QED BY <1>2, <2>1 DEF VaultKept, RouterKept, QueueKept, AuctionKept
<1> QED BY <1>7, <1>8 DEF VaultKept, RouterKept, QueueKept, AuctionKept

\* Every step keeps every live exit served: what opens one, bids on one or queues one has
\* gone through the contract in question.
LEMMA ServedStep ==
  ASSUME LayerInv, Auctions = {AuctionAddr}, AllServed, [LayerNext]_layerVars
  PROVE  AllServed'
<1>1. exits \in [ExitIds -> ExitStates]
  BY DEF LayerInv, AuctionTypeOK
<1>2. /\ auctionConfig.stored => auctionConfig'.stored
      /\ RouterFromAuction(AuctionAddr) => RouterFromAuction(AuctionAddr)'
      /\ FromAuction(AuctionAddr) => FromAuction(AuctionAddr)'
      /\ QueueFromAuction(AuctionAddr) => QueueFromAuction(AuctionAddr)'
  BY WiringStays
<1>3. \A id \in ExitIds :
         (exits'[id] = exits[id]) => (Live(exits'[id]) => ServedBy(exits[id])')
  BY <1>2 DEF AllServed, ServedBy
<1>4. ASSUME NEW id \in ExitIds, \A x \in ExitIds : x # id => exits'[x] = exits[x],
             Live(exits'[id]) => ServedBy(exits[id])'
      PROVE  AllServed'
  BY <1>3, <1>4 DEF AllServed, Live
<1>5. CASE UNCHANGED exits
  BY <1>3, <1>5 DEF AllServed, Live
<1>6. CASE LayerTick \/ AdminCalls
  BY <1>5, <1>6 DEF LayerTick, AdminCalls, auctionStorage, auction_initialize, auction_set_admin
<1>7. CASE NodeCalls /\ UNCHANGED <<routerStorage, queueVars, auctionStorage>>
  BY <1>5, <1>7 DEF auctionStorage
<1>8. ASSUME NEW id \in ExitIds, fill(id) PROVE AllServed'
  <2>1. exits' = [exits EXCEPT ![id].status = "Settled"]
    BY <1>8 DEF fill
  <2>2. /\ ~Live(exits'[id])
        /\ \A x \in ExitIds : x # id => exits'[x] = exits[x]
    BY <1>1, <2>1 DEF ExitStates, Live
  <2> QED BY <1>4, <2>2
<1>9. CASE SellerCalls
  <2>1. ASSUME NEW id \in ExitIds, cancel(id) PROVE AllServed'
    <3>1. exits' = [exits EXCEPT ![id].status = "Cancelled",
                                 ![id].best_node = NoAddr, ![id].best_usdc = 0]
      BY <2>1 DEF cancel
    <3>2. /\ ~Live(exits'[id])
          /\ \A x \in ExitIds : x # id => exits'[x] = exits[x]
      BY <1>1, <3>1 DEF ExitStates, Live
    <3> QED BY <1>4, <3>2
  <2>2. ASSUME NEW id \in ExitIds, accept_bid(id) PROVE AllServed'
    BY <1>8, <2>2 DEF accept_bid
  <2>3. ASSUME NEW p \in Sellers, NEW a \in Assets, NEW amt \in SaleAmounts,
               NEW r \in References, NEW m \in Reserves, NEW d \in Durations,
               open_exit(p, a, amt, r, m, d)
        PROVE  AllServed'
    <3>1. next_id \in ExitIds
      BY <2>3, AddressAssumption DEF open_exit, LayerInv, AuctionTypeOK, ExitIds
    <3>2. auctionConfig.stored /\ RouterFromAuction(AuctionAddr)
      BY <2>3 DEF open_exit, escrow
    <3>3. /\ exits'[next_id].status = "Open" /\ exits'[next_id].best_node = NoAddr
          /\ \A x \in ExitIds : x # next_id => exits'[x] = exits[x]
      BY <1>1, <2>3, <3>1 DEF open_exit
    <3>4. Live(exits'[next_id]) =>
             /\ auctionConfig'.stored /\ RouterFromAuction(AuctionAddr)'
             /\ exits'[next_id].best_node # NoAddr => FromAuction(AuctionAddr)'
             /\ exits'[next_id].status = "Queued" => QueueFromAuction(AuctionAddr)'
      BY <1>2, <3>2, <3>3
    <3> QED BY <1>4, <3>1, <3>3, <3>4 DEF ServedBy
  <2> QED BY <1>9, <2>1, <2>2, <2>3 DEF SellerCalls
<1>10. ASSUME NEW n \in Nodes, NEW id \in ExitIds, NEW amt \in BidAmounts, place_bid(n, id, amt)
       PROVE  AllServed'
  <2>1. /\ Live(exits[id]) /\ FromAuction(AuctionAddr)
        /\ exits' = [exits EXCEPT ![id].best_node = n, ![id].best_usdc = amt]
    BY <1>10 DEF place_bid
  <2>2. /\ exits'[id].status = exits[id].status
        /\ \A x \in ExitIds : x # id => exits'[x] = exits[x]
    BY <1>1, <2>1 DEF ExitStates
  <2>3. ServedBy(exits[id])'
    BY <1>2, <2>1, <2>2 DEF AllServed, ServedBy
  <2> QED BY <1>4, <2>2, <2>3
<1>11. ASSUME NEW id \in ExitIds, close(id) PROVE AllServed'
  <2>1. CASE exits' = [exits EXCEPT ![id].status = "Queued"] /\ QueueFromAuction(AuctionAddr)
    <3>1. Live(exits[id])
      BY <1>11 DEF close, Live
    <3>2. /\ exits'[id].best_node = exits[id].best_node
          /\ \A x \in ExitIds : x # id => exits'[x] = exits[x]
      BY <1>1, <2>1 DEF ExitStates
    <3>3. ServedBy(exits[id])'
      BY <1>2, <2>1, <3>1, <3>2 DEF AllServed, ServedBy
    <3> QED BY <1>4, <3>2, <3>3
  <2> QED BY <1>8, <1>11, <2>1 DEF close, enqueue
<1>12. CASE UNCHANGED layerVars
  BY <1>5, <1>12 DEF layerVars, auctionStorage
<1> QED BY <1>6, <1>7, <1>9, <1>10, <1>11, <1>12 DEF LayerNext

\* Contracts that are wired in any order, with exits opened in between: as long as there
\* is one auction, a live exit never loses a contract it needs, so that what
\* OnlyExposureBlocksCancel says of the exits that are served it says of all.
THEOREM NobodyIsCutOff ==
  Auctions = {AuctionAddr} => (LayerSpec => []AllServed) /\ (WiredSpec => []AllServed)
<1> SUFFICES ASSUME Auctions = {AuctionAddr}
             PROVE  (LayerSpec => []AllServed) /\ (WiredSpec => []AllServed)
  OBVIOUS
<1>1. NothingOpened => AllServed
  BY DEF NothingOpened, AllServed, Live, NoExit
<1>2. LayerInv /\ AllServed /\ [LayerNext]_layerVars => AllServed'
  BY ServedStep
<1>3. LayerSpec => []AllServed
  BY <1>1, <1>2, LayerInvariance, PTL DEF LayerSpec, LayerInit
<1>4. WiredSpec => []AllServed
  BY <1>1, <1>2, LayerInvariance, PTL DEF WiredSpec, WiredInit
<1> QED BY <1>3, <1>4
=============================================================================
