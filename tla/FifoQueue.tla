----------------------------- MODULE FifoQueue ------------------------------
(***************************************************************************)
(* The fifo_queue contract: per asset, the line of exits that closed with  *)
(* no acceptable bid.  Only the wired auction moves exits in and out of a  *)
(* line.  QueueSpec lets it do so in any order.                            *)
(***************************************************************************)
EXTENDS Addresses, Sequences

CONSTANT MAX_QUEUE_DEPTH

ASSUME QueueAssumption == MAX_QUEUE_DEPTH \in Nat

VARIABLES
    queueConfig,    \* DataKey::Config
    queues          \* DataKey::Queue(asset), empty when not stored

queueVars == <<queueConfig, queues>>

QueueConfigs ==
    [stored : BOOLEAN, admin : Admins \cup {NoAddr}, auction : Auctions \cup {NoAddr}]

NoQueueConfig == [stored |-> FALSE, admin |-> NoAddr, auction |-> NoAddr]

\* Types of the queue's storage: enqueue and dequeue leave every line a sequence
\* of identifiers of exits, without gaps.
QueueTypeOK ==
    /\ queueConfig \in QueueConfigs
    /\ queues \in [Assets -> Seq(ExitIds)]

queue_initialize(admin) ==
    /\ ~queueConfig.stored
    /\ queueConfig' = [stored |-> TRUE, admin |-> admin, auction |-> NoAddr]
    /\ UNCHANGED queues

queue_set_auction(signer, auction) ==
    /\ queueConfig.stored /\ queueConfig.admin = signer
    /\ queueConfig' = [queueConfig EXCEPT !.auction = auction]
    /\ UNCHANGED queues

QueueFromAuction(caller) == queueConfig.stored /\ queueConfig.auction = caller

InLine(q, id) == \E i \in 1 .. Len(q) : q[i] = id

\* iter().position(|id| id == exit_id), counted from 1.
position_of(q, id) ==
    CHOOSE i \in 1 .. Len(q) : q[i] = id /\ \A j \in 1 .. (i - 1) : q[j] # id

\* Mutants: the entry is blanked and not removed; the last entry takes its place.
Tombstone(q, i) == [q EXCEPT ![i] = 0]
SwapRemove(q, i) == [k \in 1 .. (Len(q) - 1) |-> IF k = i THEN q[Len(q)] ELSE q[k]]

\* The loop that copies every entry but the one at index i.
WithoutIndex(q, i) ==
    [k \in 1 .. (Len(q) - 1) |-> IF k < i THEN q[k] ELSE q[k + 1]]

\* Mutant: the depth is checked one entry late.
EnqueuePastLimit(caller, a, id) ==
    /\ QueueFromAuction(caller)
    /\ Len(queues[a]) <= MAX_QUEUE_DEPTH
    /\ ~InLine(queues[a], id)
    /\ queues' = [queues EXCEPT ![a] = Append(@, id)]

enqueue(caller, a, id) ==
    /\ QueueFromAuction(caller)
    /\ Len(queues[a]) < MAX_QUEUE_DEPTH
    /\ ~InLine(queues[a], id)
    /\ queues' = [queues EXCEPT ![a] = Append(@, id)]

dequeue(caller, a, id) ==
    /\ QueueFromAuction(caller)
    /\ InLine(queues[a], id)
    /\ queues' = [queues EXCEPT ![a] = WithoutIndex(@, position_of(@, id))]

\* Mutant: the line is not consulted.
IgnoreLine(a, id) == TRUE

\* head(asset) is None or this exit.
AtHead(a, id) == queues[a] # <<>> => Head(queues[a]) = id

-----------------------------------------------------------------------------
QueueInit ==
    /\ queueConfig = NoQueueConfig
    /\ queues = [a \in Assets |-> <<>>]

QueueAdminCalls ==
    \/ \E admin \in Admins : queue_initialize(admin)
    \/ \E s \in Admins, x \in Auctions : queue_set_auction(s, x)

QueueMoves ==
    \E x \in Auctions, a \in Assets, id \in ExitIds :
        (enqueue(x, a, id) \/ dequeue(x, a, id)) /\ UNCHANGED queueConfig

QueueNext == QueueAdminCalls \/ QueueMoves

QueueSpec == QueueInit /\ [][QueueNext]_queueVars

-----------------------------------------------------------------------------
(* Properties.                                                             *)

\* The line is bounded and an exit stands in it at most once, so dequeue, which
\* removes only the first match, always takes an exit out of the line entirely.
LineWellFormed ==
    \A a \in Assets :
        /\ Len(queues[a]) <= MAX_QUEUE_DEPTH
        /\ \A i, j \in 1 .. Len(queues[a]) : queues[a][i] = queues[a][j] => i = j

\* Nothing reorders the line: of two exits that stand in it before and after a
\* step, the one that was ahead is still ahead, and an exit that joins stands
\* behind everyone who was there.
OrderKept ==
    [][\A a \in Assets :
         \A i, j \in 1 .. Len(queues'[a]) :
            LET ahead == queues'[a][i]  behind == queues'[a][j]
            IN  (i < j /\ InLine(queues[a], behind)) =>
                    /\ InLine(queues[a], ahead)
                    /\ position_of(queues[a], ahead) < position_of(queues[a], behind)
      ]_queueVars
=============================================================================
