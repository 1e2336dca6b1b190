------------------------------ MODULE MCFaucet ------------------------------
(***************************************************************************)
(* The faucet with a history of what it has given and promised.            *)
(***************************************************************************)
EXTENDS Faucet

MCDrips == {-1, 0, 1}

VARIABLES
    claims,     \* the timestamps of each user's claims of each token, oldest first
    least,      \* the shortest cooldown that was ever in force
    promised    \* the last Claimed event: its next_at and the cooldown it was made under

mcVars == <<faucetVars, claims, least, promised>>

NoPromise == [next_at |-> 0, cooldown |-> 0]

Shortest(a, b) == IF a < b THEN a ELSE b

MCInit ==
    /\ FaucetInit
    /\ claims = [u \in Users |-> [t \in Tokens |-> <<>>]]
    /\ least = U64_MAX
    /\ promised = [u \in Users |-> [t \in Tokens |-> NoPromise]]

MCNext ==
    \/ /\ FaucetAdminCalls
       /\ least' = Shortest(least, config'.cooldown)
       /\ UNCHANGED <<claims, promised>>
    \/ \E u \in Users, t \in Tokens :
         /\ claim(u, t)
         /\ claims' = [claims EXCEPT ![u][t] = Append(@, now)]
         /\ promised' = [promised EXCEPT ![u][t] =
                           [next_at |-> ClaimedNextAt, cooldown |-> config.cooldown]]
         /\ UNCHANGED least
    \/ \E t \in Tokens : GiveMint(t) /\ UNCHANGED <<claims, least, promised>>
    \/ LedgerCloses /\ UNCHANGED <<claims, least, promised>>

MCSpec == MCInit /\ [][MCNext]_mcVars

\* The tap cannot be drained with a loop: between the first and the last claim of a
\* user there is room for one shortest cooldown per claim after the first, however
\* the admin closes and reopens the tap or moves the cooldown in between.
RateLimited ==
    \A u \in Users, t \in Tokens :
        LET times == claims[u][t] IN
        times # <<>> => Last(times) - Head(times) >= (Len(times) - 1) * least

\* The event and the getter tell the claimant the same: as long as the cooldown is
\* what it was, next_claim answers the next_at of the Claimed event until that
\* moment, and 0 from then on.
PromiseKept ==
    \A u \in Users, t \in Tokens :
        (/\ promised[u][t] # NoPromise
         /\ promised[u][t].cooldown = config.cooldown)
        => next_claim(u, t) = IF now >= promised[u][t].next_at THEN 0
                              ELSE promised[u][t].next_at
=============================================================================
