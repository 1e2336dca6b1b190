----------------------------- MODULE MCLpVault ------------------------------
(***************************************************************************)
(* The vault on a small instance, with two history variables: since when a *)
(* backing has been active without interruption, read off the active flag  *)
(* alone and not off backed_at, and when a withdrawal was asked for.       *)
(***************************************************************************)
EXTENDS LpVault, TLC

CONSTANTS NodeFunds, VaultDust

\* Each node owns NodeFunds of USDC; the vault may hold some nobody deposited.
MCInitialBalance ==
    [t \in Tokens |-> [h \in Holders |->
        IF t # Usdc THEN 0
        ELSE IF h \in Nodes THEN NodeFunds
        ELSE IF h = VaultAddr THEN VaultDust ELSE 0]]
MCTokens == Assets \cup {Usdc}
MCHolders == Nodes \cup Payees \cup {VaultAddr}

\* A payout goes to a seller or a treasury.  USDC that reaches a node therefore comes
\* from a withdrawal of its own.
ASSUME NodesAreNotPayees == Payees \cap Nodes = {}

VARIABLES
    armedSince,     \* when the backing was last switched on
    requestedAt     \* when the pending withdrawal was requested
mcVars == <<vaultVars, armedSince, requestedAt>>

MCInit ==
    /\ VaultInit
    /\ armedSince = [n \in Nodes |-> [a \in Assets |-> 0]]
    /\ requestedAt = [n \in Nodes |-> 0]

Rearmed(n, a) == appetites'[n][a].active /\ ~appetites[n][a].active

MCNext ==
    /\ VaultNext
    /\ armedSince' = [n \in Nodes |-> [a \in Assets |->
                         IF Rearmed(n, a) THEN now ELSE armedSince[n][a]]]
    /\ requestedAt' = [n \in Nodes |->
                         IF ~withdrawals'[n].stored THEN 0
                         ELSE IF ~withdrawals[n].stored THEN now ELSE requestedAt[n]]

MCSpec == MCInit /\ [][MCNext]_mcVars

\* A node does not front-run an exit: capital is committed only under a backing
\* that has been active, without a pause, for MIN_BACKING_AGE.  set_appetite
\* restarts backed_at when an inactive backing is switched on, and keeps it when
\* the terms of an active one change.
AgedBeforeCommit ==
    [][\A n \in Nodes, a \in Assets :
          appetites'[n][a].exposure > appetites[n][a].exposure =>
              /\ appetites[n][a].active
              /\ now - armedSince[n][a] >= MIN_BACKING_AGE]_mcVars

\* The timelock is served in full: capital goes back to a node no sooner than
\* withdraw_timelock after it asked, also when the end of the timelock is more than a
\* u64 can hold.
TimelockServed ==
    [][\A n \in Nodes :
          (withdrawals[n].stored /\ balance'[Usdc][n] > balance[Usdc][n])
            => now - requestedAt[n] >= vaultConfig.withdraw_timelock]_mcVars

\* Ledgers close, and a node that asked to withdraw keeps calling
\* execute_withdrawal until it succeeds.
FairMCSpec ==
    /\ MCSpec
    /\ WF_mcVars(MCNext /\ now' # now)
    /\ \A n \in Nodes : WF_mcVars(execute_withdrawal(n) /\ MCNext)

\* A withdrawal that unlocks within the modelled time is executed or cancelled,
\* whatever the auction commits and the router pays out meanwhile.
WithdrawalEnds ==
    \A n \in Nodes :
        (withdrawals[n].stored /\ withdrawals[n].unlock_at <= MaxTime)
            ~> ~withdrawals[n].stored

Symmetry == Permutations(Nodes)
=============================================================================
