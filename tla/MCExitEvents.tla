---------------------------- MODULE MCExitEvents ----------------------------
(***************************************************************************)
(* The exit layer with the monitor's snapshot of its events.               *)
(***************************************************************************)
EXTENDS MCLayer, ExitEvents

\* The instance is one to which the theorem about SnapshotAddsUp applies.
ASSUME InstanceApart == BooksApart

Symmetry == Permutations(Nodes)
=============================================================================
