---------------------------- MODULE MCFifoQueue -----------------------------
(***************************************************************************)
(* The queue with two assets and more exits than a line has room for.      *)
(***************************************************************************)
EXTENDS FifoQueue, TLC

Symmetry == Permutations(Assets)
=============================================================================
