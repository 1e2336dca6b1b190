------------------------------- MODULE Totals -------------------------------
(***************************************************************************)
(* The sum of a function into the natural numbers, written without         *)
(* recursion so that it can be reasoned about for every domain: the sum of *)
(* f is the number of its units, one unit <<x, k>> for every x in the      *)
(* domain and every k in 1 .. f[x].  CustodyProofs proves the one fact the *)
(* other proofs use, what an update of f at one point does to the sum.     *)
(***************************************************************************)
EXTENDS Integers, FiniteSets

Units(f) == UNION {{x} \X (1 .. f[x]) : x \in DOMAIN f}

Total(f) == Cardinality(Units(f))
=============================================================================
