---------------------------- MODULE MCAlgorithms ----------------------------
(* Algorithms for TLC.                                                     *)
EXTENDS Algorithms

SmallTerms == {-2, -1, 0, 1, 3}
=============================================================================
