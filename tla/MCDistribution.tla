--------------------------- MODULE MCDistribution ---------------------------
(***************************************************************************)
(* Distribution instantiated for TLC.                                      *)
(***************************************************************************)
EXTENDS DistributionRefinement, TLC

CONSTANTS r1, r2, r3, p1, p2

\* Relays and processes are interchangeable: no action orders them.
RelaySymmetry == Permutations(Relays)
ClusterSymmetry == Permutations(Relays) \cup Permutations(Processes)
=============================================================================
