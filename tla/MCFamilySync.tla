---------------------------- MODULE MCFamilySync ----------------------------
(***************************************************************************)
(* FamilySync for TLC.                                                     *)
(***************************************************************************)
EXTENDS FamilySync, TLC

CONSTANTS r1, r2, m1, m2, m3

Symmetry == Permutations({r1, r2}) \cup Permutations({m1, m2, m3})
=============================================================================
