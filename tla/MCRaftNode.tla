----------------------------- MODULE MCRaftNode -----------------------------
(***************************************************************************)
(* RaftNode for TLC.                                                       *)
(***************************************************************************)
EXTENDS RaftNode, TLC

CONSTANTS n1, n2, n3, n4

Symmetry == Permutations(Node)

\* Three elections and three different Append RPCs: two candidates in one term and
\* one in another, and RPCs of two leaders that overtake each other.
FewRPCs == Cardinality(votes) <= 3 /\ Cardinality(appends) <= 3
=============================================================================
