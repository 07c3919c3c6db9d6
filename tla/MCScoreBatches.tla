--------------------------- MODULE MCScoreBatches ---------------------------
(***************************************************************************)
(* ScoreBatches for TLC: all lists of at most MaxScores scores.            *)
(***************************************************************************)
EXTENDS ScoreBatches

CONSTANT MaxScores   \* bound on the length of the list

MCInit ==
  /\ scores \in UNION {[1..n -> Scores] : n \in 0..MaxScores}
  /\ index = 0
  /\ curr = <<>>
MCSpec == MCInit /\ [][GroupNext]_groupVars
=============================================================================
