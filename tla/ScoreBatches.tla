---------------------------- MODULE ScoreBatches ----------------------------
(***************************************************************************)
(* groupScoreJobs of the DistributionService: the reduce that cuts the     *)
(* scores of a round into the batches of its add-scores jobs.  One step is *)
(* one call of the reduce callback, so the properties hold of every prefix *)
(* of the list.                                                            *)
(***************************************************************************)
EXTENDS Integers, Sequences

CONSTANTS
  Scores,     \* the score records
  ScoresPerBatch   \* DistributionService.scoresPerBatch, 7 in the code

ASSUME GroupAssumption == ScoresPerBatch \in Nat \ {0}

VARIABLES
  scores,   \* data.scores
  index,    \* how many of them the reduce has been through
  curr      \* the accumulator: the batches so far

groupVars == <<scores, index, curr>>

\* A definition marked (slip) is a mistake the code could have made and does not;
\* no action uses it.

\* (slip: < taken for <=)
Grouped_OffByOne(batches, score) ==
  LET n == Len(batches) IN
    IF n = 0 \/ Len(batches[n]) > ScoresPerBatch
    THEN Append(batches, <<score>>)
    ELSE [batches EXCEPT ![n] = Append(@, score)]

\* (slip: the full batch is not put back)
Grouped_DropsFull(batches, score) ==
  LET n == Len(batches) IN
    IF n = 0 THEN <<<<score>>>>
    ELSE IF Len(batches[n]) >= ScoresPerBatch
    THEN Append(SubSeq(batches, 1, n - 1), <<score>>)
    ELSE [batches EXCEPT ![n] = Append(@, score)]

\* The callback: start a batch when there is none or the last one is full,
\* otherwise take the last batch off, extend it and put it back.
Grouped(batches, score) ==
  LET n == Len(batches) IN
    IF n = 0 \/ Len(batches[n]) >= ScoresPerBatch
    THEN Append(batches, <<score>>)
    ELSE [batches EXCEPT ![n] = Append(@, score)]

GroupInit ==
  /\ scores \in Seq(Scores)
  /\ index = 0
  /\ curr = <<>>

GroupNext ==
  /\ index < Len(scores)
  /\ curr' = Grouped(curr, scores[index + 1])
  /\ index' = index + 1
  /\ UNCHANGED scores

GroupSpec == GroupInit /\ [][GroupNext]_groupVars

----------------------------------------------------------------------------
\* The position in the list of the i-th score of batch k: all the batches before
\* it are full.
Position(k, i) == (k - 1) * ScoresPerBatch + i

\* The accumulator is a list of non-empty batches of scores.
GroupTypeOK ==
  /\ scores \in Seq(Scores)
  /\ index \in 0..Len(scores)
  /\ curr \in Seq(Seq(Scores))

\* No batch exceeds scoresPerBatch, every batch but the last is full, and none is
\* empty: an interaction never carries more scores than the contract is given at
\* a time, and the round takes as few of them as it can.
BatchesFilled ==
  \A k \in 1..Len(curr) :
    /\ Len(curr[k]) \in 1..ScoresPerBatch
    /\ k < Len(curr) => Len(curr[k]) = ScoresPerBatch

\* The batches hold the scores seen so far, each once and in order: the i-th score
\* of batch k is the one at its position in the list, and they add up.
ScoresInOrder ==
  /\ \A k \in 1..Len(curr) : \A i \in 1..Len(curr[k]) :
       /\ Position(k, i) \in 1..index
       /\ curr[k][i] = scores[Position(k, i)]
  /\ Len(curr) = 0 => index = 0
  /\ Len(curr) > 0 => index = Position(Len(curr), Len(curr[Len(curr)]))
=============================================================================
