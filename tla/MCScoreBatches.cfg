\* Lists of up to six scores out of four, in batches of two.
SPECIFICATION MCSpec
CONSTANTS
  Scores = {a, b, c, d}
  ScoresPerBatch = 2
  MaxScores = 6
INVARIANTS
  BatchesFilled
  ScoresInOrder
CHECK_DEADLOCK FALSE
