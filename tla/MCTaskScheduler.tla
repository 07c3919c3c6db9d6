--------------------------- MODULE MCTaskScheduler ---------------------------
(***************************************************************************)
(* TaskScheduler for TLC.                                                  *)
(***************************************************************************)
EXTENDS TaskScheduler, TLC

CONSTANTS b1, b2   \* the slots

SlotSymmetry == Permutations({b1, b2})

\* A bound: two ends of the process, or one and a job that fails; one of the two in a
\* service that had never run, of which the properties say nothing once it ended.
Troubles == reboots + failures <= IF fresh THEN 1 ELSE 2
=============================================================================
