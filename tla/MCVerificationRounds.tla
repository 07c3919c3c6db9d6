------------------------ MODULE MCVerificationRounds ------------------------
(***************************************************************************)
(* VerificationRounds for TLC.                                             *)
(***************************************************************************)
EXTENDS VerificationRounds, TLC

CONSTANTS plain, proven, partial, fake   \* relays by their hardware_info

MCInfo == [r \in Relays |->
  CASE r \in {plain, fake} -> "none" [] r = proven -> "complete" [] OTHER -> "incomplete"]

\* A bound: rounds are followed up to their first recovery.
FirstAttempts == \A v \in Rounds : recovery[v] = NoJob
=============================================================================
