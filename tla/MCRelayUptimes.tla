--------------------------- MODULE MCRelayUptimes ---------------------------
(***************************************************************************)
(* RelayUptimes for TLC.                                                   *)
(***************************************************************************)
EXTENDS RelayUptimes, TLC

CONSTANTS r1, r2, r3

\* r1 and r2 have a key in their contact, r3 only the pattern.
MCContact == [r \in Relays |-> IF r = r3 THEN "pattern" ELSE "key"]
=============================================================================
