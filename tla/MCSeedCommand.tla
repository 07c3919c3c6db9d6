---------------------------- MODULE MCSeedCommand ----------------------------
(***************************************************************************)
(* SeedCommand for TLC.                                                    *)
(***************************************************************************)
EXTENDS SeedCommand, TLC
=============================================================================
