--------------------------- MODULE MCEventsService ---------------------------
(***************************************************************************)
(* EventsService for TLC.                                                  *)
(***************************************************************************)
EXTENDS EventsService, TLC

CONSTANTS a1, l1
=============================================================================
