--------------------------- MODULE MCHistoryLedger ---------------------------
(* HistoryLedger on instances small enough for TLC; the bounds are in the   *)
(* .cfg files.                                                              *)
EXTENDS HistoryLedger

=============================================================================
