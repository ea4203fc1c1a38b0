-------------------------- MODULE MCSessionRecovery --------------------------
(* SessionRecovery on instances small enough for TLC; the bounds are in the *)
(* .cfg files.                                                              *)
EXTENDS SessionRecovery

=============================================================================
