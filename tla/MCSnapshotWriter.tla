-------------------------- MODULE MCSnapshotWriter --------------------------
(* The snapshot writer with two foreground threads and its Timers.        *)
EXTENDS SnapshotWriter

CONSTANTS t1, t2

MCThreads == {t1, t2}

=============================================================================
