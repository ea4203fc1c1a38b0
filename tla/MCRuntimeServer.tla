--------------------------- MODULE MCRuntimeServer ---------------------------
(* RuntimeServer on instances small enough for TLC.  The submissions of each *)
(* instance are chosen in its .cfg file; their kinds follow from their names.*)
EXTENDS RuntimeServer

CONSTANTS chat1, chat2, create, pause, reset, exit

KindOf(s) ==
  CASE s \in {chat1, chat2} -> "chat"
    [] s = create -> "create"
    [] s = pause -> "pause"
    [] s = reset -> "reset"
    [] s = exit -> "exit"

MCKind == [s \in Subs |-> KindOf(s)]

=============================================================================
