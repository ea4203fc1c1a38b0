--------------------------- MODULE MCInteractions ---------------------------
(* Two requests, a review with a deadline and a plain one, and two cancels. *)
EXTENDS Interactions
=============================================================================
