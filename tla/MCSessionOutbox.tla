--------------------------- MODULE MCSessionOutbox ---------------------------
(* Instances of SessionOutbox for TLC. *)
EXTENDS SessionOutbox

CONSTANTS s1, s2, w1, w2
=============================================================================
