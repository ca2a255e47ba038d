--------------------------- MODULE MCFileHistory ----------------------------
(* Instances of FileHistory for TLC. *)
EXTENDS FileHistory, TLC

CONSTANTS x, y

OnePath == {<<x, y, x>>}
=============================================================================
