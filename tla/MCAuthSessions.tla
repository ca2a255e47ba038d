--------------------------- MODULE MCAuthSessions ---------------------------
(* Instances of AuthSessions for TLC. *)
EXTENDS AuthSessions, TLC

CONSTANTS s1, s2, s3, s4

Interchangeable == Permutations(Sessions)
=============================================================================
