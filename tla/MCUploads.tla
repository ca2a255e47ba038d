----------------------------- MODULE MCUploads ------------------------------
(* Instances of Uploads for TLC. *)
EXTENDS Uploads, TLC

CONSTANTS f1, f2, w1, w2

Interchangeable == Permutations(Files) \union Permutations(Workers)
=============================================================================
