--------------------------- MODULE MCPrimarySource ---------------------------
(* Instances of PrimarySource for TLC. *)
EXTENDS PrimarySource, TLC

CONSTANTS w1, w2

(* Every entry has every language, or one of them lacks the last. *)
Translated == {Languages, 0..(MaxChanges - 1)}

Everything == {Languages}

Interchangeable == Permutations(Workers)
=============================================================================
