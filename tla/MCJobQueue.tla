----------------------------- MODULE MCJobQueue -----------------------------
(* Instances of JobQueue for TLC. *)
EXTENDS JobQueue, TLC

CONSTANTS j1, j2, j3, p1, w1, w2

TwoAttempts == [k \in Kinds |-> 2]

Interchangeable == Permutations(Jobs) \union Permutations(Workers)
=============================================================================
