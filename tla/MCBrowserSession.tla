-------------------------- MODULE MCBrowserSession --------------------------
(* Instances of BrowserSession for TLC. *)
EXTENDS BrowserSession, TLC

CONSTANTS s1, s2, s3, s4, a, b

Interchangeable == Permutations(Sessions) \union Permutations(Tabs)
=============================================================================
