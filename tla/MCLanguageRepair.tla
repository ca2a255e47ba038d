-------------------------- MODULE MCLanguageRepair --------------------------
(* Instances of LanguageRepair for TLC. *)
EXTENDS LanguageRepair

CONSTANTS w1, w2

(* Every upload has every language, or lacks the last. *)
Translated == {Languages, 0..(MaxChanges - 1)}

(* Originals as old versions of the program left them: one that a repair
   can rewrite, and one that it cannot. *)
Untidy == {[Clean EXCEPT !.raw = {0}],
           [Clean EXCEPT !.clash = {0}, !.stray = TRUE]}
=============================================================================
