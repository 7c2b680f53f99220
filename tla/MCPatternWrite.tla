--------------------------- MODULE MCPatternWrite ---------------------------
(* Two workers are alike. *)
EXTENDS PatternWrite, TLC

Symmetry == Permutations(Workers)
=============================================================================
