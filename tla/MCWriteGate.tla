---------------------------- MODULE MCWriteGate -----------------------------
(* Model-checking values for WriteGate. *)
EXTENDS WriteGate, TLC

Symmetry == Permutations(Actions) \union Permutations(Workers)
=============================================================================
