----------------------------- MODULE MCMemCache -----------------------------
(* An instance of MemCache for TLC. *)
EXTENDS MemCache, TLC

Symmetry == Permutations(Callers) \cup Permutations(Slices) \cup Permutations(Keys)
=============================================================================
