------------------------------ MODULE MCCache -------------------------------
(* Small instances of Cache for TLC *)
EXTENDS Cache, TLC

Symmetry == Permutations(Subs)
=============================================================================
