---------------------------- MODULE MCDotProxy ------------------------------
(* Instances of DotProxy for TLC: queries are interchangeable. *)
EXTENDS DotProxy
CONSTANTS q1, q2
Symmetry == Permutations(Queries)
=============================================================================
