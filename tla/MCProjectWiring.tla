--------------------------- MODULE MCProjectWiring --------------------------
(* ProjectWiring as TLC runs it. *)
EXTENDS ProjectWiring, TLC

CONSTANTS shared, outside, r1, r2, p1, p2, b1, g1, g2

Symmetry == Permutations(Roles) \cup Permutations(Projects)
               \cup Permutations(Repos)
=============================================================================
