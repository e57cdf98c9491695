-------------------------- MODULE MCProjectInside ---------------------------
(* ProjectInside as TLC runs it. *)
EXTENDS ProjectInside, TLC

CONSTANTS b1, b2, web, jupyter

Symmetry == Permutations(Boxes)
=============================================================================
