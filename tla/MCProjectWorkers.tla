-------------------------- MODULE MCProjectWorkers --------------------------
(* ProjectWorkers as TLC runs it: projects, ports, rs-worker processes and *)
(* slugs are interchangeable.                                              *)
EXTENDS ProjectWorkers, TLC

CONSTANTS p1, p2, a1, a2

Symmetry == Permutations(Projects) \cup Permutations(Ports)
               \cup Permutations(Clis) \cup Permutations(Slugs)
=============================================================================
