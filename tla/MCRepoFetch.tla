---------------------------- MODULE MCRepoFetch ----------------------------
(* RepoFetch alone, over a branch with a merge. *)
EXTENDS RepoFetch

CONSTANTS fa, fb

F(f) == [file |-> f, merge |-> FALSE]
M(f) == [file |-> f, merge |-> TRUE]

OneBranch == {<<F(fa), M(fb), F(fa)>>}
=============================================================================
