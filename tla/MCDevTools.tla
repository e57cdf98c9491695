----------------------------- MODULE MCDevTools -----------------------------
(* DevTools as TLC runs it: a clone meets a branch of three commits, with  *)
(* and without a merge.                                                    *)
EXTENDS DevTools

CONSTANTS fa, fb

F(f) == [file |-> f, merge |-> FALSE]
M(f) == [file |-> f, merge |-> TRUE]

SomeBranches == {<<F(fa), F(fb), F(fa)>>, <<F(fa), F(fa), F(fb)>>,
                 <<F(fa), M(fb), F(fa)>>, <<M(fb), F(fa), F(fa)>>}
=============================================================================
