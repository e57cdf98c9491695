------------------------------ MODULE DevTools ------------------------------
(***************************************************************************)
(* What stands around the forge of DevForge: its backup (BoardBackup), the *)
(* reviews of what the agents push (ReviewLane), rs-fetch, which takes it  *)
(* into a clone of the human's (RepoFetch), and, in a dev box, rs-land     *)
(* (LandPr) and repo-watch (RepoWatch).  The five share no variable: what  *)
(* one needs of another is an input of its own (a push, a Gitea that is    *)
(* away), so a behaviour plays one of them and leaves the others as they   *)
(* start.                                                                  *)
(***************************************************************************)
EXTENDS BoardBackup, ReviewLane, RepoFetch, LandPr, RepoWatch

VARIABLE part       \* which of the five this behaviour plays

toolVars == <<part, boardVars, reviewVars, fetchVars, landVars, watchVars>>

(* What the other parts may start with is all the same to this one.        *)
ToolInit ==
    /\ part \in {"board", "review", "fetch", "land", "watch"}
    /\ BoardInit /\ ReviewInit /\ FetchInit /\ LandInit /\ WatchInit
    /\ part # "review" => reviewAim = CHOOSE some \in ReviewAims : TRUE
    /\ part # "fetch"  => branch = CHOOSE some \in Branches : TRUE

BoardStep ==
    /\ part = "board" /\ BoardNext
    /\ UNCHANGED <<part, reviewVars, fetchVars, landVars, watchVars>>
ReviewStep ==
    /\ part = "review" /\ ReviewNext
    /\ UNCHANGED <<part, boardVars, fetchVars, landVars, watchVars>>
FetchStep ==
    /\ part = "fetch" /\ FetchNext
    /\ UNCHANGED <<part, boardVars, reviewVars, landVars, watchVars>>
LandStep ==
    /\ part = "land" /\ LandNext
    /\ UNCHANGED <<part, boardVars, reviewVars, fetchVars, watchVars>>
WatchStep ==
    /\ part = "watch" /\ WatchNext
    /\ UNCHANGED <<part, boardVars, reviewVars, fetchVars, landVars>>

ToolNext == BoardStep \/ ReviewStep \/ FetchStep \/ LandStep \/ WatchStep

ToolSpec == ToolInit /\ [][ToolNext]_toolVars
=============================================================================
