--------------------------- MODULE ProjectInside ----------------------------
(***************************************************************************)
(* What the host puts inside a project's container: the software staged    *)
(* into its workspace (AgentStore) and the boxes that its inner docker     *)
(* runs (BoxLedger).  They share the container: an update copies agents    *)
(* into the boxes that run, which AgentStore has as its last step, and a   *)
(* recreate is a step of each.  So a behaviour plays one of them and       *)
(* leaves the other as it starts.                                          *)
(***************************************************************************)
EXTENDS AgentStore, BoxLedger

VARIABLE side       \* which of the two this behaviour plays

insideVars == <<side, storeVars, vars>>

InsideInit ==
    /\ side \in {"staging", "boxes"}
    /\ StoreInit /\ Init
    /\ side = "boxes"   => cache = [i \in Items |-> [local |-> 0, files |-> 0,
                                                     side |-> 0]]
    /\ side = "staging" => aim = CHOOSE some \in Aims : TRUE

StagingStep == side = "staging" /\ StoreNext /\ UNCHANGED <<side, vars>>
BoxStep     == side = "boxes" /\ Next /\ UNCHANGED <<side, storeVars>>

InsideNext == StagingStep \/ BoxStep

InsideSpec == InsideInit /\ [][InsideNext]_insideVars
=============================================================================
