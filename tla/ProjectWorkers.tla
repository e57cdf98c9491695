--------------------------- MODULE ProjectWorkers ---------------------------
(***************************************************************************)
(* A project: its container through its lifecycle, which the host's        *)
(* commands drive (ProjectLifecycle), and the workers inside it, which     *)
(* rs-worker drives (WorkerRegistry).  Neither reads what the other keeps: *)
(* a recreate carries the worker tree along in the workspace, and for      *)
(* rs-worker it is one more place to die.  So a behaviour plays one side   *)
(* and leaves the other as it starts.                                      *)
(***************************************************************************)
EXTENDS WorkerRegistry, ProjectLifecycle

VARIABLE side       \* which of the two this behaviour plays

bothVars == <<side, vars, projectVars>>

BothInit ==
    /\ side \in {"project", "workers"}
    /\ Init /\ ProjectInit
    /\ side = "workers" => aim = CHOOSE some \in Aims : TRUE

ProjectStep == side = "project" /\ ProjectNext /\ UNCHANGED <<side, vars>>
WorkersStep == side = "workers" /\ Next /\ UNCHANGED <<side, projectVars>>

BothNext == ProjectStep \/ WorkersStep

BothSpec == BothInit /\ [][BothNext]_bothVars
=============================================================================
