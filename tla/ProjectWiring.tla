---------------------------- MODULE ProjectWiring ----------------------------
(***************************************************************************)
(* What is wired into a project from the host: the services it may use and *)
(* the workers that offer them (RoleWiring), and the forge with the repos  *)
(* that its agents work (DevForge).  The two share the project's container *)
(* and nothing else: a recreate is a step of each.  So a behaviour plays   *)
(* one of them and leaves the other as it starts.                          *)
(***************************************************************************)
EXTENDS RoleWiring, DevForge

VARIABLE side       \* which of the two this behaviour plays

bothVars == <<side, wireVars, vars>>

BothInit ==
    /\ side \in {"wiring", "forge"}
    /\ WireInit /\ Init
    /\ side = "forge"  => wireAim = CHOOSE some \in WireAims : TRUE
    /\ side = "wiring" => aim = CHOOSE some \in Aims : TRUE

WireStep  == side = "wiring" /\ WireNext /\ UNCHANGED <<side, vars>>
ForgeStep == side = "forge" /\ Next /\ UNCHANGED <<side, wireVars>>

BothNext == WireStep \/ ForgeStep

BothSpec == BothInit /\ [][BothNext]_bothVars
=============================================================================
