----------------------------- MODULE RoleDaemon -----------------------------
(***************************************************************************)
(* A role-MCP daemon (container/role-mcp/daemon.py) with both its sides:   *)
(* the jobs (RoleJobs) and the memory (RoleMemory).  A note is all that    *)
(* passes from one to the other, and when it does is left open there; so a *)
(* behaviour plays one side and leaves the other as it starts.             *)
(***************************************************************************)
EXTENDS RoleJobs, RoleMemory

VARIABLE side       \* which of the two this behaviour plays

daemonVars == <<side, vars, memoryVars>>

DaemonInit == side \in {"jobs", "memory"} /\ Init /\ MemoryInit

JobStep    == side = "jobs" /\ Next /\ UNCHANGED <<side, memoryVars>>
MemoryStep == side = "memory" /\ MemoryNext /\ UNCHANGED <<side, vars>>

DaemonNext == JobStep \/ MemoryStep

DaemonSpec == DaemonInit /\ [][DaemonNext]_daemonVars /\ Fairness
=============================================================================
