------------------------- MODULE ProjectWiringProofs -------------------------
(***************************************************************************)
(* Proofs about what is wired into a project.  The services and workers    *)
(* (RoleWiring): between commands the files say what there is, a sync that *)
(* went through settled everything, and a parked worker stays parked.      *)
(* None of this is inductive by itself: in the middle of a command the     *)
(* hole, the entry and the route of one service differ, and a worker has   *)
(* no container.  The invariant says which may differ at which step.       *)
(*                                                                         *)
(* The code forge (DevForge, second half): rows of the ledger work, tokens *)
(* are recorded, live forks stay.  Here the invariant says, of each        *)
(* command, what it has found out or done so far for the accounts in its   *)
(* hand, and that everybody else's rows and credentials are as between     *)
(* commands.                                                               *)
(***************************************************************************)
EXTENDS ProjectWiring, FiniteSetTheorems, TLAPS

Addresses == 0 .. LastIp + 1
Verbs == {"none", "allow", "deny", "sync", "disable", "enable", "unlist",
          "stop", "start", "models", "recreate"}
Steps == {"idle", "add", "hole", "save", "drop", "dsave", "reload", "off",
          "halt", "derive", "rm", "run", "unlist", "park", "flag", "gate",
          "each", "render"}

Command == [verb : Verbs, pc : Steps, mcp : Mcps \cup {NoMcp},
            ip : Addresses, role : Roles \cup {NoRole},
            add : SUBSET Mcps, drop : SUBSET Mcps, roles : SUBSET Roles,
            done : BOOLEAN, force : BOOLEAN, on : SUBSET Mcps,
            failed : SUBSET Mcps, quiet : BOOLEAN]

Registered == [known : BOOLEAN, on : BOOLEAN, roles : SUBSET Roles]
Service    == [st : {"up", "down", "loops"}, ip : Ips]
RoleEntry  == [src : {"absent", "auto", "explicit"}, up : SUBSET Mcps,
               stopped : BOOLEAN]
Container  == [st : {"none", "up", "exited"}, tools : SUBSET Mcps,
               env : 0 .. 1]

RegistryTyped ==
    /\ reg \in [Mcps -> Registered] /\ svc \in [Mcps -> Service]
    /\ router \in BOOLEAN /\ sup \in BOOLEAN /\ model \in 0 .. 1

NetTyped == holes \subseteq Mcps \X Ips /\ allow \in [Mcps -> Addresses]

WorkersTyped ==
    /\ roles \in [Roles -> RoleEntry]
    /\ box \in [Roles -> Container]
    /\ calls \in [Roles -> {"none", "live", "file"}]

WireTyped == RegistryTyped /\ NetTyped /\ WorkersTyped /\ act \in Command

(* The steps of each command, and what it names at them.                   *)
Shaped ==
    /\ act.verb = "none"     => act.pc = "idle"
    /\ act.verb = "allow"    => act.pc \in {"add", "hole", "save", "reload"}
    /\ act.verb = "deny"     => act.pc \in {"drop", "dsave", "reload"}
    /\ act.verb = "sync"     =>
         act.pc \in {"add", "hole", "save", "drop", "dsave", "reload",
                     "derive", "rm", "run"}
    /\ act.verb = "disable"  =>
         act.pc \in {"drop", "dsave", "reload", "off", "halt"}
    /\ act.verb = "enable"   => act.pc \in {"rm", "run", "reload"}
    /\ act.verb = "unlist"   => act.pc \in {"unlist", "reload"}
    /\ act.verb = "stop"     => act.pc \in {"park", "flag"}
    /\ act.verb = "start"    => act.pc \in {"rm", "run", "flag"}
    /\ act.verb = "models"   => act.pc \in {"gate", "each", "rm", "run"}
    /\ act.verb = "recreate" => act.pc \in {"render", "each", "rm", "run"}
    /\ act.pc \in {"hole", "save", "dsave", "off", "halt"} => act.mcp \in Mcps
    /\ act.verb = "disable" => act.mcp \in Mcps
    /\ act.pc \in {"hole", "save"} => act.ip \in Ips
    /\ act.pc \in {"unlist", "park", "flag", "rm", "run"} => act.role \in Roles
    /\ act.done => act.pc \in {"add", "hole", "save", "drop", "dsave",
                               "reload", "off", "halt"}

(* A hole for every noted address, and a noted address for every hole, but *)
(* for the service that is being allowed or denied.                        *)
Holed ==
    /\ \A m \in Allowed \ cut :
         <<m, allow[m]>> \in holes \/ (At("dsave") /\ act.mcp = m)
    /\ \A a \in holes \ stray :
         allow[a[1]] = a[2] \/ (At("save") /\ a = <<act.mcp, act.ip>>)
    /\ At("save") => <<act.mcp, act.ip>> \in holes
    /\ At("dsave") => <<act.mcp, allow[act.mcp]>> \notin holes \ stray

(* A command that changed what the proxy serves is still to render it.     *)
Unrendered ==
    \/ act.done /\ act.pc \notin {"off", "halt"}
    \/ act.pc \in {"reload", "render"}
    \/ act.verb = "enable"

Routed == sup /\ "routes" \notin cut /\ ~Unrendered => route = Rendered

(* A worker as its entry and the project's marker want it.                 *)
Fit(r) ==
    box[r].st = "up" /\ box[r].env = model /\ box[r].tools \subseteq roles[r].up

(* What a command is still to run again.                                   *)
Busy(r) ==
    \/ act.role = r /\ act.pc \in {"rm", "run", "unlist", "park", "flag"}
    \/ act.verb = "models" /\ (At("gate") \/ r \in act.roles)
    \/ act.verb = "recreate" /\ (At("render") \/ r \in act.roles)

(* Only listed roles are run, and one that is not listed has no container  *)
(* but one that could not be removed.                                      *)
Rostered ==
    /\ \A r \in Roles : roles[r].src = "absent" => roles[r] = NoEntry
    /\ \A r \in Roles : ~Listed(r) => box[r] = Gone \/ r \in cut
    /\ act.pc \in {"rm", "run", "park", "flag"} => Listed(act.role)
    /\ act.verb \in {"models", "recreate"} => act.roles \subseteq Members

Served ==
    /\ sup => \A r \in Members \ cut :
                 roles[r].stopped \/ Busy(r) \/ Fit(r)
    /\ act.verb = "start" /\ At("flag") => Fit(act.role)

(* Enabling and recreating run none that is parked.                        *)
Unparked ==
    /\ act.verb \in {"enable", "recreate"} /\ act.pc \in {"rm", "run"} =>
         ~roles[act.role].stopped
    /\ act.verb = "recreate" => \A r \in act.roles : ~roles[r].stopped

(* The two phases of a sync, and the workers that it derives after them.   *)
Deriving ==
    act.pc \in {"derive", "rm", "run"} \/ (At("reload") /\ ~act.done)

Settled(r) ==
    roles[r].src = "auto" =>
      /\ roles[r].up \subseteq Allowed
      /\ act.quiet => roles[r].up = Derived(r)

Syncing ==
    act.verb = "sync" =>
      /\ act.on \subseteq Allowed \cup act.add \cup act.failed
      /\ Allowed \subseteq act.on \cup act.drop
      /\ act.add \subseteq act.on
      /\ act.drop \cap act.on = {}
      /\ act.pc \in {"hole", "save"} => act.mcp \in act.add
      /\ act.pc \notin {"add", "hole", "save"} => act.add = {}
      /\ act.pc = "dsave" => act.mcp \in act.drop
      /\ Deriving \/ At("reload") => act.drop = {}
      /\ At("reload") /\ ~act.done => act.roles = {}
      /\ Deriving => \A r \in InUse(Roles) \ act.roles : Settled(r)

WireInv == /\ WireTyped /\ Shaped /\ Holed /\ Routed
           /\ Rostered /\ Served /\ Unparked /\ Syncing

-----------------------------------------------------------------------------
(* The steps, by the part they play.                                       *)
Ways == {"auto", "again", "pin"}

Edits ==
    \/ \E m \in Mcps :
         \/ EnableMcp(m) \/ StopMcp(m) \/ LoopMcp(m)
         \/ \E rs \in SUBSET Roles : AddMcp(m, rs) \/ SetRoles(m, rs)
         \/ \E f \in BOOLEAN : RemoveMcp(m, f)
         \/ \E ip \in Ips : StartMcp(m, ip)
    \/ FleetDown \/ FleetUp

Begins ==
    \/ \E ms \in SUBSET Mcps : BeginAllow(ms) \/ BeginDeny(ms)
    \/ \E m \in Mcps, f \in BOOLEAN : BeginDisable(m, f)
    \/ \E r \in Roles :
         \/ \E how \in Ways, pins \in SUBSET Mcps : EnableRole(r, how, pins)
         \/ \E f \in BOOLEAN : BeginStop(r, f)
         \/ BeginDisableRole(r) \/ BeginStart(r)
    \/ \E v \in 0 .. 1 : BeginModels(v)
    \/ BeginSync \/ RetryModels \/ BeginRecreate

Allows ==
    \/ \E m \in Mcps : AllowPick(m) \/ AllowSkip(m) \/ AllowDies(m)
    \/ OpenHole \/ SaveAllowed \/ AddsDone

Denies ==
    \/ \E m \in Mcps : DenySkip(m) \/ CloseHole(m)
    \/ SaveDenied \/ DropsDone \/ Reload \/ SwitchOff \/ HaltService

Manages ==
    \/ \E r \in Roles : DeriveRole(r) \/ EachRole(r)
    \/ UnlistRole \/ Park \/ Flag \/ SyncDone \/ Gate \/ RenderNew \/ EachDone
    \/ RemoveOld \/ RunNew \/ RunFails

Happens ==
    \/ \E r \in Roles : CallBegins(r) \/ CallEnds(r) \/ Restarts(r)
    \/ StopProject \/ WiringDies

LEMMA WireCases ==
    ASSUME WireNext
    PROVE  Edits \/ Begins \/ Allows \/ Denies \/ Manages \/ Happens
<1>1. /\ InUse(Roles) \subseteq Roles /\ InUse(Mcps) \subseteq Mcps
      /\ {} \subseteq Mcps /\ {"auto", "again", "pin"} = Ways
  BY DEF InUse, Ways
<1>2. ASSUME NEW m \in Mcps, NEW rs \in SUBSET InUse(Roles),
             AddMcp(m, rs) \/ SetRoles(m, rs)
      PROVE  Edits
  BY <1>1, <1>2 DEF Edits
<1>3. ASSUME NEW ms \in SUBSET InUse(Mcps), BeginAllow(ms) \/ BeginDeny(ms)
      PROVE  Begins
  BY <1>1, <1>3 DEF Begins
<1>4. ASSUME NEW r \in Roles, NEW how \in {"auto", "again"},
             EnableRole(r, how, {})
      PROVE  Begins
  BY <1>1, <1>4 DEF Begins
<1>5. ASSUME NEW r \in Roles, NEW pins \in SUBSET InUse(Mcps),
             EnableRole(r, "pin", pins)
      PROVE  Begins
  BY <1>1, <1>5 DEF Begins
<1>. QED
  BY <1>2, <1>3, <1>4, <1>5, Zenon
     DEF WireNext, Edits, Begins, Allows, Denies, Manages, Happens

(* One container is removed, or all stay.                                  *)
LEMMA RemoveIs ==
    ASSUME WorkersTyped, NEW r \in Roles, RemoveBox(r)
    PROVE  /\ box' \in [Roles -> Container]
           /\ calls' \in [Roles -> {"none", "live", "file"}]
           /\ \A q \in Roles : q # r => box'[q] = box[q]
           /\ box'[r] \in {box[r], Gone}
<1>1. Gone \in Container
  BY DEF Gone, Container
<1>. QED BY <1>1 DEF RemoveBox, WorkersTyped

(* A worker that could not be run has left a husk at most.                 *)
LEMMA FailIs ==
    ASSUME WorkersTyped, act.role \in Roles, RunFails
    PROVE  /\ box' \in [Roles -> Container]
           /\ \A q \in Roles : q # act.role => box'[q] = box[q]
           /\ box'[act.role] \in {box[act.role], Husk}
<1>1. Husk \in Container
  BY DEF Husk, Gone, Container
<1>. QED BY <1>1 DEF RunFails, WorkersTyped

(* The inner docker of a new supervisor: nothing, or what it had before,   *)
(* and what ran then runs again.                                           *)
LEMMA RecreateIs ==
    ASSUME WireTyped, BeginRecreate
    PROVE  /\ box' \in [Roles -> Container]
           /\ calls' \in [Roles -> {"none", "live", "file"}]
           /\ \A r \in Roles :
                /\ box[r] = Gone => box'[r] = Gone
                /\ box'[r].st = "up" => box[r].st = "up"
           /\ \A r \in Roles : ~Listed(r) /\ r \in cut =>
                r \in cut' \/ box'[r] = Gone
<1>1. Gone \in Container /\ Gone.st = "none"
  BY DEF Gone, Container
<1>2. \A r \in Roles : Booted(r, box[r].env) \in Container
  BY DEF Booted, Container, WireTyped, WorkersTyped, RoleEntry, Allowed
<1>3. \A r \in Roles : CallsLost[r] \in {"none", "live", "file"}
  BY DEF CallsLost, WireTyped, WorkersTyped
<1>4. /\ box' = [r \in Roles |-> IF Resumed(r) THEN Booted(r, box[r].env)
                                  ELSE IF Keeps THEN box[r] ELSE Gone]
      /\ calls' = [r \in Roles |-> IF Resumed(r) THEN "none"
                                    ELSE CallsLost[r]]
      /\ cut' = IF Keeps THEN cut ELSE cut \ {r \in Roles : ~Listed(r)}
  BY DEF BeginRecreate
<1>5. \A r \in Roles : Resumed(r) => Keeps /\ box[r].st = "up"
  BY DEF Resumed
<1>. HIDE DEF Booted, CallsLost, Resumed, Gone, Keeps
<1>6. box' \in [Roles -> Container]
  BY <1>1, <1>2, <1>4 DEF WireTyped, WorkersTyped
<1>7. calls' \in [Roles -> {"none", "live", "file"}]
  BY <1>3, <1>4
<1>8. ASSUME NEW r \in Roles
      PROVE  /\ box[r] = Gone => box'[r] = Gone
             /\ box'[r].st = "up" => box[r].st = "up"
  BY <1>1, <1>4, <1>5
<1>9. ASSUME NEW r \in Roles, ~Listed(r), r \in cut
      PROVE  r \in cut' \/ box'[r] = Gone
  BY <1>4, <1>5, <1>9
<1>. QED BY <1>6, <1>7, <1>8, <1>9

-----------------------------------------------------------------------------
(* Every step keeps the types.                                             *)
LEMMA CommandTyped ==
    ASSUME WireInv, WireNext
    PROVE  act' \in Command
<1>. act \in Command /\ Shaped /\ NetTyped
  BY DEF WireInv, WireTyped
<1>. NoVerb \in Command
  BY WiringAssumption DEF NoVerb, Command, Verbs, Steps, None, Addresses
<1>. /\ NoMcp \in Mcps \cup {NoMcp} /\ NoRole \in Roles \cup {NoRole}
     /\ None \in Addresses
     /\ \A m \in Mcps : svc[m].ip \in Addresses
  BY WiringAssumption
     DEF None, Addresses, WireInv, WireTyped, RegistryTyped, Service, Ips
<1>. USE WiringAssumption DEF At, World, Wires, Workers, Rest, hist
<1>1. CASE Edits
  <2>1. ASSUME NEW m \in Mcps, EnableMcp(m)
        PROVE  act' \in Command
    BY <2>1, ZenonT(40) DEF EnableMcp, Rewrite, Noticed, Command, Steps
  <2>2. ASSUME NEW m \in Mcps, StopMcp(m)
        PROVE  act' \in Command
    BY <2>2, ZenonT(40) DEF StopMcp, ServiceKeeps, Noticed, Command, Steps
  <2>3. ASSUME NEW m \in Mcps, LoopMcp(m)
        PROVE  act' \in Command
    BY <2>3, ZenonT(40) DEF LoopMcp, ServiceKeeps, Noticed, Command, Steps
  <2>4. ASSUME NEW m \in Mcps, NEW ip \in Ips, StartMcp(m, ip)
        PROVE  act' \in Command
    BY <2>4, ZenonT(40) DEF StartMcp, ServiceKeeps, Noticed, Command, Steps
  <2>5. ASSUME NEW m \in Mcps, NEW rs \in SUBSET Roles, AddMcp(m, rs)
        PROVE  act' \in Command
    BY <2>5, ZenonT(40) DEF AddMcp, Rewrite, Noticed, Command, Steps
  <2>6. ASSUME NEW m \in Mcps, NEW rs \in SUBSET Roles, SetRoles(m, rs)
        PROVE  act' \in Command
    BY <2>6, ZenonT(40) DEF SetRoles, Rewrite, Noticed, Command, Steps
  <2>7. ASSUME NEW m \in Mcps, NEW f \in BOOLEAN, RemoveMcp(m, f)
        PROVE  act' \in Command
    BY <2>7, ZenonT(40) DEF RemoveMcp, Rewrite, Noticed, Command, Steps
  <2>8. CASE FleetDown
    BY <2>8, ZenonT(40) DEF FleetDown, ServiceKeeps, Noticed, Command, Steps
  <2>9. CASE FleetUp
    BY <2>9, ZenonT(40) DEF FleetUp, ServiceKeeps, Noticed, Command, Steps
  <2>. QED BY <1>1, <2>1, <2>2, <2>3, <2>4, <2>5, <2>6, <2>7, <2>8, <2>9 DEF
        Edits
<1>2. CASE Begins
  <2>1. ASSUME NEW ms \in SUBSET Mcps, BeginAllow(ms)
        PROVE  act' \in Command
    BY <2>1 DEF BeginAllow, Starts, Command, Steps, Verbs
  <2>2. ASSUME NEW ms \in SUBSET Mcps, BeginDeny(ms)
        PROVE  act' \in Command
    BY <2>2 DEF BeginDeny, Starts, Command, Steps, Verbs
  <2>3. ASSUME NEW m \in Mcps, NEW f \in BOOLEAN, BeginDisable(m, f)
        PROVE  act' \in Command
    BY <2>3, ZenonT(40) DEF BeginDisable, Starts, Command, Steps, Verbs
  <2>4. ASSUME NEW r \in Roles, BeginStart(r)
        PROVE  act' \in Command
    BY <2>4 DEF BeginStart, Starts, Command, Steps, Verbs
  <2>5. ASSUME NEW r \in Roles, BeginDisableRole(r)
        PROVE  act' \in Command
    BY <2>5 DEF BeginDisableRole, Starts, Command, Steps, Verbs
  <2>6. ASSUME NEW r \in Roles, NEW f \in BOOLEAN, BeginStop(r, f)
        PROVE  act' \in Command
    <3>1. [NoVerb EXCEPT !.verb = "stop", !.pc = "park", !.role = r] \in Command
      BY DEF Command, Steps, Verbs
    <3>2. [NoVerb EXCEPT !.verb = "stop", !.pc = "flag", !.role = r] \in Command
      BY DEF Command, Steps, Verbs
    <3>. QED BY <2>6, <3>1, <3>2 DEF BeginStop, Starts
  <2>7. ASSUME NEW r \in Roles, NEW how \in Ways, NEW pins \in SUBSET Mcps,
            EnableRole(r, how, pins)
        PROVE  act' \in Command
    BY <2>7, ZenonT(40) DEF EnableRole, Starts, Command, Steps, Verbs
  <2>8. ASSUME NEW v \in 0 .. 1, BeginModels(v)
        PROVE  act' \in Command
    BY <2>8, ZenonT(40) DEF BeginModels, Starts, Command, Steps, Verbs
  <2>9. CASE BeginSync
    BY <2>9, ZenonT(40)
    DEF BeginSync, Starts, Command, Steps, Verbs, Enabled, Allowed
  <2>10. CASE RetryModels
    BY <2>10 DEF RetryModels, Starts, Command, Steps, Verbs
  <2>11. CASE BeginRecreate
    BY <2>11 DEF BeginRecreate, Starts, Command, Steps,
       Verbs
  <2>. QED BY <1>2, <2>1, <2>2, <2>3, <2>4, <2>5, <2>6, <2>7, <2>8, <2>9,
        <2>10, <2>11 DEF Begins
<1>3. CASE Allows
  <2>1. ASSUME NEW m \in Mcps, AllowPick(m)
        PROVE  act' \in Command
    BY <2>1 DEF AllowPick, Command, Steps
  <2>2. ASSUME NEW m \in Mcps, AllowSkip(m)
        PROVE  act' \in Command
    BY <2>2 DEF AllowSkip, Skipped, Command, Steps
  <2>3. ASSUME NEW m \in Mcps, AllowDies(m)
        PROVE  act' \in Command
    BY <2>3 DEF AllowDies, Finish, Command, Steps
  <2>4. CASE SaveAllowed
    BY <2>4 DEF SaveAllowed, Command, Steps, Shaped
  <2>5. CASE AddsDone
    BY <2>5 DEF AddsDone, To, Finish, Command, Steps
  <2>6. CASE OpenHole
    <3>1. [act EXCEPT !.pc = "save"] \in Command
      BY DEF Command, Steps
    <3>2. Skipped(act.mcp) \in Command
      BY DEF Command, Steps, Skipped
    <3>. QED BY <2>6, <3>1, <3>2 DEF OpenHole, To
  <2>. QED BY <1>3, <2>1, <2>2, <2>3, <2>4, <2>5, <2>6 DEF Allows
<1>4. CASE Denies
  <2>1. ASSUME NEW m \in Mcps, DenySkip(m)
        PROVE  act' \in Command
    BY <2>1 DEF DenySkip, Command, Steps
  <2>2. ASSUME NEW m \in Mcps, CloseHole(m)
        PROVE  act' \in Command
    BY <2>2 DEF CloseHole, Command, Steps
  <2>3. CASE SaveDenied
    BY <2>3, ZenonT(40) DEF SaveDenied, Command, Steps
  <2>4. CASE DropsDone
    <3>1. [act EXCEPT !.pc = "reload"] \in Command
      BY DEF Command, Steps
    <3>2. [act EXCEPT !.pc = "derive", !.roles = InUse(Roles)] \in Command
      BY DEF Command, Steps, InUse
    <3>. QED BY <2>4, <3>1, <3>2 DEF DropsDone, To, Finish
  <2>5. CASE Reload
    <3>1. [act EXCEPT !.pc = "off"] \in Command
      BY DEF Command, Steps
    <3>2. [act EXCEPT !.pc = "derive", !.done = FALSE,
                       !.roles = InUse(Roles)] \in Command
      BY DEF Command, Steps, InUse
    <3>. QED BY <2>5, <3>1, <3>2 DEF Reload, To, Finish
  <2>6. CASE SwitchOff \/ HaltService
    BY <2>6 DEF SwitchOff, HaltService, To, Finish, Command, Steps
  <2>. QED BY <1>4, <2>1, <2>2, <2>3, <2>4, <2>5, <2>6 DEF Denies
<1>5. CASE Manages
  <2>1. ASSUME NEW r \in Roles, DeriveRole(r)
        PROVE  act' \in Command
    <3>1. [act EXCEPT !.roles = @ \ {r}, !.force = TRUE,
                       !.pc = "rm", !.role = r] \in Command
      BY DEF Command, Steps
    <3>2. [act EXCEPT !.roles = @ \ {r}] \in Command
      BY DEF Command, Steps
    <3>. QED BY <2>1, <3>1, <3>2 DEF DeriveRole
  <2>2. ASSUME NEW r \in Roles, EachRole(r)
        PROVE  act' \in Command
    BY <2>2 DEF EachRole, Command, Steps
  <2>3. CASE UnlistRole \/ Park \/ Flag \/ SyncDone
    BY <2>3 DEF UnlistRole, Park, Flag, SyncDone, To, Command, Steps, Finish
  <2>4. CASE Gate
    <3>1. [act EXCEPT !.pc = "each", !.roles = Members] \in Command
      BY ZenonT(40) DEF Command, Steps, Members
    <3>. QED BY <2>4, <3>1 DEF Gate, Finish
  <2>5. CASE RenderNew
    BY <2>5 DEF RenderNew, Command, Steps, Members
  <2>6. CASE EachDone \/ RemoveOld
    BY <2>6 DEF EachDone, RemoveOld, Finish, Command, Steps, To
  <2>7. CASE RunNew
    <3>1. After \in Command
      BY DEF Command, Steps, After
    <3>. QED BY <2>7, <3>1 DEF RunNew
  <2>8. CASE RunFails
    <3>1. After \in Command
      BY DEF Command, Steps, After
    <3>. QED BY <2>8, <3>1 DEF RunFails, Finish
  <2>. QED BY <1>5, <2>1, <2>2, <2>3, <2>4, <2>5, <2>6, <2>7, <2>8 DEF Manages
<1>6. CASE Happens
  BY <1>6 DEF Happens, CallBegins, CallEnds, Restarts, StopProject,
     WiringDies, Command, Steps, Scar, Finish
<1>. QED BY <1>1, <1>2, <1>3, <1>4, <1>5, <1>6, WireCases

LEMMA RegistryKept ==
    ASSUME WireInv, WireNext
    PROVE  RegistryTyped'
<1>. act \in Command /\ Shaped /\ RegistryTyped
  BY DEF WireInv, WireTyped
<1>. USE WiringAssumption DEF At, World, Wires, Workers, Rest, hist
<1>1. CASE Edits
  <2>1. ASSUME NEW m \in Mcps, EnableMcp(m)
        PROVE  RegistryTyped'
    BY <2>1, ZenonT(40)
    DEF EnableMcp, Rewrite, Noticed, RegistryTyped, Registered
  <2>2. ASSUME NEW m \in Mcps, StopMcp(m) \/ LoopMcp(m)
        PROVE  RegistryTyped'
    BY <2>2 DEF StopMcp, LoopMcp, ServiceKeeps, Noticed, RegistryTyped,
       Service
  <2>3. ASSUME NEW m \in Mcps, NEW ip \in Ips, StartMcp(m, ip)
        PROVE  RegistryTyped'
    BY <2>3 DEF StartMcp, ServiceKeeps, Noticed, RegistryTyped, Service
  <2>4. ASSUME NEW m \in Mcps, NEW rs \in SUBSET Roles, AddMcp(m, rs)
        PROVE  RegistryTyped'
    BY <2>4 DEF AddMcp, Rewrite, Noticed, RegistryTyped, Registered
  <2>5. ASSUME NEW m \in Mcps, NEW rs \in SUBSET Roles, SetRoles(m, rs)
        PROVE  RegistryTyped'
    BY <2>5 DEF SetRoles, Rewrite, Noticed, RegistryTyped, Registered
  <2>6. ASSUME NEW m \in Mcps, NEW f \in BOOLEAN, RemoveMcp(m, f)
        PROVE  RegistryTyped'
    BY <2>6 DEF RemoveMcp, Rewrite, Noticed, RegistryTyped, Registered,
       Service
  <2>7. CASE FleetDown
    <3>1. \A m \in Mcps : [svc[m] EXCEPT !.st = "down"] \in Service
      BY DEF RegistryTyped, Service
    <3>2. PICK survivors \in SUBSET (IF Fails THEN Shared ELSE {}) :
            svc' = [m \in Mcps |->
                      IF m \in Shared \ survivors
                      THEN [svc[m] EXCEPT !.st = "down"] ELSE svc[m]]
      BY <2>7 DEF FleetDown
    <3>3. svc' \in [Mcps -> Service]
      BY <3>1, <3>2 DEF RegistryTyped
    <3>. QED
      BY <2>7, <3>3 DEF FleetDown, ServiceKeeps, Noticed, RegistryTyped
  <2>8. CASE FleetUp
    BY <2>8 DEF FleetUp, ServiceKeeps, Noticed, RegistryTyped, Service, Ips
  <2>. QED BY <1>1, <2>1, <2>2, <2>3, <2>4, <2>5, <2>6, <2>7, <2>8 DEF Edits
<1>2. CASE Begins
  BY <1>2, ZenonT(40)
  DEF Begins, BeginAllow, BeginDeny, BeginDisable, BeginStart, BeginStop,
      BeginDisableRole, EnableRole, BeginModels, BeginSync, RetryModels,
      BeginRecreate, Starts, RegistryTyped
<1>3. CASE Allows
  BY <1>3, ZenonT(40) DEF Allows, AllowPick, AllowSkip, AllowDies, OpenHole,
     SaveAllowed, AddsDone, RegistryTyped, Skipped, Finish, To
<1>4. CASE Denies
  <2>1. ASSUME NEW m \in Mcps, DenySkip(m) \/ CloseHole(m)
        PROVE  RegistryTyped'
    BY <2>1 DEF DenySkip, CloseHole, RegistryTyped
  <2>2. CASE SaveDenied \/ DropsDone \/ Reload
    BY <2>2 DEF SaveDenied, DropsDone, Reload, RegistryTyped, To, Finish
  <2>3. CASE SwitchOff
    <3>1. \A m \in Mcps : [reg EXCEPT ![m].on = FALSE] \in [Mcps -> Registered]
      BY ZenonT(40) DEF RegistryTyped, Registered
    <3>2. act.mcp \in Mcps BY <2>3 DEF SwitchOff, Shaped
    <3>. QED BY <2>3, <3>1, <3>2 DEF SwitchOff, RegistryTyped
  <2>4. CASE HaltService
    BY <2>4 DEF HaltService, Finish, RegistryTyped, Service, Shaped
  <2>. QED BY <1>4, <2>1, <2>2, <2>3, <2>4 DEF Denies
<1>5. CASE Manages
  BY <1>5, ZenonT(40)
  DEF Manages, DeriveRole, EachRole, UnlistRole, Park, Flag, SyncDone, Gate,
      RenderNew, EachDone, RemoveOld, RunNew, RunFails, RegistryTyped, To,
      Finish, After
<1>6. CASE Happens
  BY <1>6 DEF Happens, CallBegins, CallEnds, Restarts, StopProject,
     WiringDies, RegistryTyped, Scar, Finish
<1>. QED BY <1>1, <1>2, <1>3, <1>4, <1>5, <1>6, WireCases

LEMMA NetKept ==
    ASSUME WireInv, WireNext
    PROVE  NetTyped'
<1>. act \in Command /\ Shaped /\ NetTyped
  BY DEF WireInv, WireTyped
<1>. USE WiringAssumption DEF At, World, Wires, Workers, Rest, hist
<1>1. CASE Edits
  BY <1>1 DEF Edits, EnableMcp, StopMcp, LoopMcp, StartMcp, AddMcp,
     SetRoles, RemoveMcp, FleetDown, FleetUp, Rewrite, Noticed, NetTyped,
     ServiceKeeps
<1>2. CASE Begins
  BY <1>2 DEF Begins, BeginAllow, BeginDeny, BeginDisable, BeginStart,
     BeginStop, BeginDisableRole, EnableRole, BeginModels, BeginSync,
     RetryModels, BeginRecreate, Starts, NetTyped
<1>3. CASE Allows
  <2>1. ASSUME NEW m \in Mcps, AllowPick(m) \/ AllowSkip(m) \/ AllowDies(m)
        PROVE  NetTyped'
    BY <2>1 DEF AllowPick, AllowSkip, AllowDies, NetTyped, Skipped, Finish
  <2>2. CASE OpenHole
    BY <2>2 DEF OpenHole, Skipped, To, NetTyped, Shaped
  <2>3. CASE SaveAllowed
    BY <2>3 DEF SaveAllowed, NetTyped, Shaped, Ips, Addresses
  <2>4. CASE AddsDone
    BY <2>4 DEF AddsDone, To, Finish, NetTyped
  <2>. QED BY <1>3, <2>1, <2>2, <2>3, <2>4 DEF Allows
<1>4. CASE Denies
  <2>1. ASSUME NEW m \in Mcps, DenySkip(m)
        PROVE  NetTyped'
    BY <2>1 DEF DenySkip, NetTyped
  <2>2. ASSUME NEW m \in Mcps, CloseHole(m)
        PROVE  NetTyped'
    BY <2>2 DEF CloseHole, NetTyped
  <2>3. CASE SaveDenied
    <3>. None \in Addresses BY DEF None, Addresses
    <3>. QED BY <2>3 DEF SaveDenied, NetTyped
  <2>4. CASE DropsDone \/ Reload \/ SwitchOff \/ HaltService
    BY <2>4 DEF DropsDone, Reload, SwitchOff, HaltService, To, Finish,
       NetTyped
  <2>. QED BY <1>4, <2>1, <2>2, <2>3, <2>4 DEF Denies
<1>5. CASE Manages
  BY <1>5, ZenonT(40)
  DEF Manages, DeriveRole, EachRole, UnlistRole, Park, Flag, SyncDone, Gate,
      RenderNew, EachDone, RemoveOld, RunNew, RunFails, NetTyped, To, Finish,
      After
<1>6. CASE Happens
  BY <1>6 DEF Happens, CallBegins, CallEnds, Restarts, StopProject,
     WiringDies, NetTyped, Scar, Finish
<1>. QED BY <1>1, <1>2, <1>3, <1>4, <1>5, <1>6, WireCases

LEMMA WorkersKept ==
    ASSUME WireInv, WireNext
    PROVE  WorkersTyped'
<1>. act \in Command /\ Shaped /\ WorkersTyped /\ model \in 0 .. 1
  BY DEF WireInv, WireTyped, RegistryTyped
<1>. Gone \in Container /\ NoEntry \in RoleEntry
  BY DEF Gone, Container, NoEntry, RoleEntry
<1>. USE WiringAssumption DEF At, World, Wires, Workers, Rest, hist
<1>1. CASE Edits
  BY <1>1 DEF Edits, EnableMcp, StopMcp, LoopMcp, StartMcp, AddMcp,
     SetRoles, RemoveMcp, FleetDown, FleetUp, Rewrite, Noticed,
     WorkersTyped, ServiceKeeps
<1>2. CASE Begins
  <2>1. ASSUME NEW ms \in SUBSET Mcps, BeginAllow(ms) \/ BeginDeny(ms)
        PROVE  WorkersTyped'
    BY <2>1 DEF BeginAllow, BeginDeny, Starts, WorkersTyped
  <2>2. ASSUME NEW m \in Mcps, NEW f \in BOOLEAN, BeginDisable(m, f)
        PROVE  WorkersTyped'
    BY <2>2 DEF BeginDisable, Starts, WorkersTyped
  <2>3. ASSUME NEW r \in Roles, BeginStart(r)
        PROVE  WorkersTyped'
    BY <2>3 DEF BeginStart, Starts, WorkersTyped
  <2>8. ASSUME NEW r \in Roles, BeginDisableRole(r)
        PROVE  WorkersTyped'
    BY <2>8, RemoveIs DEF BeginDisableRole, Starts, WorkersTyped
  <2>4. ASSUME NEW r \in Roles, NEW f \in BOOLEAN, BeginStop(r, f)
        PROVE  WorkersTyped'
    BY <2>4 DEF BeginStop, Starts, WorkersTyped
  <2>5. ASSUME NEW r \in Roles, NEW how \in Ways, NEW pins \in SUBSET Mcps,
            EnableRole(r, how, pins)
        PROVE  WorkersTyped'
    BY <2>5 DEF EnableRole, Starts, WorkersTyped, RoleEntry, NewEntry,
       Derived, Allowed, Ways
  <2>6. ASSUME NEW v \in 0 .. 1, BeginModels(v)
        PROVE  WorkersTyped'
    BY <2>6 DEF BeginModels, Starts, WorkersTyped
  <2>7. CASE BeginSync \/ RetryModels
    BY <2>7 DEF BeginSync, RetryModels, Starts, WorkersTyped
  <2>9. CASE BeginRecreate
    BY <2>9, RecreateIs DEF BeginRecreate, WorkersTyped, WireInv
  <2>. QED BY <1>2, <2>1, <2>2, <2>3, <2>4, <2>5, <2>6, <2>7, <2>8, <2>9 DEF
        Begins
<1>3. CASE Allows
  BY <1>3, ZenonT(40) DEF Allows, AllowPick, AllowSkip, AllowDies, OpenHole,
     SaveAllowed, AddsDone, WorkersTyped, Skipped, Finish, To
<1>4. CASE Denies
  BY <1>4 DEF Denies, DenySkip, CloseHole, SaveDenied, DropsDone, Reload,
     SwitchOff, HaltService, WorkersTyped, To, Finish
<1>5. CASE Manages
  <2>1. ASSUME NEW r \in Roles, DeriveRole(r)
        PROVE  WorkersTyped'
    BY <2>1 DEF DeriveRole, WorkersTyped, RoleEntry, Derived, Allowed
  <2>2. ASSUME NEW r \in Roles, EachRole(r)
        PROVE  WorkersTyped'
    BY <2>2 DEF EachRole, WorkersTyped
  <2>3. CASE UnlistRole
    BY <2>3 DEF UnlistRole, To, WorkersTyped, Shaped
  <2>4. CASE Park
    <3>1. /\ act.role \in Roles /\ UNCHANGED roles
          /\ \/ UNCHANGED <<box, calls>>
             \/ /\ box' = [box EXCEPT ![act.role].st =
                             IF @ = "up" THEN "exited" ELSE @]
                /\ calls' = [calls EXCEPT ![act.role] =
                               IF @ = "live" THEN "file" ELSE @]
      BY <2>4 DEF Park, Shaped
    <3>2. /\ [box EXCEPT ![act.role].st = IF @ = "up" THEN "exited" ELSE @]
               \in [Roles -> Container]
          /\ [calls EXCEPT ![act.role] = IF @ = "live" THEN "file" ELSE @]
               \in [Roles -> {"none", "live", "file"}]
      BY <3>1 DEF WorkersTyped, Container
    <3>. QED BY <3>1, <3>2 DEF WorkersTyped
  <2>5. CASE Flag
    BY <2>5 DEF Flag, Finish, WorkersTyped, Shaped, RoleEntry
  <2>6. CASE SyncDone \/ Gate \/ RenderNew \/ EachDone
    BY <2>6 DEF SyncDone, Gate, RenderNew, EachDone, To, Finish,
       WorkersTyped
  <2>7. CASE RemoveOld
    BY <2>7, RemoveIs DEF RemoveOld, To, WorkersTyped, Shaped
  <2>8. CASE RunNew
    BY <2>8 DEF RunNew, After, WorkersTyped, Shaped, Container, Booted,
       Allowed
  <2>9. CASE RunFails
    <3>1. UNCHANGED <<roles, calls>> /\ act.role \in Roles
      BY <2>9 DEF RunFails, Shaped
    <3>. QED BY <2>9, <3>1, FailIs DEF WorkersTyped
  <2>. QED BY <1>5, <2>1, <2>2, <2>3, <2>4, <2>5, <2>6, <2>7, <2>8, <2>9 DEF
        Manages
<1>6. CASE Happens
  BY <1>6 DEF Happens, CallBegins, CallEnds, Restarts, StopProject,
     WiringDies, WorkersTyped, Shaped, Container, Booted, Allowed,
     CallsLost, Scar, Finish
<1>. QED BY <1>1, <1>2, <1>3, <1>4, <1>5, <1>6, WireCases

-----------------------------------------------------------------------------
(* A command goes from step to step as its verb says.                      *)
LEMMA ShapeKept ==
    ASSUME WireInv, WireNext
    PROVE  Shaped'
<1>. act \in Command /\ Shaped
  BY DEF WireInv, WireTyped
<1>. \A m \in Mcps : svc[m].ip \in Ips
  BY DEF WireInv, WireTyped, RegistryTyped, Service
<1>. act' = NoVerb => Shaped'
  BY DEF Shaped, NoVerb
<1>. USE DEF At, World, Wires, Workers, Rest, hist
<1>1. CASE Edits
  BY <1>1 DEF Edits, EnableMcp, StopMcp, LoopMcp, StartMcp, AddMcp,
     SetRoles, RemoveMcp, FleetDown, FleetUp, Rewrite, Noticed, Shaped,
     Command, ServiceKeeps
<1>2. CASE Begins
  <2>1. ASSUME NEW ms \in SUBSET Mcps, BeginAllow(ms)
        PROVE  Shaped'
    BY <2>1 DEF BeginAllow, Starts, Shaped, Command, NoVerb
  <2>2. ASSUME NEW ms \in SUBSET Mcps, BeginDeny(ms)
        PROVE  Shaped'
    BY <2>2 DEF BeginDeny, Starts, Shaped, Command, NoVerb
  <2>3. ASSUME NEW m \in Mcps, NEW f \in BOOLEAN, BeginDisable(m, f)
        PROVE  Shaped'
    BY <2>3 DEF BeginDisable, Starts, Shaped, Command, NoVerb
  <2>4. ASSUME NEW r \in Roles, BeginStart(r)
        PROVE  Shaped'
    BY <2>4 DEF BeginStart, Starts, Shaped, Command, NoVerb
  <2>5. ASSUME NEW r \in Roles, BeginDisableRole(r)
        PROVE  Shaped'
    BY <2>5 DEF BeginDisableRole, Starts, Shaped, Command, NoVerb
  <2>6. ASSUME NEW r \in Roles, NEW f \in BOOLEAN, BeginStop(r, f)
        PROVE  Shaped'
    <3>1. \/ act' = [NoVerb EXCEPT !.verb = "stop", !.pc = "park", !.role = r]
          \/ act' = [NoVerb EXCEPT !.verb = "stop", !.pc = "flag", !.role = r]
      BY <2>6 DEF BeginStop, Starts
    <3>2. CASE act' = [NoVerb EXCEPT !.verb = "stop", !.pc = "park", !.role = r]
      BY <3>2 DEF Shaped, NoVerb
    <3>3. CASE act' = [NoVerb EXCEPT !.verb = "stop", !.pc = "flag", !.role = r]
      BY <3>3 DEF Shaped, NoVerb
    <3>. QED BY <3>1, <3>2, <3>3
  <2>7. ASSUME NEW r \in Roles, NEW how \in Ways, NEW pins \in SUBSET Mcps,
            EnableRole(r, how, pins)
        PROVE  Shaped'
    BY <2>7 DEF EnableRole, Starts, Shaped, Command, NoVerb
  <2>8. ASSUME NEW v \in 0 .. 1, BeginModels(v)
        PROVE  Shaped'
    BY <2>8 DEF BeginModels, Starts, Shaped, Command, NoVerb
  <2>9. CASE BeginSync
    BY <2>9 DEF BeginSync, Starts, Shaped, Command, NoVerb
  <2>10. CASE RetryModels
    BY <2>10 DEF RetryModels, Starts, Shaped, Command, NoVerb
  <2>11. CASE BeginRecreate
    BY <2>11 DEF BeginRecreate, Starts, Shaped, Command,
       NoVerb
  <2>. QED BY <1>2, <2>1, <2>2, <2>3, <2>4, <2>5, <2>6, <2>7, <2>8, <2>9,
        <2>10, <2>11 DEF Begins
<1>3. CASE Allows
  <2>1. ASSUME NEW m \in Mcps, AllowPick(m)
        PROVE  Shaped'
    BY <2>1 DEF AllowPick, Shaped, Command
  <2>2. ASSUME NEW m \in Mcps, AllowSkip(m)
        PROVE  Shaped'
    BY <2>2 DEF AllowSkip, Skipped, Shaped, Command
  <2>3. ASSUME NEW m \in Mcps, AllowDies(m)
        PROVE  Shaped'
    BY <2>3 DEF AllowDies, Finish, Shaped, Command, NoVerb
  <2>4. CASE OpenHole
    BY <2>4, ZenonT(40) DEF OpenHole, Skipped, To, Shaped, Command, Verbs
  <2>5. CASE SaveAllowed
    BY <2>5 DEF SaveAllowed, Shaped, Command
  <2>6. CASE AddsDone
    BY <2>6 DEF AddsDone, To, Finish, Shaped, Command, NoVerb, Verbs
  <2>. QED BY <1>3, <2>1, <2>2, <2>3, <2>4, <2>5, <2>6 DEF Allows
<1>4. CASE Denies
  <2>1. ASSUME NEW m \in Mcps, DenySkip(m)
        PROVE  Shaped'
    BY <2>1 DEF DenySkip, Shaped, Command
  <2>2. ASSUME NEW m \in Mcps, CloseHole(m)
        PROVE  Shaped'
    BY <2>2 DEF CloseHole, Shaped, Command
  <2>3. CASE SaveDenied
    BY <2>3 DEF SaveDenied, Shaped, Command
  <2>4. CASE DropsDone
    <3>1. \/ act' = NoVerb
          \/ At("drop") /\ act.done /\ act' = [act EXCEPT !.pc = "reload"]
          \/ /\ At("drop") /\ ~act.done /\ act.verb = "sync"
             /\ act' = [act EXCEPT !.pc = "derive", !.roles = InUse(Roles)]
      BY <2>4 DEF DropsDone, To, Finish
    <3>2. CASE act' = NoVerb
      BY <3>2 DEF Shaped, Command, Verbs
    <3>3. CASE At("drop") /\ act.done /\ act' = [act EXCEPT !.pc = "reload"]
      BY <3>3 DEF Shaped, Command, Verbs
    <3>4. CASE /\ At("drop") /\ ~act.done /\ act.verb = "sync"
                   /\ act' = [act EXCEPT !.pc = "derive",
                                         !.roles = InUse(Roles)]
      BY <3>4 DEF Shaped, Command, Verbs
    <3>. QED BY <3>1, <3>2, <3>3, <3>4
  <2>5. CASE Reload
    <3>1. \/ act' = NoVerb
          \/ /\ act.verb = "disable" /\ At("reload")
             /\ act' = [act EXCEPT !.pc = "off"]
          \/ /\ At("reload") /\ act.verb = "sync"
             /\ act' = [act EXCEPT !.pc = "derive", !.done = FALSE,
                                  !.roles = InUse(Roles)]
      BY <2>5 DEF Reload, To, Finish
    <3>2. CASE act' = NoVerb
      BY <3>2 DEF Shaped, Command, Verbs
    <3>3. CASE /\ act.verb = "disable" /\ At("reload")
               /\ act' = [act EXCEPT !.pc = "off"]
      BY <3>3 DEF Shaped, Command, Verbs
    <3>4. CASE /\ At("reload") /\ act.verb = "sync"
                   /\ act' = [act EXCEPT !.pc = "derive", !.done = FALSE,
                                        !.roles = InUse(Roles)]
      BY <3>4 DEF Shaped, Command, Verbs
    <3>. QED BY <3>1, <3>2, <3>3, <3>4
  <2>6. CASE SwitchOff \/ HaltService
    BY <2>6 DEF SwitchOff, HaltService, To, Finish, Shaped, Command, NoVerb
  <2>. QED BY <1>4, <2>1, <2>2, <2>3, <2>4, <2>5, <2>6 DEF Denies
<1>5. CASE Manages
  <2>1. ASSUME NEW r \in Roles, DeriveRole(r)
        PROVE  Shaped'
    BY <2>1, ZenonT(40) DEF DeriveRole, Shaped, Command, Verbs
  <2>2. ASSUME NEW r \in Roles, EachRole(r)
        PROVE  Shaped'
    BY <2>2 DEF EachRole, Shaped, Command
  <2>3. CASE UnlistRole \/ Park \/ Flag \/ SyncDone
    BY <2>3 DEF UnlistRole, Park, Flag, SyncDone, To, Shaped, Command,
       Finish, NoVerb
  <2>4. CASE Gate
    <3>1. \/ act' = NoVerb
          \/ At("gate") /\ act' = [act EXCEPT !.pc = "each", !.roles = Members]
      BY <2>4 DEF Gate, Finish
    <3>2. CASE act' = NoVerb
      BY <3>2 DEF Shaped, Command, Verbs
    <3>3. CASE /\ At("gate")
               /\ act' = [act EXCEPT !.pc = "each", !.roles = Members]
      BY <3>3 DEF Shaped, Command, Verbs
    <3>. QED BY <3>1, <3>2, <3>3
  <2>5. CASE RenderNew \/ EachDone \/ RemoveOld
    BY <2>5, ZenonT(40)
    DEF RenderNew, EachDone, RemoveOld, Shaped, Command, Finish, NoVerb, To
  <2>6. CASE RunNew
    BY <2>6 DEF RunNew, After, Shaped, Command, Verbs
  <2>7. CASE RunFails
    <3>1. \/ act' = NoVerb
          \/ At("run") /\ act.verb = "recreate" /\ act' = After
      BY <2>7 DEF RunFails, Finish
    <3>2. CASE act' = NoVerb
      BY <3>2 DEF Shaped, Command, Verbs, After
    <3>3. CASE At("run") /\ act.verb = "recreate" /\ act' = After
      BY <3>3 DEF Shaped, Command, Verbs, After
    <3>. QED BY <3>1, <3>2, <3>3
  <2>. QED BY <1>5, <2>1, <2>2, <2>3, <2>4, <2>5, <2>6, <2>7 DEF Manages
<1>6. CASE Happens
  <2>1. ASSUME NEW r \in Roles, CallBegins(r) \/ CallEnds(r) \/ Restarts(r)
        PROVE  Shaped'
    BY <2>1 DEF CallBegins, CallEnds, Restarts, Shaped, Command
  <2>2. CASE StopProject
    BY <2>2 DEF StopProject, Shaped, Command
  <2>3. CASE WiringDies
    BY <2>3 DEF WiringDies, Scar, Finish, Shaped, Command, NoVerb
  <2>. QED BY <1>6, <2>1, <2>2, <2>3 DEF Happens
<1>. QED BY <1>1, <1>2, <1>3, <1>4, <1>5, <1>6, WireCases

-----------------------------------------------------------------------------
(* No hole, entry or service of a command is touched.                      *)
HolesRest ==
    /\ UNCHANGED <<holes, allow, stray>>
    /\ cut \cap Mcps \subseteq cut'
    /\ {act.pc, act'.pc} \cap {"save", "dsave"} = {}

LEMMA HoledKept ==
    ASSUME WireInv, WireNext
    PROVE  Holed'
<1>. /\ act \in Command /\ Shaped /\ Holed
     /\ allow \in [Mcps -> Addresses] /\ holes \subseteq Mcps \X Ips
  BY DEF WireInv, WireTyped, NetTyped
<1>. USE WiringAssumption DEF At, World, Wires, Workers, Rest, hist
<1>. HolesRest => Holed'
  BY DEF HolesRest, Holed, Allowed, None
<1>1. CASE Edits
  BY <1>1 DEF Edits, EnableMcp, StopMcp, LoopMcp, StartMcp, AddMcp,
     SetRoles, RemoveMcp, FleetDown, FleetUp, Rewrite, Noticed, HolesRest,
     Command, ServiceKeeps
<1>2. CASE Begins
  <2>1. ASSUME NEW ms \in SUBSET Mcps, BeginAllow(ms) \/ BeginDeny(ms)
        PROVE  Holed'
    BY <2>1 DEF BeginAllow, BeginDeny, Starts, HolesRest, Command, NoVerb
  <2>2. ASSUME NEW m \in Mcps, NEW f \in BOOLEAN, BeginDisable(m, f)
        PROVE  Holed'
    BY <2>2 DEF BeginDisable, Starts, HolesRest, Command, NoVerb
  <2>3. ASSUME NEW r \in Roles, BeginStart(r) \/ BeginDisableRole(r)
        PROVE  Holed'
    BY <2>3 DEF BeginStart, BeginDisableRole, Starts, HolesRest, Command,
       NoVerb
  <2>4. ASSUME NEW r \in Roles, NEW f \in BOOLEAN, BeginStop(r, f)
        PROVE  Holed'
    BY <2>4 DEF BeginStop, Starts, HolesRest, Command, NoVerb
  <2>5. ASSUME NEW r \in Roles, NEW how \in Ways, NEW pins \in SUBSET Mcps,
            EnableRole(r, how, pins)
        PROVE  Holed'
    BY <2>5 DEF EnableRole, Starts, HolesRest, Command, NoVerb
  <2>6. ASSUME NEW v \in 0 .. 1, BeginModels(v)
        PROVE  Holed'
    BY <2>6 DEF BeginModels, Starts, HolesRest, Command, NoVerb
  <2>7. CASE BeginSync \/ RetryModels \/ BeginRecreate
    BY <2>7 DEF BeginSync, RetryModels, BeginRecreate, Starts, HolesRest,
       Command, NoVerb
  <2>. QED BY <1>2, <2>1, <2>2, <2>3, <2>4, <2>5, <2>6, <2>7 DEF Begins
<1>3. CASE Allows
  <2>1. ASSUME NEW m \in Mcps, AllowPick(m) \/ AllowSkip(m) \/ AllowDies(m)
        PROVE  Holed'
    BY <2>1 DEF AllowPick, AllowSkip, AllowDies, HolesRest, Command,
       Skipped, Finish, NoVerb
  <2>2. CASE AddsDone
    BY <2>2 DEF AddsDone, To, Finish, HolesRest, Command, NoVerb
  <2>3. CASE OpenHole
    <3>1. /\ UNCHANGED <<allow, stray, cut>> /\ At("hole")
          /\ \/ /\ holes' = holes \cup {<<act.mcp, act.ip>>}
                /\ act'.pc = "save" /\ act'.mcp = act.mcp /\ act'.ip = act.ip
             \/ holes' = holes /\ act'.pc = "add"
      BY <2>3, ZenonT(40) DEF OpenHole, Skipped, To, Command
    <3>. QED BY <3>1 DEF Holed, Allowed
  <2>4. CASE SaveAllowed
    <3>. DEFINE m == act.mcp
                i == act.ip
    <3>1. /\ m \in Mcps /\ i \in Ips /\ i # None /\ At("save")
          /\ UNCHANGED holes /\ cut' = cut \ {m} /\ act'.pc = "add"
          /\ allow' = [allow EXCEPT ![m] = i]
          /\ stray' = (stray \cup (IF allow[m] # None THEN {<<m, allow[m]>>}
                                                   ELSE {})) \ {<<m, i>>}
      BY <2>4 DEF SaveAllowed, Shaped, Command, None, Ips
    <3>2. ASSUME NEW k \in Allowed' \ cut' PROVE <<k, allow'[k]>> \in holes'
      BY <3>1, <3>2 DEF Holed, Allowed
    <3>3. ASSUME NEW a \in holes' \ stray' PROVE allow'[a[1]] = a[2]
      <4>1. /\ a[1] \in Mcps /\ a = <<a[1], a[2]>> /\ a[2] # None
        BY <3>1, <3>3 DEF Ips, None
      <4>2. CASE a = <<m, i>> BY <3>1, <4>2
      <4>3. CASE a # <<m, i>>
        <5>1. a \notin stray /\ a \in holes /\ allow[a[1]] = a[2]
          BY <3>1, <3>3, <4>3 DEF Holed
        <5>2. a[1] # m BY <3>1, <3>3, <4>1, <4>3, <5>1
        <5>. QED BY <3>1, <4>1, <5>1, <5>2
      <4>. QED BY <4>2, <4>3
    <3>. QED BY <3>1, <3>2, <3>3 DEF Holed
  <2>. QED BY <1>3, <2>1, <2>2, <2>3, <2>4 DEF Allows
<1>4. CASE Denies
  <2>1. ASSUME NEW m \in Mcps, DenySkip(m)
        PROVE  Holed'
    BY <2>1 DEF DenySkip, HolesRest, Command
  <2>2. ASSUME NEW m \in Mcps, CloseHole(m)
        PROVE  Holed'
    BY <2>2 DEF CloseHole, Holed, Allowed, None, Command, Addresses
  <2>3. CASE SaveDenied
    BY <2>3 DEF SaveDenied, Holed, Allowed, None, Shaped, Command
  <2>4. CASE DropsDone
    BY <2>4 DEF DropsDone, To, Finish, HolesRest, Command, NoVerb
  <2>5. CASE Reload
    BY <2>5 DEF Reload, To, Finish, HolesRest, Command, NoVerb
  <2>6. CASE SwitchOff \/ HaltService
    BY <2>6 DEF SwitchOff, HaltService, To, Finish, HolesRest, Command,
       NoVerb
  <2>. QED BY <1>4, <2>1, <2>2, <2>3, <2>4, <2>5, <2>6 DEF Denies
<1>5. CASE Manages
  <2>1. ASSUME NEW r \in Roles, DeriveRole(r) \/ EachRole(r)
        PROVE  Holed'
    BY <2>1 DEF DeriveRole, EachRole, HolesRest, Command
  <2>2. CASE UnlistRole \/ Park \/ Flag \/ SyncDone \/ Gate \/ RenderNew \/
        EachDone \/ RemoveOld \/ RunNew \/ RunFails
    BY <2>2 DEF UnlistRole, Park, Flag, SyncDone, Gate, RenderNew, EachDone,
       RemoveOld, RunNew, RunFails, To, HolesRest, Command, Shaped, Finish,
       NoVerb, After
  <2>. QED BY <1>5, <2>1, <2>2 DEF Manages
<1>6. CASE Happens
  <2>1. ASSUME NEW r \in Roles, CallBegins(r) \/ CallEnds(r) \/ Restarts(r)
        PROVE  Holed'
    BY <2>1 DEF CallBegins, CallEnds, Restarts, HolesRest, Command
  <2>2. CASE WiringDies
    BY <2>2
    DEF WiringDies, Scar, Finish, NoVerb, Holed, Allowed, None, Shaped,
        Command
  <2>3. CASE StopProject
    BY <2>3 DEF StopProject, HolesRest, Command
  <2>. QED BY <1>6, <2>1, <2>2, <2>3 DEF Happens
<1>. QED BY <1>1, <1>2, <1>3, <1>4, <1>5, <1>6, WireCases

-----------------------------------------------------------------------------
(* The routes of the proxy, and what they are rendered from, stay.         *)
RoutesRest ==
    /\ UNCHANGED <<route, allow>>
    /\ sup' => sup
    /\ \A r \in Roles : Listed(r)' <=> Listed(r)
    /\ {"routes"} \cap cut \subseteq cut'
    /\ Unrendered => Unrendered' \/ "routes" \in cut'

LEMMA RoutesKept ==
    ASSUME WireInv, WireNext
    PROVE  Routed'
<1>. act \in Command /\ Shaped /\ Routed /\ Rostered /\ WorkersTyped
  BY DEF WireInv, WireTyped
<1>. RoutesRest => Routed'
  BY DEF RoutesRest, Routed, Rendered
<1>. act' = NoVerb => ~Unrendered'
  BY DEF Unrendered, NoVerb
<1>. act = NoVerb => ~Unrendered
  BY DEF Unrendered, NoVerb
<1>. USE WiringAssumption DEF At, World, Wires, Workers, Rest, hist
<1>1. CASE Edits
  BY <1>1 DEF Edits, EnableMcp, StopMcp, LoopMcp, StartMcp, AddMcp,
     SetRoles, RemoveMcp, FleetDown, FleetUp, Rewrite, Noticed, RoutesRest,
     Listed, Unrendered, Command, ServiceKeeps
<1>2. CASE Begins
  <2>1. ASSUME NEW ms \in SUBSET Mcps, BeginAllow(ms) \/ BeginDeny(ms)
        PROVE  Routed'
    BY <2>1 DEF BeginAllow, BeginDeny, Starts, RoutesRest, Listed,
       Unrendered, Command, Shaped, NoVerb
  <2>2. ASSUME NEW m \in Mcps, NEW f \in BOOLEAN, BeginDisable(m, f)
        PROVE  Routed'
    BY <2>2 DEF BeginDisable, Starts, RoutesRest, Listed, Unrendered,
       Command, Shaped, NoVerb
  <2>3. ASSUME NEW r \in Roles, BeginStart(r) \/ BeginDisableRole(r)
        PROVE  Routed'
    BY <2>3 DEF BeginStart, BeginDisableRole, Starts, RoutesRest, Listed,
       Unrendered, Command, Shaped, NoVerb
  <2>4. ASSUME NEW r \in Roles, NEW f \in BOOLEAN, BeginStop(r, f)
        PROVE  Routed'
    BY <2>4 DEF BeginStop, Starts, RoutesRest, Listed, Unrendered, Command,
       Shaped, NoVerb
  <2>5. ASSUME NEW r \in Roles, NEW how \in Ways, NEW pins \in SUBSET Mcps,
            EnableRole(r, how, pins)
        PROVE  Routed'
    <3>1. CASE roles[r].stopped
      <4>1. NoEntry.src = "absent" /\ ~NoEntry.stopped BY DEF NoEntry
      <4>2. Listed(r) /\ roles[r].src # "absent"
        BY <3>1, <4>1 DEF Listed, Rostered
      <4>3. NewEntry(r, how, pins).src # "absent"
        BY <4>2 DEF NewEntry, Ways
      <4>4. \A q \in Roles : Listed(q)' <=> Listed(q)
        BY <2>5, <4>1, <4>2, <4>3 DEF EnableRole, Listed, WorkersTyped,
           RoleEntry
      <4>. QED BY <2>5, <3>1, <4>4 DEF EnableRole, Starts, RoutesRest
    <3>2. CASE ~roles[r].stopped
      <4>1. act'.verb = "enable"
        BY <2>5, <3>2 DEF EnableRole, Starts, NoVerb
      <4>. QED BY <4>1 DEF Routed, Unrendered
    <3>. QED BY <3>1, <3>2
  <2>6. ASSUME NEW v \in 0 .. 1, BeginModels(v)
        PROVE  Routed'
    BY <2>6 DEF BeginModels, Starts, RoutesRest, Listed, Unrendered,
       Command, Shaped, NoVerb
  <2>7. CASE BeginSync \/ RetryModels
    BY <2>7 DEF BeginSync, RetryModels, Starts, RoutesRest, Listed,
       Unrendered, Command, Shaped, NoVerb
  <2>8. CASE BeginRecreate
    <3>1. act'.pc = "render"
      BY <2>8 DEF BeginRecreate, Starts, NoVerb
    <3>. QED BY <3>1 DEF Routed, Unrendered
  <2>. QED BY <1>2, <2>1, <2>2, <2>3, <2>4, <2>5, <2>6, <2>7, <2>8 DEF Begins
<1>3. CASE Allows
  <2>1. ASSUME NEW m \in Mcps, AllowPick(m) \/ AllowSkip(m)
        PROVE  Routed'
    BY <2>1, ZenonT(40)
    DEF AllowPick, AllowSkip, RoutesRest, Listed, Unrendered, Command, Shaped,
        Skipped
  <2>2. ASSUME NEW m \in Mcps, AllowDies(m)
        PROVE  Routed'
    BY <2>2 DEF AllowDies, Finish, RoutesRest, Listed, Unrendered, Command,
       Shaped
  <2>3. CASE OpenHole
    <3>1. \/ act' = [act EXCEPT !.pc = "save"]
          \/ act' = Skipped(act.mcp)
      BY <2>3 DEF OpenHole, To
    <3>2. CASE act' = [act EXCEPT !.pc = "save"]
      BY <3>2, <2>3
      DEF OpenHole, Skipped, Shaped, Command, RoutesRest, Listed, Unrendered
    <3>3. CASE act' = Skipped(act.mcp)
      BY <3>3, <2>3
      DEF OpenHole, Skipped, Shaped, Command, RoutesRest, Listed, Unrendered
    <3>. QED BY <3>1, <3>2, <3>3
  <2>4. CASE SaveAllowed
    BY <2>4 DEF SaveAllowed, Routed, Unrendered, Command
  <2>5. CASE AddsDone
    <3>1. /\ At("add")
          /\ \/ act' = NoVerb /\ ~act.done
             \/ act' = [act EXCEPT !.pc = "drop"]
             \/ act' = [act EXCEPT !.pc = "reload"]
      BY <2>5 DEF AddsDone, To, Finish
    <3>2. Unrendered => Unrendered'
      BY <3>1 DEF Unrendered, Command, Shaped
    <3>. QED BY <2>5, <3>2 DEF AddsDone, RoutesRest, Listed
  <2>. QED BY <1>3, <2>1, <2>2, <2>3, <2>4, <2>5 DEF Allows
<1>4. CASE Denies
  <2>1. ASSUME NEW m \in Mcps, DenySkip(m) \/ CloseHole(m)
        PROVE  Routed'
    BY <2>1, ZenonT(40)
    DEF DenySkip, CloseHole, RoutesRest, Listed, Unrendered, Command, Shaped
  <2>2. CASE SaveDenied
    BY <2>2 DEF SaveDenied, Routed, Unrendered, Command, Shaped
  <2>3. CASE DropsDone
    <3>1. \/ /\ act' \in {NoVerb, [act EXCEPT !.pc = "derive",
                                         !.roles = InUse(Roles)]}
             /\ ~act.done /\ At("drop")
          \/ act' = [act EXCEPT !.pc = "reload"]
      BY <2>3 DEF DropsDone, To, Finish
    <3>2. Unrendered => Unrendered'
      BY <3>1 DEF Unrendered, Command, Shaped
    <3>. QED BY <2>3, <3>2 DEF DropsDone, RoutesRest, Listed
  <2>4. CASE Reload
    <3>1. sup' /\ "routes" \notin cut' => route' = Rendered'
      BY <2>4 DEF Reload, Rendered, Listed
    <3>. QED BY <3>1 DEF Routed
  <2>5. CASE SwitchOff \/ HaltService
    BY <2>5 DEF SwitchOff, HaltService, To, Finish, RoutesRest, Listed,
       Unrendered, Command, Shaped
  <2>. QED BY <1>4, <2>1, <2>2, <2>3, <2>4, <2>5 DEF Denies
<1>5. CASE Manages
  <2>1. ASSUME NEW r \in Roles, DeriveRole(r)
        PROVE  Routed'
    <3>1. NoEntry.src = "absent" BY DEF NoEntry
    <3>2. \A q \in Roles : Listed(q)' <=> Listed(q)
      BY <2>1, <3>1 DEF DeriveRole, Listed, WorkersTyped, RoleEntry
    <3>. QED BY <2>1, <3>2 DEF DeriveRole, RoutesRest, Unrendered, Shaped,
          Command
  <2>2. ASSUME NEW r \in Roles, EachRole(r)
        PROVE  Routed'
    BY <2>2 DEF EachRole, RoutesRest, Listed, Unrendered, Command, Shaped
  <2>3. CASE UnlistRole
    BY <2>3 DEF UnlistRole, To, Routed, Unrendered, Command
  <2>4. CASE Flag
    <3>1. act.role \in Roles /\ Listed(act.role) /\ NoEntry.src = "absent"
      BY <2>4 DEF Flag, Shaped, Rostered, NoEntry
    <3>2. \A r \in Roles : Listed(r)' <=> Listed(r)
      BY <2>4, <3>1 DEF Flag, Listed, Rostered, WorkersTyped, RoleEntry
    <3>. QED BY <2>4, <3>2 DEF Flag, Finish, RoutesRest, Unrendered, Shaped
  <2>5. CASE Park \/ SyncDone \/ Gate \/ EachDone
    BY <2>5 DEF Park, SyncDone, Gate, EachDone, To, RoutesRest, Listed,
       Unrendered, Command, Shaped, Finish
  <2>6. CASE RenderNew
    <3>1. "routes" \notin cut' => route' = Rendered'
      BY <2>6 DEF RenderNew, Rendered, Listed
    <3>. QED BY <3>1 DEF Routed
  <2>7. CASE RemoveOld
    BY <2>7 DEF RemoveOld, To, RoutesRest, Listed, Unrendered, Command,
       Shaped
  <2>8. CASE RunNew
    BY <2>8 DEF RunNew, After, RoutesRest, Listed, Unrendered, Command,
       Shaped
  <2>9. CASE RunFails
    <3>1. CASE act.verb = "recreate"
      <4>1. ~Unrendered BY <2>9, <3>1 DEF RunFails, Unrendered, Shaped
      <4>. QED BY <2>9, <4>1 DEF RunFails, RoutesRest, Listed
    <3>2. CASE act.verb # "recreate"
      BY <2>9, <3>2 DEF RunFails, Finish, RoutesRest, Listed, Unrendered,
         Shaped
    <3>. QED BY <3>1, <3>2
  <2>. QED BY <1>5, <2>1, <2>2, <2>3, <2>4, <2>5, <2>6, <2>7, <2>8, <2>9 DEF
        Manages
<1>6. CASE Happens
  <2>1. ASSUME NEW r \in Roles, CallBegins(r) \/ CallEnds(r) \/ Restarts(r)
        PROVE  Routed'
    BY <2>1 DEF CallBegins, CallEnds, Restarts, RoutesRest, Listed,
       Unrendered, Command, Shaped
  <2>2. CASE StopProject
    BY <2>2 DEF StopProject, Routed
  <2>3. CASE WiringDies
    BY <2>3 DEF WiringDies, Scar, Finish, RoutesRest, Listed, Unrendered,
       Shaped
  <2>. QED BY <1>6, <2>1, <2>2, <2>3 DEF Happens
<1>. QED BY <1>1, <1>2, <1>3, <1>4, <1>5, <1>6, WireCases

-----------------------------------------------------------------------------
(* No worker is listed, unlisted or run, and none is about to be.          *)
RosterRest ==
    /\ UNCHANGED <<roles, box>>
    /\ cut \cap Roles \subseteq cut'
    /\ \/ /\ act'.pc \notin {"unlist", "rm", "run", "park", "flag"}
          /\ act'.verb \notin {"models", "recreate"}
       \/ /\ act'.verb = act.verb /\ act'.pc = act.pc
          /\ act'.role = act.role /\ act'.roles = act.roles

LEMMA RosterKept ==
    ASSUME WireInv, WireNext
    PROVE  Rostered'
<1>. act \in Command /\ Shaped /\ Rostered /\ WorkersTyped
  BY DEF WireInv, WireTyped
<1>. RosterRest => Rostered'
  BY DEF RosterRest, Rostered, Listed, Members, At
<1>. NoEntry.src = "absent" /\ ~NoEntry.stopped /\ Gone.st = "none"
  BY DEF NoEntry, Gone
<1>. USE WiringAssumption DEF At, World, Wires, Workers, Rest, hist
<1>1. CASE Edits
  BY <1>1 DEF Edits, EnableMcp, StopMcp, LoopMcp, StartMcp, AddMcp,
     SetRoles, RemoveMcp, FleetDown, FleetUp, Rewrite, Noticed, RosterRest,
     Command, ServiceKeeps
<1>2. CASE Begins
  <2>1. ASSUME NEW ms \in SUBSET Mcps, BeginAllow(ms) \/ BeginDeny(ms)
        PROVE  Rostered'
    BY <2>1, ZenonT(40)
    DEF BeginAllow, BeginDeny, Starts, RosterRest, Command, Shaped, NoVerb
  <2>2. ASSUME NEW m \in Mcps, NEW f \in BOOLEAN, BeginDisable(m, f)
        PROVE  Rostered'
    BY <2>2 DEF BeginDisable, Starts, RosterRest, Command, Shaped, NoVerb
  <2>3. ASSUME NEW r \in Roles, BeginStart(r)
        PROVE  Rostered'
    BY <2>3 DEF BeginStart, Starts, NoVerb, Rostered, Listed, Members
  <2>4. ASSUME NEW r \in Roles, NEW f \in BOOLEAN, BeginStop(r, f)
        PROVE  Rostered'
    <3>1. /\ UNCHANGED <<roles, box, cut>> /\ Listed(r) /\ act'.verb = "stop"
          /\ act'.role = r /\ act'.pc \in {"park", "flag"}
      BY <2>4, ZenonT(40) DEF BeginStop, Starts, NoVerb
    <3>. QED BY <3>1 DEF Rostered, Listed, Members
  <2>5. ASSUME NEW r \in Roles, BeginDisableRole(r)
        PROVE  Rostered'
    <3>1. /\ UNCHANGED <<roles, cut>> /\ act'.verb = "unlist"
          /\ act'.pc = "unlist" /\ act'.role = r
          /\ RemoveBox(r) /\ Listed(r)
      BY <2>5 DEF BeginDisableRole, Starts, NoVerb
    <3>2. \A q \in Roles : q # r => box'[q] = box[q]
      BY <3>1, RemoveIs
    <3>. QED BY <3>1, <3>2 DEF Rostered, Listed, Members
  <2>6. ASSUME NEW r \in Roles, NEW how \in Ways, NEW pins \in SUBSET Mcps,
            EnableRole(r, how, pins)
        PROVE  Rostered'
    <3>. DEFINE new == NewEntry(r, how, pins)
                entry == [src |-> new.src, up |-> new.up,
                          stopped |-> roles[r].stopped]
    <3>1. new.src # "absent"
      BY DEF NewEntry, Ways, Listed, Rostered
    <3>2. /\ roles' = [roles EXCEPT ![r] = entry] /\ UNCHANGED <<box, cut>>
      BY <2>6 DEF EnableRole
    <3>3. entry # NoEntry /\ entry.src # "absent"
      BY <3>1
    <3>4. \/ act' = NoVerb
          \/ act'.verb = "enable" /\ act'.pc = "rm" /\ act'.role = r
      BY <2>6 DEF EnableRole, Starts, NoVerb
    <3>. HIDE DEF new, entry
    <3>5. /\ \A q \in Roles : q # r => roles'[q] = roles[q]
          /\ roles'[r] = entry
      BY <3>2 DEF WorkersTyped
    <3>. QED BY <3>2, <3>3, <3>4, <3>5 DEF Rostered, Listed, NoVerb
  <2>7. ASSUME NEW v \in 0 .. 1, BeginModels(v)
        PROVE  Rostered'
    BY <2>7 DEF BeginModels, Starts, NoVerb, Rostered, Listed, Members
  <2>8. CASE BeginSync
    BY <2>8 DEF BeginSync, Starts, RosterRest, Command, Shaped, NoVerb
  <2>9. CASE RetryModels
    BY <2>9 DEF RetryModels, Starts, NoVerb, Rostered, Listed, Members
  <2>10. CASE BeginRecreate
    <3>1. /\ act'.verb = "recreate" /\ act'.pc = "render" /\ act'.roles = {}
          /\ UNCHANGED roles
      BY <2>10 DEF BeginRecreate, Starts, NoVerb
    <3>2. \A r \in Roles : ~Listed(r) => box'[r] = Gone \/ r \in cut'
      BY <2>10, RecreateIs DEF Rostered, WireInv
    <3>. QED BY <3>1, <3>2 DEF Rostered, Listed, Members
  <2>. QED BY <1>2, <2>1, <2>2, <2>3, <2>4, <2>5, <2>6, <2>7, <2>8, <2>9, <2>10
        DEF Begins
<1>3. CASE Allows
  <2>1. ASSUME NEW m \in Mcps, AllowPick(m)
        PROVE  Rostered'
    BY <2>1 DEF AllowPick, RosterRest, Command, Shaped
  <2>2. ASSUME NEW m \in Mcps, AllowSkip(m)
        PROVE  Rostered'
    BY <2>2 DEF AllowSkip, Skipped, RosterRest, Command, Shaped
  <2>3. ASSUME NEW m \in Mcps, AllowDies(m)
        PROVE  Rostered'
    BY <2>3 DEF AllowDies, Finish, RosterRest, Command, Shaped, NoVerb
  <2>4. CASE OpenHole
    BY <2>4, ZenonT(40) DEF OpenHole, Skipped, To, RosterRest, Command, Shaped
  <2>5. CASE SaveAllowed
    BY <2>5 DEF SaveAllowed, RosterRest, Command, Shaped
  <2>6. CASE AddsDone
    BY <2>6 DEF AddsDone, To, Finish, RosterRest, Command, Shaped, NoVerb
  <2>. QED BY <1>3, <2>1, <2>2, <2>3, <2>4, <2>5, <2>6 DEF Allows
<1>4. CASE Denies
  <2>1. ASSUME NEW m \in Mcps, DenySkip(m) \/ CloseHole(m)
        PROVE  Rostered'
    <3>1. CASE DenySkip(m)
      BY <3>1 DEF DenySkip, RosterRest, Command, Shaped
    <3>2. CASE CloseHole(m)
      BY <3>2 DEF CloseHole, RosterRest, Command, Shaped
    <3>. QED BY <2>1, <3>1, <3>2
  <2>2. CASE SaveDenied
    BY <2>2 DEF SaveDenied, RosterRest, Command, Shaped
  <2>3. CASE DropsDone
    <3>1. /\ act.verb \notin {"models", "recreate"}
          /\ UNCHANGED <<roles, box>> /\ cut \cap Roles \subseteq cut'
          /\ \/ act' = NoVerb
             \/ act' = [act EXCEPT !.pc = "reload"]
             \/ act' = [act EXCEPT !.pc = "derive", !.roles = InUse(Roles)]
      BY <2>3 DEF DropsDone, To, Finish, Shaped
    <3>2. CASE act' = NoVerb BY <3>1, <3>2 DEF RosterRest, NoVerb
    <3>3. CASE act' = [act EXCEPT !.pc = "reload"]
      BY <3>1, <3>3 DEF RosterRest, Command
    <3>4. CASE act' = [act EXCEPT !.pc = "derive", !.roles = InUse(Roles)]
      BY <3>1, <3>4 DEF RosterRest, Command
    <3>. QED BY <3>1, <3>2, <3>3, <3>4
  <2>4. CASE Reload
    <3>1. /\ act.verb \notin {"models", "recreate"}
          /\ UNCHANGED <<roles, box>> /\ cut \cap Roles \subseteq cut'
          /\ \/ act' = NoVerb
             \/ act' = [act EXCEPT !.pc = "off"]
             \/ act' = [act EXCEPT !.pc = "derive", !.done = FALSE,
                                  !.roles = InUse(Roles)]
      BY <2>4 DEF Reload, To, Finish, Shaped
    <3>2. CASE act' = NoVerb BY <3>1, <3>2 DEF RosterRest, NoVerb
    <3>3. CASE act' # NoVerb BY <3>1, <3>3, ZenonT(40) DEF RosterRest, Command
    <3>. QED BY <3>2, <3>3
  <2>5. CASE SwitchOff \/ HaltService
    BY <2>5 DEF SwitchOff, HaltService, To, Finish, RosterRest, Command,
       Shaped, NoVerb
  <2>. QED BY <1>4, <2>1, <2>2, <2>3, <2>4, <2>5 DEF Denies
<1>5. CASE Manages
  <2>1. ASSUME NEW r \in Roles, DeriveRole(r)
        PROVE  Rostered'
    <3>1. UNCHANGED <<box, cut>> /\ act.verb = "sync" /\ act'.verb = "sync"
      BY <2>1, ZenonT(40) DEF DeriveRole, Command, Shaped, Verbs
    <3>2. CASE roles[r].src = "auto" /\ Derived(r) # roles[r].up
      <4>1. /\ roles' = [roles EXCEPT ![r].up = Derived(r)]
            /\ act'.pc = "rm" /\ act'.role = r
        BY <2>1, <3>2 DEF DeriveRole, Command
      <4>2. /\ \A q \in Roles : q # r => roles'[q] = roles[q]
            /\ roles'[r].src = "auto"
        BY <3>2, <4>1 DEF WorkersTyped, RoleEntry
      <4>. QED BY <3>1, <3>2, <4>1, <4>2 DEF Rostered, Listed
    <3>3. CASE ~(roles[r].src = "auto" /\ Derived(r) # roles[r].up)
      BY <2>1, <3>1, <3>3 DEF DeriveRole, RosterRest, Command
    <3>. QED BY <3>2, <3>3
  <2>2. ASSUME NEW r \in Roles, EachRole(r)
        PROVE  Rostered'
    <3>1. /\ UNCHANGED <<roles, box, cut>> /\ r \in act.roles
          /\ act.verb \in {"models", "recreate"} /\ act'.pc = "rm"
          /\ act'.role = r /\ act'.roles = act.roles \ {r}
      BY <2>2 DEF EachRole, Command, Shaped, Verbs
    <3>. QED BY <3>1 DEF Rostered, Listed, Members
  <2>3. CASE UnlistRole
    <3>1. /\ act.role \in Roles /\ UNCHANGED box
          /\ box[act.role] = Gone \/ act.role \in cut'
          /\ cut \ {act.role} \subseteq cut'
          /\ act'.pc = "reload" /\ act'.verb = act.verb
          /\ act.verb = "unlist"
          /\ roles' = [roles EXCEPT ![act.role] = NoEntry]
      BY <2>3 DEF UnlistRole, To, Command, Shaped, Rostered, Verbs
    <3>. QED BY <3>1 DEF Rostered, Listed, WorkersTyped
  <2>4. CASE Park
    <3>1. /\ act.role \in Roles /\ UNCHANGED <<roles, cut>>
          /\ Listed(act.role) /\ act.verb = "stop"
          /\ act'.verb = "stop" /\ act'.pc = "flag"
          /\ act'.role = act.role
          /\ \A q \in Roles : q # act.role => box'[q] = box[q]
      BY <2>4 DEF Park, To, Shaped, Rostered, Command, Verbs, WorkersTyped,
             Container
    <3>. QED BY <3>1 DEF Rostered, Listed
  <2>5. CASE Flag
    <3>1. /\ act.role \in Roles /\ Listed(act.role) /\ UNCHANGED box
          /\ act' = NoVerb /\ cut \ {act.role} \subseteq cut'
          /\ roles' = [roles EXCEPT ![act.role].stopped = act.verb = "stop"]
      BY <2>5 DEF Flag, Finish, Shaped, Rostered
    <3>2. /\ \A q \in Roles : q # act.role => roles'[q] = roles[q]
          /\ roles'[act.role].src = roles[act.role].src
          /\ roles[act.role].src # "absent"
      BY <3>1 DEF WorkersTyped, RoleEntry, Rostered, Listed
    <3>. QED BY <3>1, <3>2 DEF Rostered, Listed, NoVerb
  <2>6. CASE Gate
    <3>1. /\ UNCHANGED <<roles, box>> /\ cut \subseteq cut'
          /\ \/ act' = NoVerb
             \/ act'.pc = "each" /\ act'.roles = Members
      BY <2>6 DEF Gate, Finish, Command
    <3>. QED BY <3>1 DEF Rostered, Listed, Members, NoVerb
  <2>7. CASE RenderNew
    <3>1. /\ UNCHANGED <<roles, box>> /\ act'.pc = "each"
          /\ cut \cap Roles \subseteq cut'
          /\ act'.roles \subseteq Members
      BY <2>7 DEF RenderNew, Command
    <3>. QED BY <3>1 DEF Rostered, Listed, Members
  <2>8. CASE SyncDone \/ EachDone
    BY <2>8 DEF SyncDone, EachDone, To, Finish, RosterRest, Command, Shaped,
       NoVerb
  <2>9. CASE RemoveOld
    <3>1. /\ act.role \in Roles /\ Listed(act.role) /\ UNCHANGED <<roles, cut>>
          /\ act'.verb = act.verb /\ act'.pc = "run" /\ act'.role = act.role
          /\ act'.roles = act.roles /\ RemoveBox(act.role)
      BY <2>9 DEF RemoveOld, To, Shaped, Rostered, Command
    <3>2. \A q \in Roles : q # act.role => box'[q] = box[q]
      BY <3>1, RemoveIs
    <3>. QED BY <3>1, <3>2 DEF Rostered, Listed, Members
  <2>10. CASE RunNew
    <3>1. /\ act.role \in Roles /\ Listed(act.role) /\ UNCHANGED roles
          /\ cut' = cut \ {act.role}
          /\ act'.verb = act.verb
          /\ act'.pc \in {"reload", "flag", "derive", "each"}
          /\ act'.pc = "flag" => act'.role = act.role
          /\ act'.roles = act.roles
          /\ box' = [box EXCEPT ![act.role] = Booted(act.role, model)]
      BY <2>10 DEF RunNew, After, Shaped, Rostered, Command
    <3>. QED BY <3>1 DEF Rostered, Listed, Members, WorkersTyped
  <2>11. CASE RunFails
    <3>1. /\ UNCHANGED roles /\ cut \subseteq cut'
          /\ act.role \in Roles /\ act.role \in cut'
          /\ \/ act' = NoVerb
             \/ /\ act'.verb = act.verb /\ act'.pc = "each"
                /\ act'.roles = act.roles
      BY <2>11 DEF RunFails, After, Finish, Command, Shaped
    <3>2. \A q \in Roles : q # act.role => box'[q] = box[q]
      BY <2>11, <3>1, FailIs
    <3>. QED BY <3>1, <3>2 DEF Rostered, Listed, Members, NoVerb
  <2>. QED BY <1>5, <2>1, <2>2, <2>3, <2>4, <2>5, <2>6, <2>7, <2>8, <2>9,
        <2>10, <2>11 DEF Manages
<1>6. CASE Happens
  <2>1. ASSUME NEW r \in Roles, CallBegins(r) \/ CallEnds(r)
        PROVE  Rostered'
    BY <2>1 DEF CallBegins, CallEnds, RosterRest, Command, Shaped
  <2>2. ASSUME NEW r \in Roles, Restarts(r)
        PROVE  Rostered'
    <3>1. /\ UNCHANGED <<roles, cut, act>> /\ box[r] # Gone
          /\ \A q \in Roles : q # r => box'[q] = box[q]
      BY <2>2 DEF Restarts, WorkersTyped
    <3>. QED BY <3>1 DEF Rostered, Listed, Members, Shaped
  <2>3. CASE StopProject
    BY <2>3 DEF StopProject, NoVerb, Rostered, Listed, Members
  <2>4. CASE WiringDies
    BY <2>4 DEF WiringDies, Finish, NoVerb, RosterRest
  <2>. QED BY <1>6, <2>1, <2>2, <2>3, <2>4 DEF Happens
<1>. QED BY <1>1, <1>2, <1>3, <1>4, <1>5, <1>6, WireCases

-----------------------------------------------------------------------------
(* No worker changes, and what was still to be run again is so, or is      *)
(* noted as cut.                                                           *)
ServedRest ==
    /\ UNCHANGED <<roles, box, model>>
    /\ sup' => sup
    /\ cut \cap Roles \subseteq cut'
    /\ \A r \in Roles : Busy(r) => Busy(r)' \/ r \in cut'
    /\ (act.verb = "start" /\ At("flag"))' =>
         act.verb = "start" /\ At("flag") /\ act'.role = act.role

LEMMA ServedKept ==
    ASSUME WireInv, WireNext
    PROVE  Served'
<1>. act \in Command /\ Shaped /\ Rostered /\ WorkersTyped /\ Served
  BY DEF WireInv, WireTyped
<1>. ServedRest => Served'
  BY DEF ServedRest, Served, Fit, Listed, Members, At
<1>. NoEntry.src = "absent" /\ ~NoEntry.stopped /\ Gone.st = "none"
  BY DEF NoEntry, Gone
<1>. act = NoVerb => \A r \in Roles : ~Busy(r)
  BY DEF Busy, At, NoVerb
<1>. USE WiringAssumption DEF At, World, Wires, Workers, Rest, hist
<1>1. CASE Edits
  BY <1>1 DEF Edits, EnableMcp, StopMcp, LoopMcp, StartMcp, AddMcp,
     SetRoles, RemoveMcp, FleetDown, FleetUp, Rewrite, Noticed, ServedRest,
     Busy, Command, ServiceKeeps
<1>2. CASE Begins
  <2>1. ASSUME NEW ms \in SUBSET Mcps, BeginAllow(ms) \/ BeginDeny(ms)
        PROVE  Served'
    BY <2>1, ZenonT(40)
    DEF BeginAllow, BeginDeny, Starts, ServedRest, Busy, Command, Shaped,
        NoVerb
  <2>2. ASSUME NEW m \in Mcps, NEW f \in BOOLEAN, BeginDisable(m, f)
        PROVE  Served'
    BY <2>2 DEF BeginDisable, Starts, ServedRest, Busy, Command, Shaped,
       NoVerb
  <2>3. ASSUME NEW r \in Roles, BeginStart(r)
        PROVE  Served'
    BY <2>3 DEF BeginStart, Starts, NoVerb, ServedRest
  <2>4. ASSUME NEW r \in Roles, NEW f \in BOOLEAN, BeginStop(r, f)
        PROVE  Served'
    <3>1. /\ Rest' = Rest /\ act = NoVerb /\ act'.verb = "stop"
      BY <2>4 DEF BeginStop, Starts, NoVerb
    <3>. QED BY <3>1 DEF ServedRest
  <2>5. ASSUME NEW r \in Roles, BeginDisableRole(r)
        PROVE  Served'
    <3>1. /\ UNCHANGED <<roles, sup, cut, model>> /\ act = NoVerb
          /\ act'.verb = "unlist" /\ act'.pc = "unlist" /\ act'.role = r
          /\ \A q \in Roles : q # r => box'[q] = box[q]
      BY <2>5, RemoveIs DEF BeginDisableRole, Starts, NoVerb
    <3>. QED BY <3>1 DEF Served, Fit, Listed, Members, Busy
  <2>6. ASSUME NEW r \in Roles, NEW how \in Ways, NEW pins \in SUBSET Mcps,
            EnableRole(r, how, pins)
        PROVE  Served'
    <3>1. /\ UNCHANGED <<box, sup, cut, model>> /\ act = NoVerb
          /\ \A q \in Roles : q # r => roles'[q] = roles[q]
          /\ roles'[r].stopped = roles[r].stopped
      BY <2>6 DEF EnableRole, Starts, WorkersTyped
    <3>2. \/ roles[r].stopped /\ act' = NoVerb
          \/ act'.pc = "rm" /\ act'.role = r /\ act'.verb = "enable"
      BY <2>6 DEF EnableRole, Starts, NoVerb
    <3>. QED BY <3>1, <3>2 DEF Served, Fit, Listed, Members, Busy, NoVerb
  <2>7. ASSUME NEW v \in 0 .. 1, BeginModels(v)
        PROVE  Served'
    BY <2>7 DEF BeginModels, Starts, NoVerb, Served, Busy
  <2>8. CASE BeginSync
    BY <2>8 DEF BeginSync, Starts, ServedRest, Busy, Command, Shaped, NoVerb
  <2>9. CASE RetryModels
    BY <2>9 DEF RetryModels, Starts, NoVerb, Served, Busy
  <2>10. CASE BeginRecreate
    BY <2>10 DEF BeginRecreate, Starts, NoVerb, Served, Busy
  <2>. QED BY <1>2, <2>1, <2>2, <2>3, <2>4, <2>5, <2>6, <2>7, <2>8, <2>9, <2>10
        DEF Begins
<1>3. CASE Allows
  <2>1. ASSUME NEW m \in Mcps, AllowPick(m)
        PROVE  Served'
    BY <2>1 DEF AllowPick, ServedRest, Busy, Command, Shaped
  <2>2. ASSUME NEW m \in Mcps, AllowSkip(m)
        PROVE  Served'
    BY <2>2 DEF AllowSkip, Skipped, ServedRest, Busy, Command, Shaped
  <2>3. ASSUME NEW m \in Mcps, AllowDies(m)
        PROVE  Served'
    BY <2>3 DEF AllowDies, Finish, ServedRest, Busy, Command, Shaped, NoVerb
  <2>4. CASE OpenHole
    BY <2>4, ZenonT(40)
    DEF OpenHole, Skipped, To, ServedRest, Busy, Command, Shaped
  <2>5. CASE SaveAllowed
    BY <2>5 DEF SaveAllowed, ServedRest, Busy, Command, Shaped
  <2>6. CASE AddsDone
    BY <2>6 DEF AddsDone, To, Finish, ServedRest, Busy, Command, Shaped,
       NoVerb
  <2>. QED BY <1>3, <2>1, <2>2, <2>3, <2>4, <2>5, <2>6 DEF Allows
<1>4. CASE Denies
  <2>1. ASSUME NEW m \in Mcps, DenySkip(m) \/ CloseHole(m)
        PROVE  Served'
    BY <2>1, ZenonT(40)
    DEF DenySkip, CloseHole, ServedRest, Busy, Command, Shaped
  <2>2. CASE SaveDenied
    BY <2>2 DEF SaveDenied, ServedRest, Busy, Command, Shaped
  <2>3. CASE DropsDone
    <3>1. /\ act.verb \notin {"models", "recreate"}
          /\ UNCHANGED <<roles, box, sup, model>>
          /\ cut \cap Roles \subseteq cut'
          /\ \/ act' = NoVerb
             \/ act' = [act EXCEPT !.pc = "reload"]
             \/ act' = [act EXCEPT !.pc = "derive", !.roles = InUse(Roles)]
          /\ act.pc \in {"drop", "reload"}
      BY <2>3 DEF DropsDone, To, Finish, Shaped
    <3>2. CASE act' = NoVerb BY <3>1, <3>2 DEF ServedRest, Busy, NoVerb
    <3>3. CASE act' # NoVerb BY <3>1, <3>3 DEF ServedRest, Busy, Command
    <3>. QED BY <3>2, <3>3
  <2>4. CASE Reload
    <3>1. /\ act.verb \notin {"models", "recreate"}
          /\ UNCHANGED <<roles, box, sup, model>>
          /\ cut \cap Roles \subseteq cut'
          /\ \/ act' = NoVerb
             \/ act' = [act EXCEPT !.pc = "off"]
             \/ act' = [act EXCEPT !.pc = "derive", !.done = FALSE,
                                  !.roles = InUse(Roles)]
          /\ act.pc \in {"drop", "reload"}
      BY <2>4 DEF Reload, To, Finish, Shaped
    <3>2. CASE act' = NoVerb BY <3>1, <3>2 DEF ServedRest, Busy, NoVerb
    <3>3. CASE act' # NoVerb
      BY <3>1, <3>3, ZenonT(40) DEF ServedRest, Busy, Command
    <3>. QED BY <3>2, <3>3
  <2>5. CASE SwitchOff
    BY <2>5 DEF SwitchOff, To, Finish, ServedRest, Busy, Command, Shaped,
       NoVerb
  <2>6. CASE HaltService
    BY <2>6 DEF HaltService, Finish, ServedRest, Busy, Command, Shaped,
       NoVerb
  <2>. QED BY <1>4, <2>1, <2>2, <2>3, <2>4, <2>5, <2>6 DEF Denies
<1>5. CASE Manages
  <2>1. ASSUME NEW r \in Roles, DeriveRole(r)
        PROVE  Served'
    <3>1. /\ UNCHANGED <<box, sup, cut, model>> /\ act.verb = "sync"
          /\ act'.verb = "sync" /\ At("derive")
      BY <2>1, ZenonT(40) DEF DeriveRole, Command, Shaped, Verbs
    <3>2. CASE roles[r].src = "auto" /\ Derived(r) # roles[r].up
      <4>1. /\ roles' = [roles EXCEPT ![r].up = Derived(r)]
            /\ act'.pc = "rm" /\ act'.role = r
        BY <2>1, <3>2, ZenonT(40) DEF DeriveRole, Command
      <4>2. \A q \in Roles : q # r => roles'[q] = roles[q]
        BY <3>2, <4>1 DEF WorkersTyped
      <4>. QED BY <3>1, <4>1, <4>2 DEF Served, Fit, Listed, Members, Busy
    <3>3. CASE ~(roles[r].src = "auto" /\ Derived(r) # roles[r].up)
      BY <2>1, <3>1, <3>3 DEF DeriveRole, ServedRest, Busy, Command
    <3>. QED BY <3>2, <3>3
  <2>2. ASSUME NEW r \in Roles, EachRole(r)
        PROVE  Served'
    <3>1. /\ UNCHANGED <<roles, box, sup, model, cut>> /\ At("each")
          /\ act.verb \in {"models", "recreate"} /\ act'.verb = act.verb
          /\ act'.pc = "rm" /\ act'.role = r /\ act'.roles = act.roles \ {r}
      BY <2>2 DEF EachRole, Command, Shaped, Verbs
    <3>. QED BY <3>1 DEF ServedRest, Busy
  <2>3. CASE UnlistRole
    <3>1. /\ act.role \in Roles /\ UNCHANGED <<box, sup, model>>
          /\ act'.pc = "reload" /\ act.verb = "unlist" /\ At("unlist")
          /\ roles' = [roles EXCEPT ![act.role] = NoEntry]
          /\ cut \ {act.role} \subseteq cut'
      BY <2>3 DEF UnlistRole, To, Command, Shaped, Verbs
    <3>. QED BY <3>1 DEF Served, Fit, Listed, Members, Busy, WorkersTyped
  <2>4. CASE Park
    <3>1. /\ act.role \in Roles /\ UNCHANGED <<roles, sup, model, cut>>
          /\ act.verb = "stop" /\ act'.verb = "stop" /\ act'.pc = "flag"
          /\ act'.role = act.role /\ At("park")
          /\ \A q \in Roles : q # act.role => box'[q] = box[q]
      BY <2>4 DEF Park, To, Shaped, Command, Verbs, WorkersTyped
    <3>. QED BY <3>1 DEF Served, Fit, Listed, Members, Busy
  <2>5. CASE Flag
    <3>1. /\ act.role \in Roles /\ UNCHANGED <<box, sup, model>>
          /\ act' = NoVerb /\ At("flag") /\ act.verb \in {"start", "stop"}
          /\ cut' \in {cut, cut \ {act.role}}
          /\ act.verb = "start" => cut' = cut
          /\ roles' = [roles EXCEPT ![act.role].stopped = act.verb = "stop"]
      BY <2>5 DEF Flag, Finish, Shaped, Command, Verbs
    <3>2. /\ \A q \in Roles : q # act.role => roles'[q] = roles[q]
          /\ roles'[act.role].up = roles[act.role].up
      BY <3>1 DEF WorkersTyped, RoleEntry
    <3>3. ASSUME act.verb = "stop" PROVE roles'[act.role].stopped
      <4>1. (act.verb = "stop") = TRUE BY <3>3
      <4>2. roles' = [roles EXCEPT ![act.role].stopped = TRUE]
        BY <3>1, <4>1
      <4>. QED BY <3>1, <4>2 DEF WorkersTyped, RoleEntry
    <3>. QED BY <3>1, <3>2, <3>3 DEF Served, Fit, Listed, Members, Busy, NoVerb
  <2>6. CASE Gate
    <3>1. /\ UNCHANGED <<roles, box, sup, model>> /\ At("gate")
          /\ act.verb = "models"
          /\ \/ act' = NoVerb /\ cut' = cut \cup Members
             \/ /\ act'.verb = "models" /\ act'.pc = "each"
                /\ act'.roles = Members /\ cut' = cut
      BY <2>6, ZenonT(40) DEF Gate, Finish, Command, Shaped, Verbs
    <3>2. Members' = Members
      BY <3>1 DEF Members, Listed
    <3>. QED BY <3>1, <3>2 DEF Served, Fit, Busy, NoVerb
  <2>7. CASE RenderNew
    <3>1. /\ UNCHANGED <<roles, box, sup, model>> /\ act.verb = "recreate"
          /\ cut \cap Roles \subseteq cut'
          /\ act'.verb = "recreate" /\ act'.pc = "each"
          /\ act'.roles = {r \in Members : ~roles[r].stopped}
      BY <2>7 DEF RenderNew, Command, Shaped, Verbs
    <3>2. Members' = Members /\ Members \subseteq Roles
      BY <3>1 DEF Members, Listed
    <3>. QED BY <3>1, <3>2 DEF Served, Fit, Busy
  <2>8. CASE SyncDone \/ EachDone
    BY <2>8 DEF SyncDone, EachDone, To, Finish, ServedRest, Busy, Command,
       Shaped, NoVerb
  <2>9. CASE RemoveOld
    <3>1. /\ act.role \in Roles /\ UNCHANGED <<roles, sup, model, cut>>
          /\ act'.verb = act.verb /\ act'.pc = "run" /\ act'.role = act.role
          /\ act'.roles = act.roles /\ At("rm")
          /\ \A q \in Roles : q # act.role => box'[q] = box[q]
      BY <2>9, RemoveIs DEF RemoveOld, To, Shaped, Command
    <3>. QED BY <3>1 DEF Served, Fit, Listed, Members, Busy
  <2>10. CASE RunNew
    <3>1. PICK r \in Roles : r = act.role
      BY <2>10 DEF RunNew, Shaped
    <3>2. /\ UNCHANGED <<roles, sup, model>>
          /\ At("run") /\ act'.verb = act.verb
          /\ act'.pc \in {"reload", "flag", "derive", "each"}
          /\ act'.pc = "flag" => act'.role = r
          /\ act'.roles = act.roles /\ cut' = cut \ {r}
          /\ box' = [box EXCEPT ![r] = Booted(r, model)]
      BY <2>10, <3>1 DEF RunNew, After, Command
    <3>3. /\ box'[r] = Booted(r, model)
          /\ \A q \in Roles : q # r => box'[q] = box[q]
      BY <3>1, <3>2 DEF WorkersTyped
    <3>4. Fit(r)' /\ \A q \in Roles : q # r /\ Fit(q) => Fit(q)'
      BY <3>2, <3>3 DEF Fit, Booted
    <3>5. Members' = Members /\ Members \subseteq Roles
      BY <3>2 DEF Members, Listed
    <3>6. \A q \in Roles : q # r /\ Busy(q) => Busy(q)'
      BY <3>1, <3>2 DEF Busy
    <3>. QED BY <3>1, <3>2, <3>4, <3>5, <3>6 DEF Served
  <2>11. CASE RunFails
    <3>1. /\ UNCHANGED <<roles, sup, model>> /\ At("run")
          /\ cut \subseteq cut' /\ act.role \in cut' /\ act.role \in Roles
          /\ act.verb = "models" => act.roles \subseteq cut'
          /\ \/ act' = NoVerb /\ act.verb # "recreate"
             \/ /\ act'.verb = "recreate" /\ act'.pc = "each"
                /\ act.verb = "recreate" /\ act'.roles = act.roles
      BY <2>11, ZenonT(40) DEF RunFails, After, Finish, Command, Shaped
    <3>2. \A q \in Roles : q # act.role => box'[q] = box[q]
      BY <2>11, <3>1, FailIs
    <3>. QED BY <3>1, <3>2 DEF Served, Fit, Members, Listed, Busy, NoVerb
  <2>. QED BY <1>5, <2>1, <2>2, <2>3, <2>4, <2>5, <2>6, <2>7, <2>8, <2>9,
        <2>10, <2>11 DEF Manages
<1>6. CASE Happens
  <2>1. ASSUME NEW r \in Roles, CallBegins(r) \/ CallEnds(r)
        PROVE  Served'
    BY <2>1 DEF CallBegins, CallEnds, ServedRest, Busy, Command, Shaped
  <2>2. ASSUME NEW r \in Roles, Restarts(r)
        PROVE  Served'
    <3>1. /\ UNCHANGED <<roles, sup, act, model, cut>>
          /\ \A q \in Roles : q # r => box'[q] = box[q]
          /\ Fit(r) => Fit(r)'
      BY <2>2 DEF Restarts, WorkersTyped, Booted, Fit
    <3>2. \A q \in Roles : Fit(q) => Fit(q)'
      BY <3>1 DEF Fit
    <3>3. Members' = Members /\ Members \subseteq Roles
      BY <3>1 DEF Members, Listed
    <3>4. \A q \in Roles : Busy(q) => Busy(q)'
      BY <3>1 DEF Busy
    <3>. QED BY <3>1, <3>2, <3>3, <3>4 DEF Served, Shaped
  <2>3. CASE StopProject
    BY <2>3 DEF StopProject, NoVerb, Served
  <2>4. CASE WiringDies
    <3>1. /\ UNCHANGED <<roles, box, sup, model>> /\ act' = NoVerb
          /\ cut = {} /\ cut' = Scar
      BY <2>4 DEF WiringDies, Finish
    <3>2. \A r \in Roles : Busy(r) /\ Listed(r) => r \in Scar
      BY DEF Busy, Scar, Members, Shaped
    <3>. QED BY <3>1, <3>2 DEF Served, Fit, Members, Listed, NoVerb
  <2>. QED BY <1>6, <2>1, <2>2, <2>3, <2>4 DEF Happens
<1>. QED BY <1>1, <1>2, <1>3, <1>4, <1>5, <1>6, WireCases

-----------------------------------------------------------------------------
(* No entry changes, and no more roles are to be run.                      *)
ParkedRest ==
    /\ UNCHANGED roles
    /\ \/ act'.verb \notin {"enable", "recreate"}
       \/ /\ act'.verb = act.verb /\ act'.roles \subseteq act.roles
          /\ \/ act'.pc \notin {"rm", "run"}
             \/ act.pc \in {"rm", "run"} /\ act'.role = act.role

LEMMA ParkedKept ==
    ASSUME WireInv, WireNext
    PROVE  Unparked'
<1>. act \in Command /\ Shaped /\ WorkersTyped /\ Unparked
  BY DEF WireInv, WireTyped
<1>. ParkedRest => Unparked'
  BY DEF ParkedRest, Unparked
<1>. USE WiringAssumption DEF At, World, Wires, Workers, Rest, hist
<1>1. CASE Edits
  BY <1>1 DEF Edits, EnableMcp, StopMcp, LoopMcp, StartMcp, AddMcp,
     SetRoles, RemoveMcp, FleetDown, FleetUp, Rewrite, Noticed, ParkedRest,
     Command, ServiceKeeps
<1>2. CASE Begins
  <2>1. ASSUME NEW ms \in SUBSET Mcps, BeginAllow(ms)
        PROVE  Unparked'
    BY <2>1 DEF BeginAllow, Starts, ParkedRest, Command, Shaped, NoVerb
  <2>2. ASSUME NEW ms \in SUBSET Mcps, BeginDeny(ms)
        PROVE  Unparked'
    BY <2>2 DEF BeginDeny, Starts, ParkedRest, Command, Shaped, NoVerb
  <2>3. ASSUME NEW m \in Mcps, NEW f \in BOOLEAN, BeginDisable(m, f)
        PROVE  Unparked'
    BY <2>3 DEF BeginDisable, Starts, ParkedRest, Command, Shaped, NoVerb
  <2>4. ASSUME NEW r \in Roles, BeginStart(r)
        PROVE  Unparked'
    BY <2>4 DEF BeginStart, Starts, ParkedRest, Command, Shaped, NoVerb
  <2>5. ASSUME NEW r \in Roles, BeginDisableRole(r)
        PROVE  Unparked'
    BY <2>5 DEF BeginDisableRole, Starts, ParkedRest, Command, Shaped,
       NoVerb
  <2>6. ASSUME NEW r \in Roles, NEW f \in BOOLEAN, BeginStop(r, f)
        PROVE  Unparked'
    <3>1. UNCHANGED roles /\ act'.verb = "stop"
      BY <2>6 DEF BeginStop, Starts, NoVerb
    <3>. QED BY <3>1 DEF ParkedRest
  <2>7. ASSUME NEW r \in Roles, NEW how \in Ways, NEW pins \in SUBSET Mcps,
            EnableRole(r, how, pins)
        PROVE  Unparked'
    <3>1. \/ act' = NoVerb
          \/ /\ act'.verb = "enable" /\ act'.role = r /\ ~roles[r].stopped
             /\ act' # NoVerb
      BY <2>7 DEF EnableRole, Starts, NoVerb
    <3>2. roles'[r].stopped = roles[r].stopped
      BY <2>7 DEF EnableRole, WorkersTyped
    <3>. QED BY <3>1, <3>2 DEF Unparked, NoVerb
  <2>8. ASSUME NEW v \in 0 .. 1, BeginModels(v)
        PROVE  Unparked'
    BY <2>8 DEF BeginModels, Starts, ParkedRest, Command, Shaped, NoVerb
  <2>9. CASE BeginSync
    BY <2>9 DEF BeginSync, Starts, ParkedRest, Command, Shaped, NoVerb
  <2>10. CASE RetryModels
    BY <2>10 DEF RetryModels, Starts, ParkedRest, Command, Shaped, NoVerb
  <2>11. CASE BeginRecreate
    BY <2>11 DEF BeginRecreate, Starts, NoVerb, Unparked
  <2>. QED BY <1>2, <2>1, <2>2, <2>3, <2>4, <2>5, <2>6, <2>7, <2>8, <2>9,
        <2>10, <2>11 DEF Begins
<1>3. CASE Allows
  <2>1. ASSUME NEW m \in Mcps, AllowPick(m)
        PROVE  Unparked'
    BY <2>1 DEF AllowPick, ParkedRest, Command, Shaped
  <2>2. ASSUME NEW m \in Mcps, AllowSkip(m)
        PROVE  Unparked'
    BY <2>2 DEF AllowSkip, Skipped, ParkedRest, Command, Shaped
  <2>3. ASSUME NEW m \in Mcps, AllowDies(m)
        PROVE  Unparked'
    BY <2>3 DEF AllowDies, Finish, ParkedRest, Command, Shaped, NoVerb
  <2>4. CASE OpenHole
    <3>1. UNCHANGED roles /\ act'.verb = act.verb /\ At("hole")
      BY <2>4, ZenonT(40) DEF OpenHole, Skipped, To, Command
    <3>. QED BY <3>1 DEF Unparked, Shaped
  <2>5. CASE SaveAllowed
    BY <2>5 DEF SaveAllowed, ParkedRest, Command, Shaped
  <2>6. CASE AddsDone
    BY <2>6 DEF AddsDone, To, Finish, ParkedRest, Command, Shaped, NoVerb
  <2>. QED BY <1>3, <2>1, <2>2, <2>3, <2>4, <2>5, <2>6 DEF Allows
<1>4. CASE Denies
  <2>1. ASSUME NEW m \in Mcps, DenySkip(m) \/ CloseHole(m)
        PROVE  Unparked'
    BY <2>1, ZenonT(40) DEF DenySkip, CloseHole, ParkedRest, Command, Shaped
  <2>2. CASE SaveDenied
    BY <2>2 DEF SaveDenied, ParkedRest, Command, Shaped
  <2>3. CASE DropsDone
    <3>1. /\ UNCHANGED roles /\ act.verb \notin {"enable", "recreate"}
          /\ \/ act' = NoVerb \/ act' = [act EXCEPT !.pc = "reload"]
             \/ act' = [act EXCEPT !.pc = "derive", !.roles = InUse(Roles)]
      BY <2>3 DEF DropsDone, To, Finish, Shaped
    <3>2. CASE act' = NoVerb BY <3>1, <3>2 DEF ParkedRest, NoVerb
    <3>3. CASE act' # NoVerb BY <3>1, <3>3, ZenonT(40) DEF ParkedRest, Command
    <3>. QED BY <3>2, <3>3
  <2>4. CASE Reload
    <3>1. /\ UNCHANGED roles /\ act.verb # "recreate"
          /\ \/ act' = NoVerb
             \/ act' = [act EXCEPT !.pc = "off"] /\ act.verb = "disable"
             \/ /\ act' = [act EXCEPT !.pc = "derive", !.done = FALSE,
                                     !.roles = InUse(Roles)]
                /\ act.verb = "sync"
      BY <2>4 DEF Reload, To, Finish, Shaped
    <3>2. CASE act' = NoVerb BY <3>1, <3>2 DEF ParkedRest, NoVerb
    <3>3. CASE act' # NoVerb BY <3>1, <3>3 DEF ParkedRest, Command
    <3>. QED BY <3>2, <3>3
  <2>5. CASE SwitchOff
    BY <2>5 DEF SwitchOff, To, Finish, ParkedRest, Command, Shaped, NoVerb
  <2>6. CASE HaltService
    BY <2>6 DEF HaltService, Finish, ParkedRest, Command, Shaped, NoVerb
  <2>. QED BY <1>4, <2>1, <2>2, <2>3, <2>4, <2>5, <2>6 DEF Denies
<1>5. CASE Manages
  <2>1. ASSUME NEW r \in Roles, DeriveRole(r)
        PROVE  Unparked'
    <3>1. act.verb = "sync" /\ act'.verb = "sync"
      BY <2>1, ZenonT(40) DEF DeriveRole, Command, Shaped, Verbs
    <3>. QED BY <3>1 DEF Unparked
  <2>2. ASSUME NEW r \in Roles, EachRole(r)
        PROVE  Unparked'
    <3>1. /\ UNCHANGED roles /\ r \in act.roles
          /\ act.verb \in {"models", "recreate"} /\ act'.verb = act.verb
          /\ act'.role = r /\ act'.roles = act.roles \ {r}
      BY <2>2 DEF EachRole, Command, Shaped, Verbs
    <3>. QED BY <3>1 DEF Unparked
  <2>3. CASE UnlistRole
    <3>1. act.verb = "unlist" /\ act'.verb = "unlist"
      BY <2>3 DEF UnlistRole, To, Command, Shaped, Verbs
    <3>. QED BY <3>1 DEF Unparked
  <2>4. CASE Flag
    BY <2>4 DEF Flag, Finish, NoVerb, Unparked
  <2>5. CASE Gate
    <3>1. /\ act.verb = "models"
          /\ \/ act' = NoVerb
             \/ act' = [act EXCEPT !.pc = "each", !.roles = Members]
      BY <2>5 DEF Gate, Finish, Command, Shaped, Verbs
    <3>2. CASE act' = NoVerb BY <3>2 DEF Unparked, NoVerb
    <3>3. CASE act' # NoVerb BY <3>1, <3>3 DEF Unparked, Command
    <3>. QED BY <3>2, <3>3
  <2>6. CASE RenderNew
    <3>1. /\ UNCHANGED roles /\ act'.pc = "each" /\ act'.verb = act.verb
          /\ act'.roles = {r \in Members : ~roles[r].stopped}
      BY <2>6 DEF RenderNew, Command
    <3>. QED BY <3>1 DEF Unparked, Members
  <2>7. CASE Park \/ SyncDone \/ EachDone \/ RemoveOld
    BY <2>7 DEF Park, SyncDone, EachDone, RemoveOld, To, ParkedRest,
       Command, Shaped, Finish, NoVerb
  <2>8. CASE RunNew
    <3>1. /\ UNCHANGED roles /\ act'.verb = act.verb /\ act'.roles = act.roles
          /\ act'.pc \in {"reload", "flag", "derive", "each"}
      BY <2>8 DEF RunNew, After, Command
    <3>. QED BY <3>1 DEF ParkedRest
  <2>9. CASE RunFails
    <3>1. /\ UNCHANGED roles
          /\ \/ act' = NoVerb
             \/ /\ act'.verb = "recreate" /\ act'.pc = "each"
                /\ act.verb = "recreate" /\ act'.roles = act.roles
      BY <2>9, ZenonT(40) DEF RunFails, After, Finish, Command
    <3>. QED BY <3>1 DEF ParkedRest, NoVerb
  <2>. QED BY <1>5, <2>1, <2>2, <2>3, <2>4, <2>5, <2>6, <2>7, <2>8, <2>9 DEF
        Manages
<1>6. CASE Happens
  BY <1>6 DEF Happens, CallBegins, CallEnds, Restarts, StopProject,
     WiringDies, ParkedRest, Command, Shaped, Scar, Finish,
     NoVerb
<1>. QED BY <1>1, <1>2, <1>3, <1>4, <1>5, <1>6, WireCases

-----------------------------------------------------------------------------
(* No sync runs, or one does but the step has no part in it.               *)
SyncRest ==
    \/ act'.verb # "sync"
    \/ act' = act /\ UNCHANGED <<reg, allow, roles, wireAim>>

LEMMA SyncKept ==
    ASSUME WireInv, WireNext
    PROVE  Syncing'
<1>. act \in Command /\ Shaped /\ WorkersTyped /\ NetTyped /\ Syncing
  BY DEF WireInv, WireTyped
<1>. SyncRest => Syncing'
  BY DEF SyncRest, Syncing, Deriving, Settled, Derived, Allowed, InUse, At
<1>. USE WiringAssumption DEF At, World, Wires, Workers, Rest, hist
<1>1. CASE Edits
  <2>1. UNCHANGED <<allow, roles, wireAim>> /\ (Noticed)
    BY <1>1
    DEF Edits, EnableMcp, StopMcp, LoopMcp, StartMcp, AddMcp, SetRoles,
        RemoveMcp, FleetDown, FleetUp, Rewrite, ServiceKeeps
  <2>2. CASE act.verb = "sync"
    <3>1. act' = [act EXCEPT !.quiet = FALSE]
      BY <2>1, <2>2 DEF Noticed
    <3>2. Allowed' = Allowed /\ InUse(Roles)' = InUse(Roles)
      BY <2>1 DEF Allowed, InUse
    <3>3. \A q \in Roles : Settled(q) => Settled(q)'
      BY <2>1, <3>1, <3>2 DEF Settled, Command
    <3>. QED BY <2>2, <3>1, <3>2, <3>3 DEF Syncing, Deriving, InUse, Command
  <2>3. CASE act.verb # "sync"
    BY <2>1, <2>3 DEF Noticed, SyncRest, Command
  <2>. QED BY <2>2, <2>3
<1>2. CASE Begins
  <2>1. ASSUME NEW ms \in SUBSET Mcps, BeginAllow(ms) \/ BeginDeny(ms)
        PROVE  Syncing'
    BY <2>1, ZenonT(40)
    DEF BeginAllow, BeginDeny, Starts, SyncRest, Command, Shaped, NoVerb
  <2>2. ASSUME NEW m \in Mcps, NEW f \in BOOLEAN, BeginDisable(m, f)
        PROVE  Syncing'
    BY <2>2 DEF BeginDisable, Starts, SyncRest, Command, Shaped, NoVerb
  <2>3. ASSUME NEW r \in Roles, BeginStart(r) \/ BeginDisableRole(r)
        PROVE  Syncing'
    BY <2>3, ZenonT(40)
    DEF BeginStart, BeginDisableRole, Starts, SyncRest, Command, Shaped,
        NoVerb
  <2>4. ASSUME NEW r \in Roles, NEW f \in BOOLEAN, BeginStop(r, f)
        PROVE  Syncing'
    <3>1. act'.verb = "stop"
      BY <2>4 DEF BeginStop, Starts, NoVerb
    <3>. QED BY <3>1 DEF SyncRest
  <2>5. ASSUME NEW r \in Roles, NEW how \in Ways, NEW pins \in SUBSET Mcps,
            EnableRole(r, how, pins)
        PROVE  Syncing'
    <3>1. act'.verb # "sync"
      BY <2>5 DEF EnableRole, Starts, NoVerb
    <3>. QED BY <3>1 DEF SyncRest
  <2>6. ASSUME NEW v \in 0 .. 1, BeginModels(v)
        PROVE  Syncing'
    BY <2>6 DEF BeginModels, Starts, SyncRest, Command, Shaped, NoVerb
  <2>7. CASE BeginSync
    <3>1. /\ UNCHANGED <<reg, allow>> /\ act'.pc = "add" /\ act'.on = Enabled
          /\ act'.add = Enabled \ Allowed /\ act'.drop = Allowed \ Enabled
          /\ act'.failed = {}
      BY <2>7 DEF BeginSync, Starts, NoVerb
    <3>. QED BY <3>1 DEF Syncing, Deriving, Allowed
  <2>8. CASE RetryModels \/ BeginRecreate
    BY <2>8, ZenonT(40)
    DEF RetryModels, BeginRecreate, Starts, SyncRest, Command, Shaped, NoVerb
  <2>. QED BY <1>2, <2>1, <2>2, <2>3, <2>4, <2>5, <2>6, <2>7, <2>8 DEF Begins
<1>3. CASE Allows
  <2>1. ASSUME NEW m \in Mcps, AllowPick(m)
        PROVE  Syncing'
    <3>1. /\ UNCHANGED allow /\ m \in act.add
          /\ act' = [act EXCEPT !.pc = "hole", !.mcp = m, !.ip = svc[m].ip]
          /\ At("add")
      BY <2>1 DEF AllowPick
    <3>. QED BY <3>1 DEF Syncing, Deriving, Allowed, Command
  <2>2. ASSUME NEW m \in Mcps, AllowSkip(m)
        PROVE  Syncing'
    <3>1. /\ UNCHANGED allow /\ At("add") /\ act' = Skipped(m)
      BY <2>2 DEF AllowSkip
    <3>. QED BY <3>1 DEF Skipped, Syncing, Deriving, Allowed, Command
  <2>3. ASSUME NEW m \in Mcps, AllowDies(m)
        PROVE  Syncing'
    BY <2>3 DEF AllowDies, Finish, SyncRest, Command, Shaped, NoVerb
  <2>4. CASE OpenHole
    <3>1. /\ UNCHANGED allow /\ At("hole")
          /\ \/ act' = [act EXCEPT !.pc = "save"]
             \/ act' = Skipped(act.mcp)
      BY <2>4 DEF OpenHole, To
    <3>2. CASE act' = [act EXCEPT !.pc = "save"]
      BY <3>1, <3>2 DEF Syncing, Deriving, Allowed, Command
    <3>3. CASE act' = Skipped(act.mcp)
      BY <3>1, <3>3 DEF Skipped, Syncing, Deriving, Allowed, Command
    <3>. QED BY <3>1, <3>2, <3>3
  <2>5. CASE SaveAllowed
    <3>1. /\ allow' = [allow EXCEPT ![act.mcp] = act.ip] /\ At("save")
          /\ act.mcp \in Mcps /\ act.ip # None
          /\ act' = [act EXCEPT !.pc = "add", !.mcp = NoMcp, !.ip = None,
                                !.add = @ \ {act.mcp}, !.done = TRUE]
      BY <2>5 DEF SaveAllowed, Shaped, None, Ips
    <3>2. Allowed' = Allowed \cup {act.mcp}
      BY <3>1 DEF Allowed, NetTyped
    <3>. QED BY <3>1, <3>2 DEF Syncing, Deriving, Command
  <2>6. CASE AddsDone
    <3>1. /\ UNCHANGED allow /\ At("add") /\ act.add = {}
          /\ act.verb = "sync" => act' = [act EXCEPT !.pc = "drop"]
          /\ act' = NoVerb \/ act'.verb = act.verb
      BY <2>6 DEF AddsDone, To, Finish, Command
    <3>2. CASE act.verb = "sync"
      BY <3>1, <3>2 DEF Syncing, Deriving, Allowed, Command
    <3>3. CASE act.verb # "sync"
      BY <3>1, <3>3 DEF SyncRest, NoVerb
    <3>. QED BY <3>2, <3>3
  <2>. QED BY <1>3, <2>1, <2>2, <2>3, <2>4, <2>5, <2>6 DEF Allows
<1>4. CASE Denies
  <2>1. ASSUME NEW m \in Mcps, DenySkip(m)
        PROVE  Syncing'
    <3>1. /\ UNCHANGED allow /\ At("drop") /\ m \notin Allowed
          /\ act' = [act EXCEPT !.drop = @ \ {m}]
      BY <2>1 DEF DenySkip
    <3>. QED BY <3>1 DEF Syncing, Deriving, Allowed, Command
  <2>2. ASSUME NEW m \in Mcps, CloseHole(m)
        PROVE  Syncing'
    <3>1. /\ UNCHANGED allow /\ At("drop") /\ m \in act.drop
          /\ act' = [act EXCEPT !.pc = "dsave", !.mcp = m]
      BY <2>2 DEF CloseHole
    <3>. QED BY <3>1 DEF Syncing, Deriving, Allowed, Command
  <2>3. CASE SaveDenied
    <3>1. /\ allow' = [allow EXCEPT ![act.mcp] = None] /\ At("dsave")
          /\ act'.verb = act.verb /\ act'.pc \in {"drop", "reload"}
          /\ act'.drop = act.drop \ {act.mcp} /\ act'.done = TRUE
          /\ act'.add = act.add /\ act'.on = act.on /\ act'.failed = act.failed
          /\ act.verb = "sync" => act'.pc = "drop"
      BY <2>3 DEF SaveDenied, Command
    <3>2. Allowed' = Allowed \ {act.mcp}
      BY <3>1 DEF Allowed, NetTyped
    <3>. QED BY <3>1, <3>2 DEF Syncing, Deriving
  <2>4. CASE DropsDone
    <3>1. /\ UNCHANGED <<allow, roles, wireAim>> /\ At("drop") /\ act.drop = {}
          /\ \/ act' = NoVerb
             \/ act' = [act EXCEPT !.pc = "reload"] /\ act.done
             \/ act' = [act EXCEPT !.pc = "derive", !.roles = InUse(Roles)]
      BY <2>4 DEF DropsDone, To, Finish
    <3>2. InUse(Roles)' = InUse(Roles)
      BY <3>1 DEF InUse
    <3>3. CASE act' = NoVerb BY <3>3 DEF SyncRest, NoVerb
    <3>4. CASE act' # NoVerb
      <4>1. \/ act.verb # "sync" /\ act'.verb # "sync"
            \/ act'.pc = "reload" /\ act'.done
            \/ act'.pc = "derive" /\ act'.roles = InUse(Roles)
        BY <3>1, <3>4 DEF Command
      <4>2. /\ UNCHANGED allow /\ act'.verb = act.verb /\ act'.add = act.add
            /\ act'.drop = act.drop /\ act'.on = act.on
            /\ act'.failed = act.failed
        BY <3>1, <3>4, ZenonT(40) DEF Command
      <4>. QED BY <3>1, <3>2, <4>1, <4>2 DEF Syncing, Deriving, Allowed
    <3>. QED BY <3>3, <3>4
  <2>5. CASE Reload
    <3>1. /\ UNCHANGED <<allow, roles, wireAim>> /\ At("reload")
          /\ \/ act' = NoVerb
             \/ act' = [act EXCEPT !.pc = "off"] /\ act.verb # "sync"
             \/ act' = [act EXCEPT !.pc = "derive", !.done = FALSE,
                                  !.roles = InUse(Roles)]
      BY <2>5 DEF Reload, To, Finish
    <3>2. InUse(Roles)' = InUse(Roles)
      BY <3>1 DEF InUse
    <3>3. CASE act' = NoVerb BY <3>3 DEF SyncRest, NoVerb
    <3>4. CASE act' # NoVerb
      <4>1. \/ act.verb # "sync" /\ act'.verb # "sync"
            \/ act'.pc = "reload" /\ act'.done
            \/ act'.pc = "derive" /\ act'.roles = InUse(Roles)
        BY <3>1, <3>4 DEF Command
      <4>2. /\ UNCHANGED allow /\ act'.verb = act.verb /\ act'.add = act.add
            /\ act'.drop = act.drop /\ act'.on = act.on
            /\ act'.failed = act.failed
        BY <3>1, <3>4, ZenonT(40) DEF Command
      <4>. QED BY <3>1, <3>2, <4>1, <4>2 DEF Syncing, Deriving, Allowed
    <3>. QED BY <3>3, <3>4
  <2>6. CASE SwitchOff
    BY <2>6 DEF SwitchOff, To, Finish, SyncRest, Command, Shaped, NoVerb
  <2>7. CASE HaltService
    BY <2>7 DEF HaltService, Finish, SyncRest, Command, Shaped, NoVerb
  <2>. QED BY <1>4, <2>1, <2>2, <2>3, <2>4, <2>5, <2>6, <2>7 DEF Denies
<1>5. CASE Manages
  <2>1. ASSUME NEW r \in Roles, DeriveRole(r)
        PROVE  Syncing'
    <3>0. \/ act' = [act EXCEPT !.roles = @ \ {r}, !.force = TRUE,
                             !.pc = "rm", !.role = r]
          \/ act' = [act EXCEPT !.roles = @ \ {r}]
      BY <2>1 DEF DeriveRole
    <3>1. /\ UNCHANGED <<reg, allow, wireAim>>
          /\ At("derive") /\ r \in act.roles
      BY <2>1 DEF DeriveRole
    <3>5. /\ act'.pc \in {"derive", "rm"} /\ act'.roles = act.roles \ {r}
          /\ act'.on = act.on /\ act'.add = act.add /\ act'.drop = act.drop
          /\ act'.failed = act.failed /\ act'.verb = act.verb
          /\ act'.quiet = act.quiet
      <4>1. CASE act' = [act EXCEPT !.roles = @ \ {r}, !.force = TRUE,
                                    !.pc = "rm", !.role = r]
        BY <4>1 DEF Command
      <4>2. CASE act' = [act EXCEPT !.roles = @ \ {r}]
        BY <3>1, <4>2 DEF Command
      <4>. QED BY <3>0, <4>1, <4>2
    <3>2. /\ Allowed' = Allowed /\ InUse(Roles)' = InUse(Roles)
          /\ \A q \in Roles : Derived(q)' = Derived(q)
      BY <3>1 DEF Allowed, InUse, Derived
    <3>3. /\ \A q \in Roles : q # r => roles'[q] = roles[q]
          /\ roles'[r].src = "auto" => roles'[r].up = Derived(r)
      BY <2>1 DEF DeriveRole, WorkersTyped, RoleEntry
    <3>4. \A q \in InUse(Roles) \ (act.roles \ {r}) :
            act.verb = "sync" => Settled(q)'
      <4>1. ASSUME NEW q \in InUse(Roles), q \notin act.roles, act.verb = "sync"
            PROVE  Settled(q)'
        <5>1. q \in Roles /\ q # r /\ Settled(q)
          BY <3>1, <4>1 DEF Syncing, Deriving, InUse
        <5>. QED BY <3>1, <3>2, <3>3, <3>5, <5>1 DEF Settled
      <4>2. Settled(r)'
        BY <3>2, <3>3 DEF Settled, Derived
      <4>. QED BY <4>1, <4>2
    <3>. QED BY <3>1, <3>2, <3>4, <3>5 DEF Syncing, Deriving
  <2>2. ASSUME NEW r \in Roles, EachRole(r)
        PROVE  Syncing'
    BY <2>2 DEF EachRole, SyncRest, Command, Shaped
  <2>3. CASE UnlistRole \/ Park \/ Flag
    BY <2>3 DEF UnlistRole, Park, Flag, To, SyncRest, Command, Shaped,
       Finish, NoVerb
  <2>4. CASE SyncDone
    <3>1. /\ UNCHANGED <<reg, allow, roles, wireAim>> /\ At("derive")
          /\ act.roles = {} /\ ~act.done
          /\ act' = NoVerb \/ act' = [act EXCEPT !.pc = "reload"]
      BY <2>4 DEF SyncDone, To, Finish, Shaped
    <3>2. /\ Allowed' = Allowed /\ InUse(Roles)' = InUse(Roles)
          /\ \A q \in Roles : Derived(q)' = Derived(q)
      BY <3>1 DEF Allowed, InUse, Derived
    <3>3. CASE act' = NoVerb BY <3>3 DEF SyncRest, NoVerb
    <3>4. CASE act' # NoVerb
      <4>1. \A q \in Roles : Settled(q) => Settled(q)'
        BY <3>1, <3>2, <3>4 DEF Settled, Command
      <4>. QED BY <3>1, <3>2, <3>4, <4>1 DEF Syncing, Deriving, InUse, Command
    <3>. QED BY <3>3, <3>4
  <2>5. CASE Gate
    <3>1. act' = NoVerb \/ act'.verb = act.verb
      BY <2>5 DEF Gate, Finish, Command
    <3>2. act.verb # "sync"
      BY <2>5 DEF Gate, Shaped
    <3>. QED BY <3>1, <3>2 DEF SyncRest, NoVerb
  <2>6. CASE RenderNew
    BY <2>6 DEF RenderNew, SyncRest, Command, Shaped
  <2>7. CASE EachDone
    BY <2>7 DEF EachDone, Finish, SyncRest, Command, Shaped, NoVerb
  <2>8. CASE RemoveOld
    <3>1. /\ UNCHANGED <<reg, allow, roles, wireAim>> /\ At("rm")
          /\ act' = [act EXCEPT !.pc = "run"]
      BY <2>8 DEF RemoveOld, To
    <3>2. /\ Allowed' = Allowed /\ InUse(Roles)' = InUse(Roles)
          /\ \A q \in Roles : Derived(q)' = Derived(q)
      BY <3>1 DEF Allowed, InUse, Derived
    <3>3. \A q \in Roles : Settled(q) => Settled(q)'
      BY <3>1, <3>2 DEF Settled, Command
    <3>. QED BY <3>1, <3>2, <3>3 DEF Syncing, Deriving, InUse, Command
  <2>9. CASE RunNew
    <3>1. /\ UNCHANGED <<reg, allow, roles, wireAim>> /\ At("run")
          /\ act'.verb = act.verb
          /\ act.verb = "sync" =>
               act' = [act EXCEPT !.pc = "derive", !.role = NoRole]
      BY <2>9 DEF RunNew, After, Command
    <3>2. /\ Allowed' = Allowed /\ InUse(Roles)' = InUse(Roles)
          /\ \A q \in Roles : Derived(q)' = Derived(q)
      BY <3>1 DEF Allowed, InUse, Derived
    <3>3. CASE act.verb = "sync"
      <4>1. /\ act'.pc = "derive" /\ act'.roles = act.roles
            /\ act'.on = act.on /\ act'.add = act.add /\ act'.drop = act.drop
            /\ act'.failed = act.failed /\ act'.quiet = act.quiet
        BY <3>1, <3>3, ZenonT(40) DEF Command
      <4>2. \A q \in Roles : Settled(q) => Settled(q)'
        BY <3>1, <3>2, <4>1 DEF Settled
      <4>. QED BY <3>1, <3>2, <3>3, <4>1, <4>2 DEF Syncing, Deriving, InUse
    <3>4. CASE act.verb # "sync" BY <3>1, <3>4 DEF SyncRest
    <3>. QED BY <3>3, <3>4
  <2>10. CASE RunFails
    <3>1. act' = NoVerb \/ (act.verb = "recreate" /\ act' = After)
      BY <2>10 DEF RunFails, Finish
    <3>2. act'.verb # "sync"
      <4>1. CASE act' = NoVerb BY <4>1 DEF NoVerb
      <4>2. CASE act.verb = "recreate" /\ act' = After
        BY <4>2 DEF After, Command
      <4>. QED BY <3>1, <4>1, <4>2
    <3>. QED BY <3>2 DEF SyncRest
  <2>. QED BY <1>5, <2>1, <2>2, <2>3, <2>4, <2>5, <2>6, <2>7, <2>8, <2>9, <2>10
        DEF Manages
<1>6. CASE Happens
  BY <1>6 DEF Happens, CallBegins, CallEnds, Restarts, StopProject,
     WiringDies, SyncRest, Command, Shaped, Scar, Finish,
     NoVerb
<1>. QED BY <1>1, <1>2, <1>3, <1>4, <1>5, <1>6, WireCases

-----------------------------------------------------------------------------
(* What holds of the services and workers of a project                     *)

LEMMA WireStarts ==
    ASSUME WireInit
    PROVE  WireInv
<1>1. NoVerb \in Command /\ NoEntry \in RoleEntry /\ Gone \in Container
  BY WiringAssumption DEF NoVerb, Command, Verbs, Steps, None, Addresses,
     NoEntry, RoleEntry, Gone, Container
<1>2. RegistryTyped /\ NetTyped /\ WorkersTyped
  BY <1>1, WiringAssumption DEF WireInit, RegistryTyped, NetTyped,
     WorkersTyped, Registered, Service, Ips, InUse, None, Addresses
<1>3. Shaped /\ Unparked /\ Syncing /\ ~Unrendered
  BY DEF WireInit, NoVerb, Shaped, Unparked, Syncing, Unrendered
<1>4. Holed
  BY DEF WireInit, Holed, Allowed, None, At, NoVerb
<1>5. Routed
  BY DEF WireInit, Routed, Rendered, NoRoute, Listed
<1>6. Rostered /\ Served
  BY DEF WireInit, Rostered, Served, Listed, Members, NoVerb, At
<1>. QED BY <1>1, <1>2, <1>3, <1>4, <1>5, <1>6 DEF WireInv, WireTyped, WireInit

LEMMA WireStutters ==
    ASSUME WireInv, UNCHANGED wireVars
    PROVE  WireInv'
<1>. USE DEF wireVars
<1>1. WireTyped' /\ Shaped' /\ Holed' /\ Unparked'
  BY DEF WireInv, WireTyped, RegistryTyped, NetTyped, WorkersTyped, Shaped,
     Holed, Allowed, At, Unparked
<1>2. Routed' /\ Rostered' /\ Served'
  BY DEF WireInv, Routed, Unrendered, Rendered, Rostered, Served, Members,
     Listed, Busy, Fit, At
<1>3. Syncing'
  BY DEF WireInv, Syncing, Deriving, Settled, Derived, Allowed, InUse, At
<1>. QED BY <1>1, <1>2, <1>3 DEF WireInv

(* The files of a project, its routes, holes and containers differ only    *)
(* where the command that runs, or one that was cut short, has left them.  *)
THEOREM WireInvariant == WireSpec => []WireInv
<1>1. WireInit => WireInv
  BY WireStarts
<1>2. WireInv /\ [WireNext]_wireVars => WireInv'
  <2>. SUFFICES ASSUME WireInv, [WireNext]_wireVars
                PROVE  WireInv'
    OBVIOUS
  <2>1. CASE WireNext
    <3>1. WireTyped'
      BY <2>1, CommandTyped, RegistryKept, NetKept, WorkersKept DEF WireTyped
    <3>. QED
      BY <2>1, <3>1, ShapeKept, HoledKept, RoutesKept, RosterKept, ServedKept,
         ParkedKept, SyncKept DEF WireInv
  <2>2. CASE UNCHANGED wireVars
    BY <2>2, WireStutters
  <2>. QED BY <2>1, <2>2
<1>. QED BY <1>1, <1>2, PTL DEF WireSpec

(* Beside the forge nothing else happens to the services and workers.      *)
LEMMA BothWire == BothSpec => WireSpec
<1>1. BothInit => WireInit
  BY DEF BothInit
<1>2. [BothNext]_bothVars => [WireNext]_wireVars
  BY DEF BothNext, WireStep, ForgeStep, bothVars
<1>. QED BY <1>1, <1>2, PTL DEF BothSpec, WireSpec

(* Between commands an allowed service is reached at the address its entry *)
(* notes and at no other, the proxy answers for what the files list, and   *)
(* every listed worker runs as written (mcp allow, deny, sync, disable,    *)
(* role enable and disable, worker stop and start, project update).        *)
THEOREM FilesAreServed == BothSpec => []WiredAsWritten
<1>1. WireInv => AllowedReaches
  BY DEF WireInv, Holed, Routed, Unrendered, AllowedReaches, NoVerb, At
<1>2. WireInv => ServedAsWritten
  <2>. SUFFICES ASSUME WireInv, act = NoVerb, sup, NEW r \in Roles \ cut
                PROVE  /\ ~Listed(r) => box[r] = Gone
                       /\ Listed(r) /\ ~roles[r].stopped => Fit(r)
    BY DEF ServedAsWritten, Fit
  <2>1. ~Busy(r)
    BY DEF Busy, NoVerb, At
  <2>. QED BY <2>1 DEF WireInv, Rostered, Served, Members
<1>. QED BY <1>1, <1>2, WireInvariant, BothWire, PTL DEF WiredAsWritten

(* A sync that goes through leaves the project with what the registry it   *)
(* read enables, and every derived worker with what it may then use        *)
(* (mcp_sync and its two phases).                                          *)
THEOREM SyncsSettle == BothSpec => SyncSettles
<1>. DEFINE Step ==
       SyncEnds =>
         /\ Allowed' \subseteq act.on
         /\ act.on \subseteq Allowed' \cup act.failed
         /\ \A r \in InUse(Roles) : roles'[r].src = "auto" =>
              /\ roles'[r].up \subseteq Allowed'
              /\ act.quiet => roles'[r].up = Derived(r)'
<1>1. WireInv /\ [WireNext]_wireVars => [Step]_wireVars
  <2>. SUFFICES ASSUME WireInv, WireNext, SyncEnds PROVE Step
    OBVIOUS
  <2>1. /\ act.verb = "sync" /\ act' = NoVerb /\ act.roles = {}
        /\ At("derive") \/ (At("reload") /\ ~act.done)
        /\ act \in Command /\ Shaped
    BY DEF SyncEnds, WireInv, WireTyped, Syncing, At
  <2>2. UNCHANGED <<reg, allow, roles>>
    <3>1. ~Edits
      BY <2>1 DEF Edits, EnableMcp, StopMcp, LoopMcp, StartMcp, AddMcp,
         SetRoles, RemoveMcp, FleetDown, FleetUp, Rewrite, Noticed, Command,
         NoVerb
    <3>2. ~Begins
      <4>1. act # NoVerb BY <2>1 DEF NoVerb
      <4>. QED BY <4>1 DEF Begins, BeginAllow, BeginDeny, BeginDisable,
             BeginStart, BeginStop, BeginDisableRole, EnableRole, BeginModels,
             BeginSync, RetryModels, BeginRecreate, Starts
    <3>3. ~Allows
      BY <2>1 DEF Allows, AllowPick, AllowSkip, AllowDies, OpenHole,
         SaveAllowed, AddsDone, At
    <3>4. CASE Denies
      BY <2>1, <3>4 DEF Denies, DenySkip, CloseHole, SaveDenied, DropsDone,
         Reload, SwitchOff, HaltService, At, World, Workers
    <3>5. CASE Manages
      BY <2>1, <3>5 DEF Manages, DeriveRole, EachRole, UnlistRole, Park, Flag,
         SyncDone, Gate, RenderNew, EachDone, RemoveOld, RunNew, RunFails, At,
         Rest, World, Wires, Workers
    <3>6. CASE Happens
      BY <3>6 DEF Happens, CallBegins, CallEnds, Restarts, StopProject,
         WiringDies, World, Wires, Workers
    <3>. QED BY <3>1, <3>2, <3>3, <3>4, <3>5, <3>6, WireCases
  <2>3. /\ Allowed' = Allowed /\ \A r \in Roles : Derived(r)' = Derived(r)
        /\ InUse(Roles) \subseteq Roles
    BY <2>2 DEF Allowed, Derived, InUse
  <2>4. /\ act.on \subseteq Allowed \cup act.failed /\ Allowed \subseteq act.on
        /\ \A r \in InUse(Roles) : Settled(r)
    BY <2>1 DEF WireInv, Syncing, Deriving, At
  <2>. QED BY <2>2, <2>3, <2>4 DEF Settled
<1>. QED BY <1>1, WireInvariant, BothWire, PTL DEF WireSpec, SyncSettles

(* What was stopped is run again by starting it, by a sync that changes    *)
(* its services and by a new role model, and by nothing else (the stopped  *)
(* flag in role_mcp_enable and in the recreate's loop over the roles).     *)
THEOREM ParkedStayDown == BothSpec => ParkedStays
<1>. DEFINE Runs(r) == roles[r].stopped /\ box[r].st # "up" /\ box'[r].st = "up"
            Step == \A r \in Roles :
                      Runs(r) => act.verb \in {"start", "sync", "models"}
<1>1. WireInv /\ [WireNext]_wireVars => [Step]_wireVars
  <2>. SUFFICES ASSUME WireInv, WireNext, NEW r \in Roles, Runs(r)
                PROVE  act.verb \in {"start", "sync", "models"}
    OBVIOUS
  <2>. /\ act \in Command /\ Shaped /\ WorkersTyped /\ Unparked
    BY DEF WireInv, WireTyped
  <2>. USE DEF World, Wires, Workers, Rest, hist
  <2>1. CASE RunNew
    <3>1. act.role = r /\ At("run")
      BY <2>1 DEF RunNew, WorkersTyped, Shaped, At
    <3>. QED BY <3>1 DEF Unparked, Shaped, Command, Verbs, At
  <2>2. ASSUME \A q \in Roles : box'[q] = box[q] \/ box'[q].st # "up"
        PROVE  FALSE
    BY <2>2
  <2>. Gone.st # "up"
    BY DEF Gone
  <2>3. CASE Edits
    BY <2>2, <2>3 DEF Edits, EnableMcp, StopMcp, LoopMcp, StartMcp, AddMcp,
       SetRoles, RemoveMcp, FleetDown, FleetUp, Rewrite, ServiceKeeps
  <2>4. CASE Begins
    <3>1. ASSUME NEW q \in Roles, BeginDisableRole(q) PROVE FALSE
      BY <2>2, <3>1, RemoveIs DEF BeginDisableRole
    <3>2. CASE BeginRecreate
      BY <3>2, RecreateIs DEF WireInv
    <3>3. ASSUME NEW q \in Roles, NEW f, BeginStop(q, f) PROVE FALSE
      BY <2>2, <3>3 DEF BeginStop
    <3>. QED
      BY <2>2, <2>4, <3>1, <3>2, <3>3, ZenonT(40)
         DEF Begins, BeginAllow, BeginDeny, BeginDisable, BeginStart,
             EnableRole, BeginModels, BeginSync, RetryModels
  <2>5. CASE Allows
    BY <2>2, <2>5 DEF Allows, AllowPick, AllowSkip, AllowDies, OpenHole,
       SaveAllowed, AddsDone
  <2>6. CASE Denies
    BY <2>2, <2>6, ZenonT(40)
    DEF Denies, DenySkip, CloseHole, SaveDenied, DropsDone, Reload, SwitchOff,
        HaltService
  <2>7. CASE Manages /\ ~RunNew
    <3>1. CASE Park
      BY <2>2, <3>1 DEF Park, WorkersTyped, Container
    <3>2. CASE RemoveOld
      BY <2>2, <3>2, RemoveIs DEF RemoveOld, Shaped, At
    <3>3. CASE RunFails
      <4>1. Husk.st # "up" BY DEF Husk, Gone
      <4>2. act.role \in Roles BY <3>3 DEF RunFails, Shaped, At
      <4>. QED BY <2>2, <3>3, <4>1, <4>2, FailIs
    <3>. QED
      BY <2>2, <2>7, <3>1, <3>2, <3>3, ZenonT(40)
         DEF Manages, DeriveRole, EachRole, UnlistRole, Flag, SyncDone, Gate,
             RenderNew, EachDone
  <2>8. CASE Happens
    BY <2>2, <2>8 DEF Happens, CallBegins, CallEnds, Restarts, StopProject,
       WiringDies, Gone, WorkersTyped
  <2>. QED BY <2>1, <2>3, <2>4, <2>5, <2>6, <2>7, <2>8, WireCases
<1>. QED BY <1>1, WireInvariant, BothWire, PTL DEF WireSpec, ParkedStays

-----------------------------------------------------------------------------
(* DevForge.  The steps of a command, by the part of it they are.          *)
Provide == {"pv_user", "pv_fork", "pv_token", "pv_record", "pv_stage"}
Tell    == {"hs_repo", "hs_user", "hs_token", "hs_record", "hs_stage"}
Clear   == {"hc_row", "hc_token"}
Retire  == {"rt_next", "rt_user", "rt_token", "rt_prune"}
Unbox   == {"br_archive", "br_token", "br_prune"}
Purging == {"pg_user", "pg_token"}
Removal == {"rr_gate", "rr_list", "rr_next", "rr_token", "rr_owner",
            "rr_last", "rr_host"}

(* Which steps each command has.                                           *)
StepsOf(verb) ==
    CASE verb = "none"      -> {"idle"}
      [] verb = "add"       -> {"ra_migrate", "ra_stamp"}
      [] verb = "remove"    -> Removal
      [] verb = "create"    -> Provide \cup Tell \cup Clear
      [] verb = "attach"    -> Provide
      [] verb = "box"       -> Provide \cup {"bx_run"}
      [] verb = "notes"     -> Tell \cup Clear \cup {"bx_note", "bx_bare"}
      [] verb = "notesfail" -> Clear
      [] verb = "detach"    -> {"dt_archive", "dt_token", "dt_stage"}
      [] verb = "unbox"     -> Unbox \cup Retire
      [] verb = "destroy"   -> {"de_archive", "de_token"} \cup Retire
      [] verb = "purge"     -> Purging

(* The types of the five variables that are records or sets.               *)
ForgeVerbs == {"none", "add", "remove", "create", "attach", "box", "notes",
               "notesfail", "detach", "unbox", "destroy", "purge"}
ForgeSteps ==
    {"idle", "ra_migrate", "ra_stamp", "rr_gate", "rr_list", "rr_next",
     "rr_token", "rr_owner", "rr_last", "rr_host", "pv_user", "pv_fork",
     "pv_token", "pv_record", "pv_stage", "bx_run", "bx_note", "bx_bare",
     "hs_repo", "hs_user", "hs_token", "hs_record", "hs_stage", "hc_row",
     "hc_token", "dt_archive", "dt_token", "dt_stage", "br_archive",
     "br_token", "br_prune", "de_archive", "de_token", "rt_next", "rt_user",
     "rt_token", "rt_prune", "pg_user", "pg_token"}

Boxed == {a \in Accounts : IsBox(a)}
Rows  == [who : Accounts, repo : Repos \cup {NoRepo}]

GiteaType == [up : BOOLEAN, users : SUBSET Accounts, minted : SUBSET Accounts,
              fork : [Accounts -> [Repos -> {"none", "live", "archived"}]],
              mirror : [Repos -> {"none", "stub", "full"}],
              notes : [Accounts -> {"none", "live", "archived"}]]
HostType == [stamp : SUBSET Repos,
             token : [Accounts -> {"none", "good", "dead"}],
             rows : SUBSET Rows, active : [Repos -> Accounts \cup {Nobody}],
             hidden : SUBSET Repos]
PlaceType == [up : SUBSET Projects,
              box : [Boxed -> {"none", "dev", "notes", "plain"}],
              staged : SUBSET Accounts, left : SUBSET Accounts]
DoingType == [verb : ForgeVerbs, pc : ForgeSteps, who : Accounts \cup {Nobody},
              repo : Repos \cup {NoRepo}, todo : SUBSET Accounts]

ForgeTypes ==
    /\ forge \in GiteaType
    /\ host \in HostType
    /\ place \in PlaceType
    /\ cmd \in DoingType
    /\ torn \in SUBSET Accounts
    /\ aim \in Aims

(* No fork of any repo, live or archived.                                  *)
Bare(a) == \A r \in Repos : forge.fork[a][r] = "none"

(* The ledger is finite; forks are of users; a row that works a repo has a *)
(* fork of it, archived or not, until a destroy deletes the account of a   *)
(* box that has both rows.                                                 *)
FiniteRows == IsFiniteSet(host.rows)
ForksOwned == \A a \in Accounts : a \in forge.users \/ Bare(a)
Wiped(a)   == cmd.verb = "destroy" /\ cmd.pc \in Retire
                /\ Home(a) = Home(C) /\ a \in torn
RowsForked == \A a \in Accounts, r \in Repos :
    Row(a, r) \in host.rows => forge.fork[a][r] # "none" \/ Wiped(a)

(* A history account is no project's own dev agent and has no fork, unless *)
(* a dev box is or was added under its name.                               *)
Adopting(a) == C = a /\ cmd.pc \in Provide \cup {"bx_run"}
TalesBare == \A a \in Accounts : Tale(a) \in host.rows =>
    /\ a[2] # Own
    /\ a[2] \in Boxes => "tales" \in aim
    /\ Bare(a) \/ (IsBox(a) /\ (a \in torn \/ Adopting(a)))

(* An account with both kinds of rows has one repo and its box stands, but *)
(* for the command that adds or removes it.                                *)
Doubling(a) == C = a /\ cmd.pc \in {"pv_stage", "bx_run"}
Paired(a) ==
    Tale(a) \in host.rows =>
      \A r \in Repos : Row(a, r) \in host.rows =>
        /\ a \in torn \/ Doubling(a)
        /\ \/ Stands(a) \/ Doubling(a)
           \/ C = a /\ cmd.pc \in Unbox
           \/ cmd.verb = "destroy" /\ Home(a) = Home(C)
        /\ \A q \in Repos : Row(a, q) \in host.rows =>
             q = r \/ (Doubling(a) /\ Stands(a) /\ a \in torn)
RowsPaired == \A a \in Accounts : Paired(a)
PairsInv   == RowsForked /\ TalesBare /\ RowsPaired

(* A token file whose user was deleted belongs to a history account that   *)
(* the ledger still names, or to the account in hand.                      *)
DeadTold == \A a \in Accounts : host.token[a] = "dead" =>
    \/ Tale(a) \in host.rows
    \/ C = a /\ cmd.pc \in {"pg_token", "hs_token"} \cup Clear

(* The accounts that the running command is about.  Add, remove and purge  *)
(* keep what holds of the others for theirs too.                           *)
Hand == IF cmd.verb \in {"none", "add", "remove", "purge"} THEN {}
        ELSE cmd.todo \cup ({C} \cap Accounts)

(* No credential on the host or in a container.                            *)
Clean(a) == host.token[a] = "none" /\ a \notin place.staged

RowWorks(row) ==
    /\ row.who \in forge.users /\ host.token[row.who] = "good"
    /\ IF row.repo = NoRepo THEN forge.notes[row.who] = "live"
                            ELSE row.repo \in Live(row.who)

(* What holds of every account that is neither torn nor in hand: a         *)
(* credential has a row; a row is of somebody who stands, or works a repo  *)
(* for a removed box without credentials; who stands, works.               *)
Good(a) ==
    /\ ~Clean(a) => RowsOf(a) # {}
    /\ RowsOf(a) # {} =>
         Stands(a) \/ (Clean(a) /\ IsBox(a) /\ Tale(a) \notin host.rows)
    /\ Stands(a) => \A row \in RowsOf(a) : RowWorks(row)

OthersGood == \A a \in Accounts \ (torn \cup Hand) : Good(a)

(* What each command has found out or done so far.  A removal: no row for  *)
(* the repo, and past its gate no live fork.                               *)
Removes ==
    cmd.pc \in Removal =>
    /\ R \in Repos /\ ~Attached(R)
    /\ cmd.pc # "rr_gate" => \A a \in Accounts : R \notin Live(a)
    /\ cmd.pc \in {"rr_token", "rr_owner", "rr_last"} =>
          C \in Accounts /\ RowsOf(C) = {}

(* A purge: no row, and until the user goes no live fork.                  *)
Purges ==
    cmd.pc \in Purging =>
    /\ C \in Accounts /\ RowsOf(C) = {}
    /\ cmd.pc = "pg_user" => Live(C) = {}

(* A provision: user, live fork, token and row, one after the other; no    *)
(* other row unless the name was taken or torn.                            *)
Provisions ==
    cmd.pc \in Provide \cup {"bx_run"} =>
    /\ C \in Accounts /\ R \in Repos /\ cmd.todo = {}
    /\ cmd.verb = "box" <=> IsBox(C)
    /\ cmd.verb # "box" => C[2] = Own /\ Home(C) \in place.up
    /\ Tale(C) \in host.rows => C \in torn \/ Stands(C)
    /\ C \in torn \/ RowsOf(C) \subseteq {Row(C, R)} \/ (IsBox(C) /\ Stands(C))
    /\ cmd.pc # "pv_user" => C \in forge.users
    /\ cmd.pc \notin {"pv_user", "pv_fork"} => forge.fork[C][R] = "live"
    /\ cmd.pc \in {"pv_record", "pv_stage", "bx_run"} => host.token[C] # "none"
    /\ cmd.pc \in {"pv_stage", "bx_run"} => Row(C, R) \in host.rows

(* A history account: nobody's fork to lose; notes repo, user, token and   *)
(* row, one after the other, or cleared away again.                        *)
Chronicles ==
    cmd.pc \in Tell \cup Clear \cup {"bx_note", "bx_bare"} =>
    /\ C \in Accounts /\ C[2] # Own /\ Bare(C) /\ cmd.todo = {} /\ R = NoRepo
    /\ cmd.verb \in {"notes", "notesfail"} <=> IsBox(C)
    /\ cmd.verb \in {"notes", "notesfail"} => "tales" \in aim
    /\ cmd.verb = "create" => Home(C) \in place.up
    /\ cmd.pc \in {"hs_repo", "hs_user"} => C \in torn \/ host.token[C] = "none"
    /\ C \in torn \/ host.token[C] # "dead"
    /\ cmd.pc \in {"hs_user", "hs_token", "hs_record", "hs_stage", "bx_note"}
          => forge.notes[C] = "live"
    /\ cmd.pc \in {"hs_token", "hs_record", "hs_stage", "bx_note"}
          => C \in forge.users
    /\ cmd.pc \in {"hs_record", "hs_stage", "bx_note"}
          => host.token[C] = "good"
    /\ cmd.pc \in {"hs_stage", "bx_note"} => Tale(C) \in host.rows
    /\ cmd.pc = "hc_token" => Tale(C) \notin host.rows
    /\ cmd.pc = "bx_bare" => Clean(C) /\ RowsOf(C) = {}

(* A detach: no row of those it retires is left, but of a torn one's.      *)
Detaches ==
    cmd.pc \in {"dt_archive", "dt_token", "dt_stage"} =>
    /\ C = Nobody
    /\ \A a \in cmd.todo : RowsOf(a) = {} \/ a \in torn
    /\ cmd.pc = "dt_stage" => \A a \in cmd.todo : host.token[a] = "none"

(* A box removal: the box is gone; the dev account is retired before the   *)
(* history account, and has lost its row by then.                          *)
Unboxes ==
    cmd.verb = "unbox" =>
    /\ C \in Accounts /\ IsBox(C) /\ place.box[C] = "none" /\ cmd.todo = {}
    /\ cmd.pc \in Unbox => R \in Repos
    /\ cmd.pc = "br_prune" => Clean(C)
    /\ R \in Repos /\ cmd.pc \in Retire => Clean(C)
    /\ Tale(C) \in host.rows => \A r \in Repos : Row(C, r) \in host.rows =>
          r = R /\ cmd.pc \in Unbox
    /\ R = NoRepo => C \in torn \/ Clean(C) \/ Tale(C) \in host.rows
    /\ R = NoRepo => \A r \in Repos : Row(C, r) \notin host.rows
    /\ cmd.pc \in {"rt_user", "rt_token", "rt_prune"} => Tale(C) \in host.rows
    /\ cmd.pc = "rt_prune" => host.token[C] = "none"

(* A destroy: all of the project is down and without credentials inside;   *)
(* every row of it is of an account in hand; past the tokens, what still   *)
(* has a credential is torn or a history account still to be retired.      *)
Destroys ==
    cmd.verb = "destroy" =>
    /\ C \in Accounts /\ Home(C) \notin place.up /\ R = NoRepo
    /\ \A row \in RowsIn(Home(C)) : row.who \in cmd.todo
    /\ \A a \in cmd.todo : Home(a) = Home(C)
    /\ \A a \in Accounts : Home(a) = Home(C) =>
         /\ a \notin place.staged /\ ~Stands(a)
         /\ a \in torn \/ host.token[a] = "none" \/ RowsOf(a) # {}
         /\ cmd.pc \in Retire => a \in torn \/ host.token[a] = "none"
                                   \/ Tale(a) \in host.rows
    /\ cmd.pc \in {"rt_user", "rt_token", "rt_prune"} => Tale(C) \in host.rows
    /\ cmd.pc = "rt_prune" => host.token[C] = "none"

(* The step is one of the command's; where a purge may lose its answer, no *)
(* account is torn.                                                        *)
Begun ==
    /\ cmd.pc \in StepsOf(cmd.verb)
    /\ cmd.pc = "idle" => cmd = Idle
    /\ cmd.pc \in {"ra_migrate", "ra_stamp"} => R \in Repos
    /\ "lost" \in aim => torn = {}

(* The invariant.                                                          *)
LedgerInv ==
    /\ FiniteRows /\ ForksOwned /\ RowsForked /\ TalesBare /\ RowsPaired
    /\ DeadTold /\ OthersGood /\ Begun
    /\ Removes /\ Purges /\ Provisions /\ Chronicles
    /\ Detaches /\ Unboxes /\ Destroys

ForgeInv == ForgeTypes /\ LedgerInv

-----------------------------------------------------------------------------
(* What a step leaves alone, of everybody or of one account.               *)
SameRows   == host'.rows = host.rows
SameTokens == host'.token = host.token
SameForks  == forge'.users = forge.users /\ forge'.fork = forge.fork
SameNotes  == forge'.notes = forge.notes

SameFor(a) ==
    /\ RowsOf(a)' = RowsOf(a)
    /\ host'.token[a] = host.token[a]
    /\ a \in place'.staged <=> a \in place.staged
    /\ a \in forge'.users <=> a \in forge.users
    /\ forge'.fork[a] = forge.fork[a] /\ forge'.notes[a] = forge.notes[a]
    /\ Stands(a)' <=> Stands(a)

-----------------------------------------------------------------------------
(* The steps, by what they are part of: mirrors,                           *)
MirrorStep ==
    \/ \E r \in Repos : RepoAdd(r)
    \/ \E r \in Repos : RepoRemove(r)
    \/ \E r \in Repos : SetFetchEnabled(r)
    \/ \E x \in Accounts, r \in Repos : SetActiveFork(x, r)
    \/ Migrate
    \/ MigrateFails
    \/ Stamp
    \/ RemoveGate
    \/ RemoveList
    \/ \E x \in Accounts : RemoveFork(x)
    \/ RemoveToken("rr_token", "rr_owner")
    \/ RemoveToken("rr_last", "rr_next")
    \/ RemoveMirror
    \/ RemoveHost
    \/ RemoveOwner

(* outages,                                                                *)
OutageStep ==
    \/ ForgeStops
    \/ ForgeStarts

(* dev accounts,                                                           *)
ProvisionStep ==
    \/ \E p \in Projects, r \in Repos : DevCreate(p, r)
    \/ \E p \in Projects : PlainCreate(p)
    \/ \E p \in Projects, r \in Repos : Attach(p, r)
    \/ \E x \in Accounts, r \in Repos : DevBoxAdd(x, r)
    \/ ProvisionUser
    \/ ProvisionFork
    \/ ProvisionToken
    \/ ProvisionRecord
    \/ ProvisionStage

(* history accounts,                                                       *)
HistoryStep ==
    \/ \E p \in Projects : NotesCreate(p)
    \/ \E x \in Accounts : NotesBoxAdd(x)
    \/ HistoryRepo
    \/ HistoryUser
    \/ HistoryToken
    \/ HistoryRecord
    \/ HistoryStage
    \/ HistoryFails
    \/ NotesBoxFails
    \/ CleanRow
    \/ CleanToken

(* boxes that start, commands that die, purges and restarts,               *)
RestStep ==
    \/ CommandDies
    \/ \E x \in Accounts : Purge(x)
    \/ PurgeUser
    \/ PurgeAnswerLost
    \/ PurgeToken
    \/ \E p \in Projects : Rewire(p)
    \/ \E x \in Accounts : OperatorTidies(x)
    \/ BoxRuns

(* detach,                                                                 *)
DetachStep ==
    \/ \E p \in Projects, all \in BOOLEAN : Detach(p, all)
    \/ DetachArchive
    \/ DetachToken
    \/ DetachStage

(* box removal,                                                            *)
UnboxStep ==
    \/ \E x \in DOMAIN place.box : BoxRemove(x)
    \/ BoxArchive
    \/ BoxToken
    \/ BoxPrune

(* destroy,                                                                *)
DestroyStep ==
    \/ \E p \in Projects : Destroy(p)
    \/ DestroyArchive
    \/ DestroyTokens

(* and the history rows of both.                                           *)
RetireStep ==
    \/ RetireArchive
    \/ RetireUser
    \/ RetireToken
    \/ RetirePrune
    \/ RetireEnds

(* Of a step: no live fork goes, but of an account with a history row.     *)
ForksStay == \A a \in Accounts, r \in Repos :
                r \in Live(a) /\ Tale(a) \notin host.rows
                  => forge'.fork[a][r] # "none"

-----------------------------------------------------------------------------
(* A step to another of the same command keeps the command's type.         *)
LEMMA GoTyped ==
    ASSUME cmd \in DoingType, NEW from, NEW to \in ForgeSteps, Go(from, to)
    PROVE  cmd' \in DoingType
BY DEF Go, DoingType

(* A beginning keeps the command's type, too.                              *)
LEMMA BeginTyped ==
    ASSUME NEW verb \in ForgeVerbs, NEW pc \in ForgeSteps,
           NEW who \in Accounts \cup {Nobody}, NEW repo \in Repos \cup {NoRepo},
           NEW todo \in SUBSET Accounts, Begin(verb, pc, who, repo, todo)
    PROVE  cmd' \in DoingType
BY DEF Begin, DoingType

(* No command has the type.                                                *)
LEMMA IdleTyped == Idle \in DoingType
BY DEF Idle, DoingType, ForgeVerbs, ForgeSteps

(* What the types say of each field.                                       *)
LEMMA HasTypes ==
    ASSUME ForgeInv
    PROVE  /\ forge \in GiteaType /\ host \in HostType /\ place \in PlaceType
           /\ cmd \in DoingType /\ torn \in SUBSET Accounts /\ aim \in Aims
           /\ forge.users \in SUBSET Accounts
           /\ forge.minted \in SUBSET Accounts
           /\ forge.fork \in
                [Accounts -> [Repos -> {"none", "live", "archived"}]]
           /\ forge.mirror \in [Repos -> {"none", "stub", "full"}]
           /\ forge.notes \in [Accounts -> {"none", "live", "archived"}]
           /\ host.stamp \in SUBSET Repos /\ host.rows \in SUBSET Rows
           /\ host.token \in [Accounts -> {"none", "good", "dead"}]
           /\ place.up \in SUBSET Projects /\ place.staged \in SUBSET Accounts
           /\ place.left \in SUBSET Accounts
           /\ place.box \in [Boxed -> {"none", "dev", "notes", "plain"}]
           /\ cmd.verb \in ForgeVerbs /\ cmd.pc \in ForgeSteps
           /\ C \in Accounts \cup {Nobody} /\ R \in Repos \cup {NoRepo}
           /\ cmd.todo \in SUBSET Accounts
           /\ \A row \in host.rows : row.who \in Accounts
                                     /\ row.repo \in Repos \cup {NoRepo}
           /\ DOMAIN forge =
                {"up", "users", "minted", "fork", "mirror", "notes"}
           /\ DOMAIN host = {"stamp", "token", "rows", "active", "hidden"}
           /\ DOMAIN place = {"up", "box", "staged", "left"}
           /\ DOMAIN cmd = {"verb", "pc", "who", "repo", "todo"}
<1>1. /\ forge \in GiteaType /\ host \in HostType /\ place \in PlaceType
      /\ cmd \in DoingType /\ torn \in SUBSET Accounts /\ aim \in Aims
  BY DEF ForgeInv, ForgeTypes
<1>2. /\ forge.users \in SUBSET Accounts /\ forge.minted \in SUBSET Accounts
      /\ forge.fork \in [Accounts -> [Repos -> {"none", "live", "archived"}]]
      /\ forge.mirror \in [Repos -> {"none", "stub", "full"}]
      /\ forge.notes \in [Accounts -> {"none", "live", "archived"}]
  BY <1>1 DEF GiteaType
<1>3. /\ host.stamp \in SUBSET Repos /\ host.rows \in SUBSET Rows
      /\ host.token \in [Accounts -> {"none", "good", "dead"}]
  BY <1>1 DEF HostType
<1>4. /\ place.up \in SUBSET Projects /\ place.staged \in SUBSET Accounts
      /\ place.left \in SUBSET Accounts
      /\ place.box \in [Boxed -> {"none", "dev", "notes", "plain"}]
  BY <1>1 DEF PlaceType
<1>5. /\ cmd.verb \in ForgeVerbs /\ cmd.pc \in ForgeSteps
      /\ C \in Accounts \cup {Nobody} /\ R \in Repos \cup {NoRepo}
      /\ cmd.todo \in SUBSET Accounts
  BY <1>1 DEF DoingType, C, R
<1>6. \A row \in host.rows : row.who \in Accounts
                             /\ row.repo \in Repos \cup {NoRepo}
  BY <1>3 DEF Rows
<1>7. /\ DOMAIN forge = {"up", "users", "minted", "fork", "mirror", "notes"}
      /\ DOMAIN host = {"stamp", "token", "rows", "active", "hidden"}
      /\ DOMAIN place = {"up", "box", "staged", "left"}
      /\ DOMAIN cmd = {"verb", "pc", "who", "repo", "todo"}
  BY <1>1 DEF GiteaType, HostType, PlaceType, DoingType
<1> QED
  BY <1>1, <1>2, <1>3, <1>4, <1>5, <1>6, <1>7

(* Which steps name an account, and which a repo.                          *)
LEMMA HasNames ==
    ASSUME ForgeInv
    PROVE  /\ cmd.pc \in {"ra_migrate", "ra_stamp"} \cup Removal \cup Provide
                            \cup {"bx_run"} \cup Unbox => R \in Repos
           /\ cmd.pc \in {"rr_token", "rr_owner", "rr_last", "bx_run",
                          "bx_note", "bx_bare", "de_archive", "de_token"}
                         \cup Provide \cup Tell \cup Clear \cup Unbox
                         \cup Retire \cup Purging => C \in Accounts
<1> USE DEF ForgeInv, LedgerInv
<1>1. cmd.pc \in {"ra_migrate", "ra_stamp"} => R \in Repos
  BY DEF Begun
<1>2. cmd.pc \in Removal => R \in Repos
  BY DEF Removes
<1>3. cmd.pc \in {"rr_token", "rr_owner", "rr_last"} => C \in Accounts
  BY DEF Removes, Removal
<1>4. cmd.pc \in Provide \cup {"bx_run"} => C \in Accounts /\ R \in Repos
  BY DEF Provisions
<1>5. cmd.pc \in Tell \cup Clear \cup {"bx_note", "bx_bare"} => C \in Accounts
  BY DEF Chronicles
<1>6. cmd.pc \in Purging => C \in Accounts
  BY DEF Purges
<1>7. cmd.verb \in {"unbox", "destroy"} => C \in Accounts
  BY DEF Unboxes, Destroys
<1>8. /\ cmd.pc \in Unbox \cup Retire \cup {"de_archive", "de_token"} =>
            cmd.verb \in {"unbox", "destroy"}
      /\ cmd.pc \in Unbox => cmd.verb = "unbox"
  BY HasTypes DEF Begun, StepsOf, ForgeVerbs, Unbox, Retire, Removal, Provide,
     Tell, Clear, Purging
<1>9. cmd.pc \in Unbox => R \in Repos
  BY <1>8 DEF Unboxes
<1> HIDE DEF ForgeInv, LedgerInv
<1> QED
  BY <1>1, <1>2, <1>3, <1>4, <1>5, <1>6, <1>7, <1>8, <1>9

(* Archiving forks keeps Gitea's type.                                     *)
LEMMA ShelvedTyped ==
    ASSUME ForgeInv, NEW accounts, NEW repos
    PROVE  Shelved(accounts, repos) \in GiteaType
<1> DEFINE new == [a \in Accounts |-> [r \in Repos |->
                     IF /\ forge.up /\ a \in accounts /\ r \in repos
                        /\ forge.fork[a][r] = "live"
                     THEN "archived" ELSE forge.fork[a][r]]]
<1>1. new \in [Accounts -> [Repos -> {"none", "live", "archived"}]]
  BY HasTypes
<1>2. Shelved(accounts, repos) = [forge EXCEPT !.fork = new]
  BY HasTypes DEF Shelved, GiteaType
<1> HIDE DEF new
<1> QED
  BY <1>1, <1>2, HasTypes, ZenonT(40) DEF GiteaType

(* Deleting a user keeps Gitea's type.                                     *)
LEMMA UnuserTyped ==
    ASSUME ForgeInv, NEW a \in Accounts
    PROVE  Unuser(forge, a) \in GiteaType
<1> DEFINE new == [forge.fork EXCEPT ![a] = [r \in Repos |-> "none"]]
<1>1. new \in [Accounts -> [Repos -> {"none", "live", "archived"}]]
  BY HasTypes
<1>2. /\ Unuser(forge, a).fork = new
      /\ Unuser(forge, a).users = forge.users \ {a}
      /\ Unuser(forge, a).minted = forge.minted \ {a}
      /\ \A f \in {"up", "mirror", "notes"} : Unuser(forge, a)[f] = forge[f]
      /\ Unuser(forge, a) = [f \in DOMAIN forge |-> Unuser(forge, a)[f]]
  BY HasTypes DEF Unuser
<1> HIDE DEF new
<1> QED
  BY <1>1, <1>2, HasTypes DEF GiteaType

(* Archiving leaves users and notes repos alone, and a fork is none after  *)
(* it if and only if it was none.                                          *)
LEMMA ShelvedIs ==
    ASSUME ForgeInv, NEW accounts, NEW repos, forge' = Shelved(accounts, repos)
    PROVE  /\ forge'.users = forge.users /\ forge'.notes = forge.notes
           /\ \A a \in Accounts, r \in Repos :
                 /\ forge'.fork[a][r] = "none" <=> forge.fork[a][r] = "none"
                 /\ forge'.fork[a][r] = "live" => forge.fork[a][r] = "live"
                 /\ a \notin accounts => forge'.fork[a][r] = forge.fork[a][r]
<1>1. forge'.fork = [a \in Accounts |-> [r \in Repos |->
                     IF /\ forge.up /\ a \in accounts /\ r \in repos
                        /\ forge.fork[a][r] = "live"
                     THEN "archived" ELSE forge.fork[a][r]]]
  BY HasTypes DEF Shelved, GiteaType
<1>2. forge'.users = forge.users /\ forge'.notes = forge.notes
  BY HasTypes DEF Shelved, GiteaType
<1> QED
  BY <1>1, <1>2

(* Deleting a user takes its forks and nobody else's.                      *)
LEMMA UnuserIs ==
    ASSUME ForgeInv, NEW x \in Accounts, forge' = Unuser(forge, x)
    PROVE  /\ forge'.users = forge.users \ {x} /\ forge'.notes = forge.notes
           /\ \A r \in Repos : forge'.fork[x][r] = "none"
           /\ \A a \in Accounts \ {x}, r \in Repos :
                 forge'.fork[a][r] = forge.fork[a][r]
<1>1. forge'.fork = [forge.fork EXCEPT ![x] = [r \in Repos |-> "none"]]
  BY HasTypes DEF Unuser, GiteaType
<1>2. forge'.users = forge.users \ {x} /\ forge'.notes = forge.notes
  BY HasTypes DEF Unuser, GiteaType
<1> QED
  BY <1>1, <1>2, HasTypes

(* Staging adds, in a project that is up, the recorded accounts that have  *)
(* a token file.                                                           *)
LEMMA StagedIs ==
    ASSUME ForgeInv, NEW p, place' = Staged(host.rows, host.token, p)
    PROVE  /\ place' \in PlaceType
           /\ place'.up = place.up /\ place'.box = place.box
           /\ \A a \in Accounts :
                 a \in place'.staged <=>
                   \/ a \in place.staged
                   \/ /\ p \in place.up /\ Home(a) = p
                      /\ host.token[a] # "none" /\ RowsOf(a) # {}
<1> DEFINE new == {a \in {row.who : row \in host.rows} :
                     Home(a) = p /\ host.token[a] # "none"}
<1>1. new \in SUBSET Accounts
  BY HasTypes
<1>2. place' = IF p \notin place.up THEN place
               ELSE [place EXCEPT !.staged = place.staged \cup new,
                                  !.left = place.left \ new]
  BY DEF Staged
<1>3. \A a : a \in new <=> /\ \E row \in host.rows : row.who = a
                           /\ Home(a) = p /\ host.token[a] # "none"
  OBVIOUS
<1> HIDE DEF new
<1>4. /\ place'.up = place.up /\ place'.box = place.box
      /\ place'.staged = IF p \notin place.up THEN place.staged
                         ELSE place.staged \cup new
      /\ place' \in PlaceType
  <2>1. CASE p \notin place.up
    BY <1>2, <2>1, HasTypes
  <2>2. CASE p \in place.up
    <3> DEFINE staged == place.staged \cup new
               left == place.left \ new
    <3>1. staged \in SUBSET Accounts /\ left \in SUBSET Accounts
      BY <1>1, HasTypes
    <3>2. place' = [place EXCEPT !.staged = staged, !.left = left]
      BY <1>2, <2>2
    <3> HIDE DEF staged, left
    <3>3. /\ place' \in PlaceType /\ place'.staged = staged
          /\ place'.up = place.up /\ place'.box = place.box
      BY <3>1, <3>2, HasTypes DEF PlaceType
    <3> QED
      BY <2>2, <3>3 DEF staged
  <2> QED
    BY <2>1, <2>2
<1>5. \A a \in Accounts : RowsOf(a) # {} <=> \E row \in host.rows : row.who = a
  BY DEF RowsOf
<1> QED
  BY <1>3, <1>4, <1>5

(* Removing copies takes them from what is staged.                         *)
LEMMA UnstagedIs ==
    ASSUME ForgeInv, NEW accounts, Unstaged(accounts)
    PROVE  /\ place' \in PlaceType
           /\ place'.up = place.up /\ place'.box = place.box
           /\ place'.staged = place.staged \ accounts
<1>1. PICK stay \in SUBSET (accounts \cap place.staged) :
        place' = [place EXCEPT !.staged = place.staged \ accounts,
                               !.left = place.left \cup stay]
  BY DEF Unstaged
<1> DEFINE staged == place.staged \ accounts
           left == place.left \cup stay
<1>2. staged \in SUBSET Accounts /\ left \in SUBSET Accounts
  BY HasTypes
<1>3. place' = [place EXCEPT !.staged = staged, !.left = left]
  BY <1>1
<1> HIDE DEF staged, left
<1>4. /\ place' \in PlaceType /\ place'.staged = staged
      /\ place'.up = place.up /\ place'.box = place.box
  BY <1>2, <1>3, HasTypes DEF PlaceType
<1> QED
  BY <1>4 DEF staged

-----------------------------------------------------------------------------
(* Every step keeps the types: code paths that set a field to what another *)
(* call left there name an account that the command knows.                 *)
LEMMA TypesKept ==
    ASSUME ForgeInv, [Next]_vars
    PROVE  ForgeTypes'
<1> USE ForgeAssumption
<1>1. ASSUME CommandDies
      PROVE  ForgeTypes'
  BY <1>1, HasTypes, HasNames, IdleTyped
  DEF CommandDies, ForgeTypes, ForgeSteps, ForgeVerbs, DoingType, C, R,
      Provide, Tell, Clear, Retire, Unbox, Purging, Removal
<1>2. ASSUME ForgeStops
      PROVE  ForgeTypes'
  BY <1>2, HasTypes, HasNames
  DEF ForgeStops, ForgeTypes, GiteaType, C, R, Provide, Tell, Clear, Retire,
      Unbox, Purging, Removal
<1>3. ASSUME ForgeStarts
      PROVE  ForgeTypes'
  BY <1>3, HasTypes, HasNames
  DEF ForgeStarts, Resume, ForgeTypes, GiteaType, C, R, Provide, Tell, Clear,
      Retire, Unbox, Purging, Removal
<1>4. ASSUME NEW r \in Repos, RepoAdd(r)
      PROVE  ForgeTypes'
  <2>1. cmd' \in DoingType
    BY <1>4, HasTypes, BeginTyped DEF RepoAdd, ForgeSteps, ForgeVerbs, C, R
  <2>2. forge' \in GiteaType
    BY <1>4, HasTypes, HasNames
    DEF RepoAdd, Begin, Resume, GiteaType, C, R, Provide, Tell, Clear, Retire,
        Unbox, Purging, Removal
  <2> QED
    BY <1>4, <2>1, <2>2, HasTypes DEF RepoAdd, ForgeTypes
<1>5. ASSUME NEW r \in Repos, RepoRemove(r)
      PROVE  ForgeTypes'
  <2>1. cmd' \in DoingType
    BY <1>5, HasTypes, BeginTyped DEF RepoRemove, ForgeSteps, ForgeVerbs, C, R
  <2>2. forge' \in GiteaType
    BY <1>5, HasTypes, HasNames
    DEF RepoRemove, Begin, Resume, GiteaType, C, R, Provide, Tell, Clear,
        Retire, Unbox, Purging, Removal
  <2> QED
    BY <1>5, <2>1, <2>2, HasTypes DEF RepoRemove, ForgeTypes
<1>6. ASSUME NEW r \in Repos, SetFetchEnabled(r)
      PROVE  ForgeTypes'
  <2>1. host' \in HostType
    <3>1. PICK s \in SUBSET Repos : host' = [host EXCEPT !.hidden = s]
      <4>1. host.hidden \in SUBSET Repos
        BY HasTypes DEF HostType
      <4> QED
        BY <1>6, <4>1 DEF SetFetchEnabled
    <3> QED
      BY <3>1, HasTypes DEF HostType
  <2> QED
    BY <1>6, <2>1, HasTypes DEF SetFetchEnabled, ForgeTypes
<1>7. ASSUME Migrate
      PROVE  ForgeTypes'
  BY <1>7, HasTypes, HasNames, GoTyped
  DEF Migrate, Ask, ForgeTypes, GiteaType, ForgeSteps, ForgeVerbs, C, R,
      Provide, Tell, Clear, Retire, Unbox, Purging, Removal
<1>8. ASSUME MigrateFails
      PROVE  ForgeTypes'
  <2>1. cmd' \in DoingType
    BY <1>8, HasTypes, HasNames, IdleTyped
    DEF MigrateFails, DoingType, ForgeSteps, ForgeVerbs, C, R
  <2>2. forge' \in GiteaType
    <3>1. PICK left \in {"none", "stub"} :
             forge' = [forge EXCEPT !.mirror[R] = left]
      BY <1>8 DEF MigrateFails
    <3>2. R \in Repos
      BY <1>8, HasNames DEF MigrateFails
    <3> QED
      BY <3>1, <3>2, HasTypes DEF GiteaType
  <2> QED
    BY <1>8, <2>1, <2>2, HasTypes DEF MigrateFails, ForgeTypes
<1>9. ASSUME Stamp
      PROVE  ForgeTypes'
  <2>1. cmd' \in DoingType
    BY <1>9, HasTypes, HasNames, IdleTyped, GoTyped
    DEF Stamp, End, ForgeSteps, C, R
  <2>2. host' \in HostType
    <3>1. R \in Repos
      BY <1>9, HasNames DEF Stamp, End
    <3> QED
      BY <1>9, <3>1, HasTypes DEF Stamp, HostType
  <2> QED
    BY <1>9, <2>1, <2>2, HasTypes DEF Stamp, End, ForgeTypes
<1>10. ASSUME RemoveGate
      PROVE  ForgeTypes'
  BY <1>10, HasTypes, HasNames, GoTyped
  DEF RemoveGate, Ask, ForgeTypes, ForgeSteps, ForgeVerbs, C, R, Provide,
      Tell, Clear, Retire, Unbox, Purging, Removal
<1>11. ASSUME RemoveList
      PROVE  ForgeTypes'
  <2>1. cmd' \in DoingType
    <3>1. PICK s \in SUBSET Accounts :
            cmd' = [cmd EXCEPT !.pc = "rr_next", !.todo = s]
      BY <1>11 DEF RemoveList
    <3> QED
      BY <3>1, HasTypes DEF DoingType, ForgeSteps
  <2> QED
    BY <1>11, <2>1, HasTypes DEF RemoveList, ForgeTypes
<1>12. ASSUME NEW x \in Accounts, RemoveFork(x)
      PROVE  ForgeTypes'
  <2>1. cmd' \in DoingType
    <3>1. PICK pc \in {"rr_next", "rr_token", "rr_last"} :
             cmd' = [cmd EXCEPT !.todo = @ \ {x}, !.who = x, !.pc = pc]
      BY <1>12 DEF RemoveFork
    <3> QED
      BY <3>1, HasTypes DEF DoingType, ForgeSteps
  <2>2. forge' \in GiteaType
    <3>1. R \in Repos
      BY <1>12, HasNames DEF RemoveFork, Removal
    <3> QED
      BY <1>12, <3>1, HasTypes, ZenonT(40) DEF RemoveFork, GiteaType
  <2> QED
    BY <1>12, <2>1, <2>2, HasTypes DEF RemoveFork, ForgeTypes
<1>13. ASSUME RemoveToken("rr_token", "rr_owner")
      PROVE  ForgeTypes'
  BY <1>13, HasTypes, HasNames, GoTyped
  DEF RemoveToken, Untoken, ForgeTypes, HostType, Row, Tale, Rows, ForgeSteps,
      ForgeVerbs, C, R, Provide, Tell, Clear, Retire, Unbox, Purging, Removal
<1>14. ASSUME RemoveToken("rr_last", "rr_next")
      PROVE  ForgeTypes'
  BY <1>14, HasTypes, HasNames, GoTyped
  DEF RemoveToken, Untoken, ForgeTypes, HostType, Row, Tale, Rows, ForgeSteps,
      ForgeVerbs, C, R, Provide, Tell, Clear, Retire, Unbox, Purging, Removal
<1>15. ASSUME RemoveOwner
      PROVE  ForgeTypes'
  BY <1>15, HasTypes, HasNames, GoTyped, ZenonT(40)
  DEF RemoveOwner, Unuser, Untoken, ForgeTypes, GiteaType, HostType, Row,
      Tale, Rows, ForgeSteps, ForgeVerbs, C, R, Provide, Tell, Clear, Retire,
      Unbox, Purging, Removal
<1>16. ASSUME RemoveMirror
      PROVE  ForgeTypes'
  BY <1>16, HasTypes, HasNames, GoTyped
  DEF RemoveMirror, Ask, ForgeTypes, GiteaType, ForgeSteps, ForgeVerbs, C, R,
      Provide, Tell, Clear, Retire, Unbox, Purging, Removal
<1>17. ASSUME RemoveHost
      PROVE  ForgeTypes'
  BY <1>17, HasTypes, HasNames, IdleTyped
  DEF RemoveHost, End, ForgeTypes, HostType, Row, Tale, Rows, ForgeSteps,
      ForgeVerbs, C, R, Provide, Tell, Clear, Retire, Unbox, Purging, Removal
<1>18. ASSUME NEW p \in Projects, NEW r \in Repos, DevCreate(p, r)
      PROVE  ForgeTypes'
  <2>1. cmd' \in DoingType
    <3>1. <<p, Own>> \in Accounts
      BY HasTypes DEF Accounts, IsBox, Dev, RowsIn, Works, RowsOf, Boxed
    <3> QED
      BY <1>18, <3>1, HasTypes, BeginTyped
      DEF DevCreate, ForgeSteps, ForgeVerbs
  <2>2. forge' \in GiteaType
    BY <1>18, HasTypes, HasNames
    DEF DevCreate, Begin, Resume, GiteaType, C, R, Provide, Tell, Clear,
        Retire, Unbox, Purging, Removal
  <2>3. place' \in PlaceType
    BY <1>18, HasTypes, HasNames
    DEF DevCreate, Begin, Resume, PlaceType, C, R, Provide, Tell, Clear,
        Retire, Unbox, Purging, Removal
  <2> QED
    BY <1>18, <2>1, <2>2, <2>3, HasTypes DEF DevCreate, ForgeTypes
<1>19. ASSUME NEW p \in Projects, NEW r \in Repos, Attach(p, r)
      PROVE  ForgeTypes'
  <2>1. cmd' \in DoingType
    <3>1. <<p, Own>> \in Accounts
      BY HasTypes DEF Accounts, IsBox, Dev, RowsIn, Works, RowsOf, Boxed
    <3> QED
      BY <1>19, <3>1, HasTypes, BeginTyped DEF Attach, ForgeSteps, ForgeVerbs
  <2>2. forge' \in GiteaType
    BY <1>19, HasTypes, HasNames
    DEF Attach, Begin, Resume, GiteaType, C, R, Provide, Tell, Clear, Retire,
        Unbox, Purging, Removal
  <2> QED
    BY <1>19, <2>1, <2>2, HasTypes DEF Attach, ForgeTypes
<1>20. ASSUME NEW x \in Accounts, NEW r \in Repos, DevBoxAdd(x, r)
      PROVE  ForgeTypes'
  <2>1. cmd' \in DoingType
    BY <1>20, HasTypes, BeginTyped DEF DevBoxAdd, ForgeSteps, ForgeVerbs, C, R
  <2>2. forge' \in GiteaType
    BY <1>20, HasTypes, HasNames
    DEF DevBoxAdd, Begin, Resume, GiteaType, C, R, Provide, Tell, Clear,
        Retire, Unbox, Purging, Removal
  <2> QED
    BY <1>20, <2>1, <2>2, HasTypes DEF DevBoxAdd, ForgeTypes
<1>21. ASSUME NEW x \in Accounts, NEW r \in Repos, SetActiveFork(x, r)
      PROVE  ForgeTypes'
  BY <1>21, HasTypes, HasNames
  DEF SetActiveFork, ForgeTypes, HostType, Row, Tale, Rows, C, R, Provide,
      Tell, Clear, Retire, Unbox, Purging, Removal
<1>22. ASSUME ProvisionUser
      PROVE  ForgeTypes'
  <2>1. cmd' \in DoingType
    BY <1>22, HasTypes, GoTyped DEF ProvisionUser, ForgeSteps, Ask, C, R
  <2>2. forge' \in GiteaType
    <3>1. C \in Accounts /\ R \in Repos
      BY <1>22, HasNames DEF ProvisionUser, Ask, Go, Provide
    <3> QED
      BY <1>22, <3>1, HasTypes DEF ProvisionUser, GiteaType
  <2> QED
    BY <1>22, <2>1, <2>2, HasTypes DEF ProvisionUser, ForgeTypes
<1>23. ASSUME ProvisionFork
      PROVE  ForgeTypes'
  <2>1. cmd' \in DoingType
    BY <1>23, HasTypes, GoTyped DEF ProvisionFork, ForgeSteps, Ask, C, R
  <2>2. forge' \in GiteaType
    <3>1. C \in Accounts /\ R \in Repos
      BY <1>23, HasNames DEF ProvisionFork, Ask, Go, Provide
    <3> QED
      BY <1>23, <3>1, HasTypes DEF ProvisionFork, GiteaType
  <2> QED
    BY <1>23, <2>1, <2>2, HasTypes DEF ProvisionFork, ForgeTypes
<1>24. ASSUME ProvisionToken
      PROVE  ForgeTypes'
  <2>1. cmd' \in DoingType
    BY <1>24, HasTypes, GoTyped DEF ProvisionToken, ForgeSteps, C, R
  <2>2. forge' \in GiteaType
    <3>1. C \in Accounts
      BY <1>24, HasNames DEF ProvisionToken, Go, Provide
    <3>2. \/ forge' = forge
          \/ forge' = [forge EXCEPT !.minted = forge.minted \cup {C}]
      BY <1>24 DEF ProvisionToken
    <3> QED
      BY <3>1, <3>2, HasTypes DEF GiteaType
  <2>3. host' \in HostType
    <3>1. C \in Accounts
      BY <1>24, HasNames DEF ProvisionToken, Go, Provide
    <3>2. host' = host \/ host' = [host EXCEPT !.token[C] = "good"]
      BY <1>24 DEF ProvisionToken
    <3>3. CASE host' = [host EXCEPT !.token[C] = "good"]
      BY <3>1, <3>3, HasTypes DEF HostType
    <3> QED
      BY <3>2, <3>3, HasTypes
  <2> QED
    BY <1>24, <2>1, <2>2, <2>3, HasTypes DEF ProvisionToken, ForgeTypes
<1>25. ASSUME ProvisionRecord
      PROVE  ForgeTypes'
  <2>1. cmd' \in DoingType
    BY <1>25, HasTypes, GoTyped DEF ProvisionRecord, ForgeSteps, C, R
  <2>2. host' \in HostType
    <3>1. Row(C, R) \in Rows
      BY <1>25, HasNames DEF ProvisionRecord, Go, Provide, Row, Rows
    <3> QED
      BY <1>25, <3>1, HasTypes DEF ProvisionRecord, HostType
  <2> QED
    BY <1>25, <2>1, <2>2, HasTypes DEF ProvisionRecord, ForgeTypes
<1>26. ASSUME ProvisionStage
      PROVE  ForgeTypes'
  <2>1. cmd' \in DoingType
    BY <1>26, HasTypes, HasNames, IdleTyped, GoTyped
    DEF ProvisionStage, End, ForgeSteps, C, R
  <2>2. place' \in PlaceType
    BY <1>26, StagedIs DEF ProvisionStage
  <2> QED
    BY <1>26, <2>1, <2>2, HasTypes DEF ProvisionStage, End, ForgeTypes
<1>27. ASSUME BoxRuns
      PROVE  ForgeTypes'
  <2>1. cmd' \in DoingType
    BY <1>27, HasTypes, HasNames, IdleTyped
    DEF BoxRuns, DoingType, ForgeSteps, ForgeVerbs, C, R
  <2>2. place' \in PlaceType
    BY <1>27, HasTypes, HasNames
    DEF BoxRuns, PlaceType, C, R, Provide, Tell, Clear, Retire, Unbox,
        Purging, Removal
  <2> QED
    BY <1>27, <2>1, <2>2, HasTypes DEF BoxRuns, ForgeTypes
<1>28. ASSUME NEW p \in Projects, PlainCreate(p)
      PROVE  ForgeTypes'
  BY <1>28, HasTypes, HasNames
  DEF PlainCreate, ForgeTypes, PlaceType, C, R, Provide, Tell, Clear, Retire,
      Unbox, Purging, Removal
<1>29. ASSUME NEW p \in Projects, NotesCreate(p)
      PROVE  ForgeTypes'
  <2>1. cmd' \in DoingType
    <3>1. <<p, Notes>> \in Accounts
      BY HasTypes DEF Accounts, IsBox, Dev, RowsIn, Works, RowsOf, Boxed
    <3> QED
      BY <1>29, <3>1, HasTypes, BeginTyped
      DEF NotesCreate, ForgeSteps, ForgeVerbs
  <2>2. forge' \in GiteaType
    BY <1>29, HasTypes, HasNames
    DEF NotesCreate, Free, Begin, Resume, GiteaType, C, R, Provide, Tell,
        Clear, Retire, Unbox, Purging, Removal
  <2>3. place' \in PlaceType
    BY <1>29, HasTypes DEF NotesCreate, PlaceType
  <2> QED
    BY <1>29, <2>1, <2>2, <2>3, HasTypes DEF NotesCreate, ForgeTypes
<1>30. ASSUME NEW p \in Projects, Destroy(p)
      PROVE  ForgeTypes'
  <2>1. cmd' \in DoingType
    <3>1. /\ <<p, Own>> \in Accounts
          /\ {row.who : row \in RowsIn(p)} \in SUBSET Accounts
      BY HasTypes DEF Accounts, IsBox, Dev, RowsIn, Works, RowsOf, Boxed
    <3> QED
      BY <1>30, <3>1, HasTypes, BeginTyped DEF Destroy, ForgeSteps, ForgeVerbs
  <2>2. place' \in PlaceType
    <3>1. PICK left \in SUBSET Accounts :
            place' = [up |-> place.up \ {p},
                      box |-> [a \in DOMAIN place.box |->
                                 IF Home(a) = p THEN "none" ELSE place.box[a]],
                      staged |-> place.staged \
                                   {a \in place.staged : Home(a) = p},
                      left |-> left]
      BY <1>30, HasTypes DEF Destroy
    <3> QED
      BY <3>1, HasTypes DEF PlaceType
  <2> QED
    BY <1>30, <2>1, <2>2, HasTypes DEF Destroy, ForgeTypes
<1>31. ASSUME NEW p \in Projects, Rewire(p)
      PROVE  ForgeTypes'
  <2>1. place' \in PlaceType
    <3> DEFINE s == {a \in place.staged : Home(a) # p} \cup
                    {a \in {row.who : row \in RowsIn(p)} :
                       host.token[a] # "none"}
               left == {a \in place.left : Home(a) # p}
    <3>1. s \in SUBSET Accounts /\ left \in SUBSET Accounts
      BY HasTypes DEF RowsIn
    <3>2. place' = [place EXCEPT !.left = left, !.staged = s]
      BY <1>31 DEF Rewire
    <3> HIDE DEF s, left
    <3> QED
      BY <3>1, <3>2, HasTypes DEF PlaceType
  <2> QED
    BY <1>31, <2>1, HasTypes DEF Rewire, ForgeTypes
<1>32. ASSUME NEW x \in Accounts, NotesBoxAdd(x)
      PROVE  ForgeTypes'
  <2>1. cmd' \in DoingType
    BY <1>32, HasTypes, BeginTyped
    DEF NotesBoxAdd, ForgeSteps, ForgeVerbs, C, R
  <2>2. forge' \in GiteaType
    BY <1>32, HasTypes, HasNames
    DEF NotesBoxAdd, Begin, Resume, GiteaType, C, R, Provide, Tell, Clear,
        Retire, Unbox, Purging, Removal
  <2> QED
    BY <1>32, <2>1, <2>2, HasTypes DEF NotesBoxAdd, ForgeTypes
<1>33. ASSUME NEW x \in Accounts, Purge(x)
      PROVE  ForgeTypes'
  <2>1. cmd' \in DoingType
    BY <1>33, HasTypes, BeginTyped DEF Purge, ForgeSteps, ForgeVerbs, C, R
  <2>2. forge' \in GiteaType
    BY <1>33, HasTypes, HasNames
    DEF Purge, Begin, Resume, GiteaType, C, R, Provide, Tell, Clear, Retire,
        Unbox, Purging, Removal
  <2> QED
    BY <1>33, <2>1, <2>2, HasTypes DEF Purge, ForgeTypes
<1>34. ASSUME NEW x \in Accounts, OperatorTidies(x)
      PROVE  ForgeTypes'
  <2>1. forge' \in GiteaType
    <3>1. forge' \in {Shelved({x}, Repos), Unuser(forge, x), forge}
      BY <1>34 DEF OperatorTidies
    <3> QED
      BY <3>1, ShelvedTyped, UnuserTyped, HasTypes
  <2> QED
    BY <1>34, <2>1, HasTypes DEF OperatorTidies, ForgeTypes
<1>35. ASSUME HistoryRepo
      PROVE  ForgeTypes'
  BY <1>35, HasTypes, HasNames, GoTyped
  DEF HistoryRepo, Ask, ForgeTypes, GiteaType, ForgeSteps, ForgeVerbs, C, R,
      Provide, Tell, Clear, Retire, Unbox, Purging, Removal
<1>36. ASSUME HistoryUser
      PROVE  ForgeTypes'
  <2>1. cmd' \in DoingType
    BY <1>36, HasTypes, GoTyped DEF HistoryUser, ForgeSteps, Ask, C, R
  <2>2. forge' \in GiteaType
    <3>1. C \in Accounts
      BY <1>36, HasNames DEF HistoryUser, Ask, Go, Tell
    <3> DEFINE f == Unuser(forge, C)
    <3>2. f \in GiteaType
      BY <3>1, UnuserTyped
    <3>3. forge' = [f EXCEPT !.users = f.users \cup {C}]
      BY <1>36 DEF HistoryUser
    <3> HIDE DEF f
    <3> QED
      BY <3>1, <3>2, <3>3 DEF GiteaType
  <2>3. host' \in HostType
    <3>1. C \in Accounts
      BY <1>36, HasNames DEF HistoryUser, Ask, Go, Tell
    <3> QED
      BY <1>36, <3>1, HasTypes DEF HistoryUser, HostType, Stale
  <2> QED
    BY <1>36, <2>1, <2>2, <2>3, HasTypes DEF HistoryUser, ForgeTypes
<1>37. ASSUME HistoryToken
      PROVE  ForgeTypes'
  <2>1. cmd' \in DoingType
    BY <1>37, HasTypes, GoTyped DEF HistoryToken, ForgeSteps, Ask, C, R
  <2>2. forge' \in GiteaType
    <3>1. C \in Accounts
      BY <1>37, HasNames DEF HistoryToken, Ask, Go, Tell
    <3> QED
      BY <1>37, <3>1, HasTypes DEF HistoryToken, GiteaType
  <2>3. host' \in HostType
    <3>1. C \in Accounts
      BY <1>37, HasNames DEF HistoryToken, Ask, Go, Tell
    <3> QED
      BY <1>37, <3>1, HasTypes DEF HistoryToken, HostType
  <2> QED
    BY <1>37, <2>1, <2>2, <2>3, HasTypes DEF HistoryToken, ForgeTypes
<1>38. ASSUME HistoryRecord
      PROVE  ForgeTypes'
  <2>1. cmd' \in DoingType
    BY <1>38, HasTypes, GoTyped DEF HistoryRecord, ForgeSteps, C, R
  <2>2. host' \in HostType
    <3>1. Tale(C) \in Rows
      BY <1>38, HasNames DEF HistoryRecord, Go, Tell, Tale, Rows
    <3> QED
      BY <1>38, <3>1, HasTypes DEF HistoryRecord, HostType
  <2> QED
    BY <1>38, <2>1, <2>2, HasTypes DEF HistoryRecord, ForgeTypes
<1>39. ASSUME HistoryStage
      PROVE  ForgeTypes'
  <2>1. cmd' \in DoingType
    BY <1>39, HasTypes, HasNames, IdleTyped, GoTyped
    DEF HistoryStage, End, ForgeSteps, C, R
  <2>2. place' \in PlaceType
    BY <1>39, StagedIs DEF HistoryStage
  <2> QED
    BY <1>39, <2>1, <2>2, HasTypes DEF HistoryStage, End, ForgeTypes
<1>40. ASSUME HistoryFails
      PROVE  ForgeTypes'
  BY <1>40, HasTypes, HasNames
  DEF HistoryFails, ForgeTypes, ForgeSteps, ForgeVerbs, DoingType, C, R,
      Provide, Tell, Clear, Retire, Unbox, Purging, Removal
<1>41. ASSUME NotesBoxFails
      PROVE  ForgeTypes'
  BY <1>41, HasTypes, HasNames
  DEF NotesBoxFails, ForgeTypes, ForgeSteps, ForgeVerbs, DoingType, C, R,
      Provide, Tell, Clear, Retire, Unbox, Purging, Removal
<1>42. ASSUME CleanRow
      PROVE  ForgeTypes'
  BY <1>42, HasTypes, HasNames, GoTyped
  DEF CleanRow, ForgeTypes, HostType, Row, Tale, Rows, ForgeSteps, ForgeVerbs,
      C, R, Provide, Tell, Clear, Retire, Unbox, Purging, Removal
<1>43. ASSUME CleanToken
      PROVE  ForgeTypes'
  <2>1. cmd' \in DoingType
    BY <1>43, HasTypes, HasNames, IdleTyped, GoTyped
    DEF CleanToken, End, ForgeSteps, C, R
  <2>2. host' \in HostType
    BY <1>43, HasTypes, HasNames
    DEF CleanToken, Go, End, Untoken, HostType, Row, Tale, Rows, C, R,
        Provide, Tell, Clear, Retire, Unbox, Purging, Removal
  <2>3. place' \in PlaceType
    BY <1>43, UnstagedIs DEF CleanToken
  <2> QED
    BY <1>43, <2>1, <2>2, <2>3, HasTypes DEF CleanToken, End, ForgeTypes
<1>44. ASSUME NEW p \in Projects, NEW all \in BOOLEAN, Detach(p, all)
      PROVE  ForgeTypes'
  <2>1. cmd' \in DoingType
    <3> DEFINE gone == {row \in Dev(RowsIn(p)) : all \/ row.who = <<p, Own>>}
    <3>1. {row.who : row \in gone} \in SUBSET Accounts
      BY HasTypes DEF Dev, RowsIn
    <3>2. Begin("detach", "dt_archive", Nobody, NoRepo,
                {row.who : row \in gone})
      BY <1>44 DEF Detach
    <3> HIDE DEF gone
    <3> QED
      BY <3>1, <3>2, HasTypes, BeginTyped DEF ForgeSteps, ForgeVerbs
  <2>2. forge' \in GiteaType
    BY <1>44, HasTypes, HasNames
    DEF Detach, Begin, GiteaType, C, R, Provide, Tell, Clear, Retire, Unbox,
        Purging, Removal
  <2>3. host' \in HostType
    BY <1>44, HasTypes, HasNames
    DEF Detach, Begin, HostType, Row, Tale, Rows, C, R, Provide, Tell, Clear,
        Retire, Unbox, Purging, Removal
  <2>4. place' \in PlaceType
    BY <1>44, HasTypes, HasNames
    DEF Detach, Begin, PlaceType, C, R, Provide, Tell, Clear, Retire, Unbox,
        Purging, Removal
  <2> QED
    BY <1>44, <2>1, <2>2, <2>3, <2>4, HasTypes DEF Detach, ForgeTypes
<1>45. ASSUME DetachArchive
      PROVE  ForgeTypes'
  <2>1. cmd' \in DoingType
    BY <1>45, HasTypes, GoTyped DEF DetachArchive, ForgeSteps, C, R
  <2>2. forge' \in GiteaType
    BY <1>45, ShelvedTyped DEF DetachArchive
  <2> QED
    BY <1>45, <2>1, <2>2, HasTypes DEF DetachArchive, ForgeTypes
<1>46. ASSUME DetachToken
      PROVE  ForgeTypes'
  BY <1>46, HasTypes, HasNames, GoTyped
  DEF DetachToken, Untoken, ForgeTypes, HostType, Row, Tale, Rows, ForgeSteps,
      ForgeVerbs, C, R, Provide, Tell, Clear, Retire, Unbox, Purging, Removal
<1>47. ASSUME DetachStage
      PROVE  ForgeTypes'
  <2>1. place' \in PlaceType
    BY <1>47, UnstagedIs DEF DetachStage
  <2> QED
    BY <1>47, <2>1, HasTypes, IdleTyped DEF DetachStage, End, ForgeTypes
<1>48. ASSUME NEW x \in DOMAIN place.box, BoxRemove(x)
      PROVE  ForgeTypes'
  <2>1. cmd' \in DoingType
    <3>1. x \in Accounts /\ Works(x) \subseteq Repos
      BY HasTypes DEF Boxed, Works, Dev, RowsOf
    <3> QED
      BY <1>48, <3>1, HasTypes, BeginTyped
      DEF BoxRemove, ForgeSteps, ForgeVerbs
  <2>2. place' \in PlaceType
    BY <1>48, HasTypes, HasNames
    DEF BoxRemove, Begin, PlaceType, C, R, Provide, Tell, Clear, Retire,
        Unbox, Purging, Removal
  <2> QED
    BY <1>48, <2>1, <2>2, HasTypes DEF BoxRemove, ForgeTypes
<1>49. ASSUME BoxArchive
      PROVE  ForgeTypes'
  <2>1. cmd' \in DoingType
    BY <1>49, HasTypes, GoTyped DEF BoxArchive, ForgeSteps, C, R
  <2>2. forge' \in GiteaType
    BY <1>49, ShelvedTyped DEF BoxArchive
  <2> QED
    BY <1>49, <2>1, <2>2, HasTypes DEF BoxArchive, ForgeTypes
<1>50. ASSUME BoxToken
      PROVE  ForgeTypes'
  <2>1. place' \in PlaceType
    BY <1>50, UnstagedIs DEF BoxToken
  <2> QED
    BY <1>50, <2>1, HasTypes, GoTyped
    DEF BoxToken, Untoken, ForgeTypes, HostType, ForgeSteps
<1>51. ASSUME BoxPrune
      PROVE  ForgeTypes'
  BY <1>51, HasTypes, HasNames, GoTyped
  DEF BoxPrune, ForgeTypes, HostType, Row, Tale, Rows, ForgeSteps, ForgeVerbs,
      C, R, Provide, Tell, Clear, Retire, Unbox, Purging, Removal
<1>52. ASSUME DestroyArchive
      PROVE  ForgeTypes'
  <2>1. cmd' \in DoingType
    BY <1>52, HasTypes, GoTyped DEF DestroyArchive, ForgeSteps, C, R
  <2>2. forge' \in GiteaType
    BY <1>52, ShelvedTyped DEF DestroyArchive
  <2> QED
    BY <1>52, <2>1, <2>2, HasTypes DEF DestroyArchive, ForgeTypes
<1>53. ASSUME DestroyTokens
      PROVE  ForgeTypes'
  BY <1>53, HasTypes, HasNames, GoTyped
  DEF DestroyTokens, Untoken, ForgeTypes, HostType, Row, Tale, Rows,
      ForgeSteps, ForgeVerbs, C, R, Provide, Tell, Clear, Retire, Unbox,
      Purging, Removal
<1>54. ASSUME RetireArchive
      PROVE  ForgeTypes'
  <2>1. cmd' \in DoingType
    <3>1. PICK row \in Tales :
            cmd' = [cmd EXCEPT !.pc = "rt_user", !.who = row.who]
      BY <1>54 DEF RetireArchive
    <3>2. row.who \in Accounts
      BY HasTypes DEF Tales
    <3> QED
      BY <3>1, <3>2, HasTypes DEF DoingType, ForgeSteps
  <2>2. forge' \in GiteaType
    <3>1. PICK row \in Tales, up \in {forge.up, TRUE} :
             forge' = [forge EXCEPT !.up = up, !.notes[row.who] =
                         IF up /\ forge.notes[row.who] = "live"
                         THEN "archived" ELSE forge.notes[row.who]]
      BY <1>54 DEF RetireArchive
    <3>2. row.who \in Accounts /\ up \in BOOLEAN
      BY HasTypes DEF Tales, GiteaType
    <3> QED
      BY <3>1, <3>2, HasTypes DEF GiteaType
  <2> QED
    BY <1>54, <2>1, <2>2, HasTypes DEF RetireArchive, ForgeTypes
<1>55. ASSUME RetireUser
      PROVE  ForgeTypes'
  <2>1. cmd' \in DoingType
    BY <1>55, HasTypes, GoTyped DEF RetireUser, ForgeSteps, C, R
  <2>2. forge' \in GiteaType
    <3>1. C \in Accounts
      BY <1>55, HasNames DEF RetireUser, Go, Retire
    <3> QED
      BY <1>55, <3>1, UnuserTyped, HasTypes DEF RetireUser
  <2>3. host' \in HostType
    <3>1. C \in Accounts
      BY <1>55, HasNames DEF RetireUser, Go, Retire
    <3>2. Stale(host, C) \in HostType
      BY <3>1, HasTypes DEF HostType, Stale
    <3> QED
      BY <1>55, <3>2, HasTypes DEF RetireUser
  <2> QED
    BY <1>55, <2>1, <2>2, <2>3, HasTypes DEF RetireUser, ForgeTypes
<1>56. ASSUME RetireToken
      PROVE  ForgeTypes'
  BY <1>56, HasTypes, HasNames, GoTyped
  DEF RetireToken, Untoken, ForgeTypes, HostType, Row, Tale, Rows, ForgeSteps,
      ForgeVerbs, C, R, Provide, Tell, Clear, Retire, Unbox, Purging, Removal
<1>57. ASSUME RetirePrune
      PROVE  ForgeTypes'
  <2>1. place' \in PlaceType
    BY <1>57, UnstagedIs DEF RetirePrune
  <2> QED
    BY <1>57, <2>1, HasTypes, GoTyped
    DEF RetirePrune, ForgeTypes, HostType, ForgeSteps
<1>58. ASSUME RetireEnds
      PROVE  ForgeTypes'
  BY <1>58, HasTypes, HasNames, IdleTyped
  DEF RetireEnds, End, ForgeTypes, HostType, Row, Tale, Rows, ForgeSteps,
      ForgeVerbs, C, R, Provide, Tell, Clear, Retire, Unbox, Purging, Removal
<1>59. ASSUME PurgeUser
      PROVE  ForgeTypes'
  <2>1. cmd' \in DoingType
    BY <1>59, HasTypes, GoTyped DEF PurgeUser, ForgeSteps, Ask, C, R
  <2>2. forge' \in GiteaType
    <3>1. C \in Accounts
      BY <1>59, HasNames DEF PurgeUser, Ask, Go, Purging
    <3> QED
      BY <1>59, <3>1, UnuserTyped DEF PurgeUser
  <2>3. host' \in HostType
    <3>1. C \in Accounts
      BY <1>59, HasNames DEF PurgeUser, Ask, Go, Purging
    <3> QED
      BY <1>59, <3>1, HasTypes DEF PurgeUser, HostType, Stale
  <2> QED
    BY <1>59, <2>1, <2>2, <2>3, HasTypes DEF PurgeUser, ForgeTypes
<1>60. ASSUME PurgeAnswerLost
      PROVE  ForgeTypes'
  <2>1. cmd' \in DoingType
    BY <1>60, HasTypes, HasNames, IdleTyped
    DEF PurgeAnswerLost, DoingType, ForgeSteps, ForgeVerbs, C, R
  <2>2. forge' \in GiteaType
    <3>1. C \in Accounts
      BY <1>60, HasNames DEF PurgeAnswerLost, Purging
    <3> QED
      BY <1>60, <3>1, UnuserTyped DEF PurgeAnswerLost
  <2>3. host' \in HostType
    <3>1. C \in Accounts
      BY <1>60, HasNames DEF PurgeAnswerLost, Purging
    <3> QED
      BY <1>60, <3>1, HasTypes DEF PurgeAnswerLost, HostType, Stale
  <2> QED
    BY <1>60, <2>1, <2>2, <2>3, HasTypes DEF PurgeAnswerLost, ForgeTypes
<1>61. ASSUME PurgeToken
      PROVE  ForgeTypes'
  BY <1>61, HasTypes, HasNames, IdleTyped
  DEF PurgeToken, End, Untoken, ForgeTypes, HostType, Row, Tale, Rows,
      ForgeSteps, ForgeVerbs, C, R, Provide, Tell, Clear, Retire, Unbox,
      Purging, Removal
<1>62. ASSUME UNCHANGED vars
      PROVE  ForgeTypes'
  BY <1>62, HasTypes DEF vars, ForgeTypes
<1> QED
  BY <1>1, <1>2, <1>3, <1>4, <1>5, <1>6, <1>7, <1>8, <1>9, <1>10, <1>11,
     <1>12, <1>13, <1>14, <1>15, <1>16, <1>17, <1>18, <1>19, <1>20, <1>21,
     <1>22, <1>23, <1>24, <1>25, <1>26, <1>27, <1>28, <1>29, <1>30, <1>31,
     <1>32, <1>33, <1>34, <1>35, <1>36, <1>37, <1>38, <1>39, <1>40, <1>41,
     <1>42, <1>43, <1>44, <1>45, <1>46, <1>47, <1>48, <1>49, <1>50, <1>51,
     <1>52, <1>53, <1>54, <1>55, <1>56, <1>57, <1>58, <1>59, <1>60, <1>61,
     <1>62
  DEF Next

-----------------------------------------------------------------------------
(* The step tells the command, except for those that several have.         *)
LEMMA VerbOf ==
    ASSUME ForgeInv
    PROVE  /\ cmd.pc = "idle" <=> cmd.verb = "none"
           /\ cmd.pc \in {"ra_migrate", "ra_stamp"} => cmd.verb = "add"
           /\ cmd.pc \in Removal => cmd.verb = "remove"
           /\ cmd.pc \in Provide => cmd.verb \in {"create", "attach", "box"}
           /\ cmd.pc = "bx_run" => cmd.verb = "box"
           /\ cmd.pc \in Tell => cmd.verb \in {"create", "notes"}
           /\ cmd.pc \in Clear => cmd.verb \in {"create", "notes", "notesfail"}
           /\ cmd.pc \in {"bx_note", "bx_bare"} => cmd.verb = "notes"
           /\ cmd.pc \in {"dt_archive", "dt_token", "dt_stage"} =>
                 cmd.verb = "detach"
           /\ cmd.pc \in Unbox => cmd.verb = "unbox"
           /\ cmd.pc \in {"de_archive", "de_token"} => cmd.verb = "destroy"
           /\ cmd.pc \in Retire => cmd.verb \in {"unbox", "destroy"}
           /\ cmd.pc \in Purging => cmd.verb = "purge"
BY HasTypes, ZenonT(40)
DEF ForgeInv, LedgerInv, Begun, StepsOf, ForgeVerbs, Removal, Provide, Tell,
    Clear, Unbox, Retire, Purging

(* Each part of the invariant is kept by a step that leaves its variables  *)
(* alone, or by a command it is not about.                                 *)
LEMMA Frames ==
    ASSUME ForgeInv, aim' = aim
    PROVE  /\ SameRows => FiniteRows'
           /\ SameForks => ForksOwned'
           /\ SameRows /\ SameTokens
              /\ cmd.pc \notin {"pg_token", "hs_token"} \cup Clear => DeadTold'
           /\ cmd'.pc \notin Removal => Removes'
           /\ cmd'.pc \notin Purging => Purges'
           /\ cmd'.pc \notin Provide \cup {"bx_run"} => Provisions'
           /\ cmd'.pc \notin Tell \cup Clear \cup {"bx_note", "bx_bare"} =>
                 Chronicles'
           /\ cmd'.pc \notin {"dt_archive", "dt_token", "dt_stage"} =>
                 Detaches'
           /\ cmd'.verb # "unbox" => Unboxes'
           /\ cmd'.verb # "destroy" => Destroys'
<1> USE DEF ForgeInv, LedgerInv
<1>1. SameRows => FiniteRows'
  BY DEF SameRows, FiniteRows
<1>2. SameForks => ForksOwned'
  BY DEF SameForks, ForksOwned, Bare
<1>3. SameRows /\ SameTokens
      /\ cmd.pc \notin {"pg_token", "hs_token"} \cup Clear => DeadTold'
  BY DEF SameRows, SameTokens, DeadTold
<1>4. /\ cmd'.pc \notin Removal => Removes'
      /\ cmd'.pc \notin Purging => Purges'
  BY DEF Removes, Purges
<1>5. /\ cmd'.pc \notin Provide \cup {"bx_run"} => Provisions'
      /\ cmd'.pc \notin Tell \cup Clear \cup {"bx_note", "bx_bare"} =>
            Chronicles'
      /\ cmd'.pc \notin {"dt_archive", "dt_token", "dt_stage"} => Detaches'
  BY DEF Provisions, Chronicles, Detaches
<1>6. /\ cmd'.verb # "unbox" => Unboxes'
      /\ cmd'.verb # "destroy" => Destroys'
  BY DEF Unboxes, Destroys
<1> QED
  BY ONLY <1>1, <1>2, <1>3, <1>4, <1>5, <1>6

(* An account that nothing happens to stays as it should be.               *)
LEMMA GoodSame ==
    ASSUME NEW a \in Accounts, SameFor(a), Good(a)
    PROVE  Good(a)'
<1>1. RowsOf(a)' = RowsOf(a)
  BY DEF SameFor
<1>2. Clean(a)' <=> Clean(a)
  BY DEF SameFor, Clean
<1>3. Stands(a)' <=> Stands(a)
  BY DEF SameFor
<1>4. ASSUME NEW row \in RowsOf(a), RowWorks(row)
      PROVE  RowWorks(row)'
  BY <1>4 DEF SameFor, RowWorks, RowsOf, Live
<1>5. Tale(a)' = Tale(a) /\ IsBox(a)' = IsBox(a)
      /\ (Tale(a) \in host'.rows <=> Tale(a) \in host.rows)
  BY <1>1 DEF RowsOf, Tale, IsBox
<1> QED
  BY <1>1, <1>2, <1>3, <1>4, <1>5 DEF Good

(* So all are as they should be if each, unless it is torn or in hand, is  *)
(* untouched or made good.                                                 *)
LEMMA GoodFrame ==
    ASSUME ForgeInv,
           \A a \in Accounts \ (torn' \cup Hand') :
              (a \notin torn \cup Hand /\ SameFor(a)) \/ Good(a)'
    PROVE  OthersGood'
BY GoodSame DEF ForgeInv, LedgerInv, OthersGood

(* A step that touches no account, and lets none go.                       *)
LEMMA QuietFrame ==
    ASSUME ForgeInv, SameRows, SameForks, SameNotes, SameTokens,
           place' = place, torn \subseteq torn', Hand \subseteq torn' \cup Hand'
    PROVE  OthersGood'
<1>1. \A a \in Accounts : SameFor(a)
  BY DEF SameFor, SameRows, SameForks, SameNotes, SameTokens, RowsOf, Stands
<1> QED
  BY <1>1, GoodFrame

(* What a provision heals has one row.                                     *)
LEMMA HealedIs ==
    ASSUME ForgeInv, C \in Accounts
    PROVE  /\ C \in Healed => \E row \in host.rows : RowsOf(C) = {row}
           /\ Healed \subseteq {C}
<1>1. ASSUME C \in Healed
      PROVE  \E row \in host.rows : RowsOf(C) = {row}
  <2>1. Cardinality(RowsOf(C)) = 1
    BY <1>1 DEF Healed
  <2>2. IsFiniteSet(RowsOf(C)) /\ RowsOf(C) \subseteq host.rows
    BY FS_Subset DEF ForgeInv, LedgerInv, FiniteRows, RowsOf
  <2>3. PICK row : RowsOf(C) = {row}
    BY <2>1, <2>2, FS_Singleton
  <2> QED
    BY <2>2, <2>3
<1>2. Healed \subseteq {C}
  BY DEF Healed
<1> QED
  BY <1>1, <1>2

(* A row is of an account and a repo, or a history account's.              *)
LEMMA RowIs ==
    ASSUME ForgeInv, NEW row \in host.rows
    PROVE  /\ row = Row(row.who, row.repo) /\ row.who \in Accounts
           /\ row.repo \in Repos \cup {NoRepo}
           /\ row.repo = NoRepo => row = Tale(row.who)
BY HasTypes DEF Rows, Row, Tale

(* An account without forks has no row but that of its history, unless a   *)
(* destroy took the forks.                                                 *)
LEMMA BareRows ==
    ASSUME ForgeInv, NEW a \in Accounts, Bare(a), ~Wiped(a)
    PROVE  RowsOf(a) = host.rows \cap {Tale(a)}
<1>1. ASSUME NEW row \in RowsOf(a)
      PROVE  row = Tale(a)
  <2>1. row \in host.rows /\ row.who = a
    BY DEF RowsOf
  <2>2. row.repo \notin Repos
    BY <2>1, RowIs DEF ForgeInv, LedgerInv, RowsForked, Bare
  <2> QED
    BY <2>1, <2>2, RowIs
<1> QED
  BY <1>1 DEF RowsOf, Tale

-----------------------------------------------------------------------------
(* The rows of one account against its forks: all that PairsInv says.      *)
PairOf(a) ==
    /\ \A r \in Repos : Row(a, r) \in host.rows =>
          forge.fork[a][r] # "none" \/ Wiped(a)
    /\ Tale(a) \in host.rows =>
         /\ a[2] # Own
         /\ a[2] \in Boxes => "tales" \in aim
         /\ Bare(a) \/ (IsBox(a) /\ (a \in torn \/ Adopting(a)))
    /\ Paired(a)

(* It has no new row, and what excused it goes on.                         *)
FewerRows(a) == \A row \in host'.rows : row.who = a => row \in host.rows
SameNone(a)  == \A r \in Repos :
                   forge'.fork[a][r] = "none" <=> forge.fork[a][r] = "none"
Excused(a) ==
    /\ Stands(a) => Stands(a)'
    /\ a \in torn => a \in torn'
    /\ Wiped(a) => Wiped(a)'
    /\ Adopting(a) => Adopting(a)'
    /\ Doubling(a) => Doubling(a)'
    /\ C = a /\ cmd.pc \in Unbox => (C = a)' /\ cmd'.pc \in Unbox
    /\ cmd.verb = "destroy" /\ Home(a) = Home(C) =>
         cmd'.verb = "destroy" /\ Home(a) = Home(C)'

(* PairsInv, account by account.                                           *)
LEMMA PairsAre ==
    /\ PairsInv <=> \A a \in Accounts : PairOf(a)
    /\ PairsInv' <=> \A a \in Accounts : PairOf(a)'
BY DEF PairsInv, RowsForked, TalesBare, RowsPaired, PairOf

(* An account whose rows and forks are left alone.                         *)
LEMMA PairSame ==
    ASSUME aim' = aim, NEW a \in Accounts, PairOf(a),
           FewerRows(a), SameNone(a), Excused(a)
    PROVE  PairOf(a)'
<1>1. /\ Tale(a) \in host'.rows => Tale(a) \in host.rows
      /\ \A r \in Repos : Row(a, r) \in host'.rows => Row(a, r) \in host.rows
  BY DEF FewerRows, Tale, Row
<1>2. /\ Tale(a)' = Tale(a) /\ IsBox(a)' = IsBox(a)
      /\ \A r \in Repos : Row(a, r)' = Row(a, r)
  BY DEF Tale, Row, IsBox
<1>3. Bare(a) <=> Bare(a)'
  BY DEF Bare, SameNone
<1>4. \A r \in Repos : Row(a, r) \in host'.rows =>
         forge'.fork[a][r] # "none" \/ Wiped(a)'
  BY <1>1, ZenonT(40) DEF PairOf, SameNone, Excused
<1>5. Tale(a) \in host'.rows =>
         /\ a[2] # Own
         /\ a[2] \in Boxes => "tales" \in aim'
         /\ Bare(a)' \/ (IsBox(a) /\ (a \in torn' \/ Adopting(a)'))
  BY <1>1, <1>3 DEF PairOf, Excused
<1>6. Paired(a)'
  <2> SUFFICES ASSUME Tale(a) \in host'.rows, NEW r \in Repos,
                      Row(a, r) \in host'.rows
               PROVE  /\ a \in torn' \/ Doubling(a)'
                      /\ \/ Stands(a)' \/ Doubling(a)'
                         \/ (C = a)' /\ cmd'.pc \in Unbox
                         \/ cmd'.verb = "destroy" /\ Home(a) = Home(C)'
                      /\ \A q \in Repos : Row(a, q) \in host'.rows =>
                           \/ q = r
                           \/ Doubling(a)' /\ Stands(a)' /\ a \in torn'
    BY <1>2, ZenonT(40) DEF Paired, Unbox, Home
  <2>1. Paired(a) /\ Tale(a) \in host.rows /\ Row(a, r) \in host.rows
    BY <1>1 DEF PairOf
  <2>2. /\ a \in torn \/ Doubling(a)
        /\ \/ Stands(a) \/ Doubling(a)
           \/ C = a /\ cmd.pc \in Unbox
           \/ cmd.verb = "destroy" /\ Home(a) = Home(C)
        /\ \A q \in Repos : Row(a, q) \in host.rows =>
             q = r \/ (Doubling(a) /\ Stands(a) /\ a \in torn)
    BY <2>1 DEF Paired
  <2> QED
    BY <1>1, <2>2, ZenonT(40) DEF Excused
<1> QED
  BY <1>2, <1>4, <1>5, <1>6, ZenonT(40) DEF PairOf

(* An account without rows.                                                *)
LEMMA PairNone ==
    ASSUME NEW a \in Accounts, RowsOf(a)' = {}
    PROVE  PairOf(a)'
<1>1. Tale(a) \notin host'.rows /\ \A r \in Repos : Row(a, r) \notin host'.rows
  BY DEF RowsOf, Tale, Row
<1> QED
  BY <1>1 DEF PairOf, Paired, Tale, Row

(* One without history, whose dev rows have forks.                         *)
LEMMA PairDev ==
    ASSUME NEW a \in Accounts, Tale(a) \notin host'.rows,
           \A r \in Repos : Row(a, r) \in host'.rows =>
              forge'.fork[a][r] # "none"
    PROVE  PairOf(a)'
BY DEF PairOf, Paired, Tale, Row

(* One with a history row at most, and no forks.                           *)
LEMMA PairTale ==
    ASSUME NEW a \in Accounts, a[2] # Own, a[2] \in Boxes => "tales" \in aim',
           Bare(a)', \A r \in Repos : Row(a, r) \notin host'.rows
    PROVE  PairOf(a)'
BY DEF PairOf, Paired, Row

(* A command begins or nothing runs: nobody loses anything.                *)
LEMMA PairsBegin ==
    ASSUME ForgeInv, cmd = Idle, aim' = aim, host'.rows \subseteq host.rows,
           SameForks, place'.box = place.box, place.up \subseteq place'.up,
           torn' = torn
    PROVE  PairsInv'
<1>1. SUFFICES ASSUME NEW a \in Accounts
               PROVE  PairOf(a)'
  BY PairsAre
<1>2. PairOf(a)
  BY PairsAre DEF ForgeInv, LedgerInv, PairsInv
<1>3. FewerRows(a) /\ SameNone(a)
  BY DEF FewerRows, SameNone, SameForks
<1>4. /\ cmd.pc = "idle" /\ cmd.verb = "none" /\ C = Nobody
      /\ Nobody \notin Accounts
  BY ForgeAssumption DEF Idle, C
<1>5. Excused(a)
  BY <1>4 DEF Excused, Stands, Wiped, Adopting, Doubling, Provide, Unbox
<1> QED
  BY <1>2, <1>3, <1>5, PairSame

(* A command goes on to another step of the same part, or one of another   *)
(* kind of command goes on or ends.                                        *)
LEMMA PairsGo ==
    ASSUME ForgeInv, aim' = aim, host'.rows \subseteq host.rows,
           \A a \in Accounts : SameNone(a),
           place'.box = place.box, place'.up = place.up, torn \subseteq torn',
           \/ cmd.pc \notin {"bx_run", "de_archive", "de_token"} \cup Provide
                              \cup Unbox \cup Retire
           \/ /\ cmd'.who = cmd.who /\ cmd'.verb = cmd.verb
              /\ cmd.pc \in Provide \cup {"bx_run"} =>
                    cmd'.pc \in Provide \cup {"bx_run"}
              /\ cmd.pc \in {"pv_stage", "bx_run"} =>
                    cmd'.pc \in {"pv_stage", "bx_run"}
              /\ cmd.pc \in Unbox => cmd'.pc \in Unbox
              /\ cmd.pc \in Retire => cmd'.pc \in Retire
    PROVE  PairsInv'
<1>1. SUFFICES ASSUME NEW a \in Accounts
               PROVE  PairOf(a)'
  BY PairsAre
<1>2. PairOf(a)
  BY PairsAre DEF ForgeInv, LedgerInv, PairsInv
<1>3. FewerRows(a) /\ SameNone(a)
  BY DEF FewerRows
<1>4. Stands(a)' <=> Stands(a)
  BY DEF Stands
<1>5. CASE cmd.pc \notin {"bx_run", "de_archive", "de_token"} \cup Provide
                          \cup Unbox \cup Retire
  <2>1. cmd.verb # "destroy"
    BY <1>5 DEF ForgeInv, LedgerInv, Begun, StepsOf
  <2>2. Excused(a)
    BY <1>4, <1>5, <2>1 DEF Excused, Wiped, Adopting, Doubling, Provide
  <2> QED
    BY <1>2, <1>3, <2>2, PairSame
<1>6. CASE /\ cmd'.who = cmd.who /\ cmd'.verb = cmd.verb
           /\ cmd.pc \in Provide \cup {"bx_run"} =>
                 cmd'.pc \in Provide \cup {"bx_run"}
           /\ cmd.pc \in {"pv_stage", "bx_run"} =>
                 cmd'.pc \in {"pv_stage", "bx_run"}
           /\ cmd.pc \in Unbox => cmd'.pc \in Unbox
           /\ cmd.pc \in Retire => cmd'.pc \in Retire
  <2>1. C' = C
    BY <1>6 DEF C
  <2>2. /\ a \in torn => a \in torn'
        /\ Wiped(a) => Wiped(a)'
    BY <1>6, <2>1 DEF Wiped
  <2>3. Adopting(a) => Adopting(a)'
    BY <1>6, <2>1 DEF Adopting
  <2>4. Doubling(a) => Doubling(a)'
    BY <1>6, <2>1 DEF Doubling
  <2>5. Excused(a)
    BY <1>4, <1>6, <2>1, <2>2, <2>3, <2>4 DEF Excused
  <2> QED
    BY <1>2, <1>3, <2>5, PairSame
<1> QED
  BY <1>5, <1>6

(* A step on one account, of a command that is no destroy.                 *)
LEMMA PairsBut ==
    ASSUME ForgeInv, aim' = aim, NEW x \in Accounts, PairOf(x)',
           cmd.verb # "destroy",
           \/ C = x
           \/ cmd.pc \notin {"bx_run"} \cup Provide \cup Unbox,
           \A a \in Accounts \ {x} :
              /\ FewerRows(a) /\ SameNone(a)
              /\ Stands(a) => Stands(a)'
              /\ a \in torn => a \in torn'
    PROVE  PairsInv'
<1>1. SUFFICES ASSUME NEW a \in Accounts, a # x
               PROVE  PairOf(a)'
  BY PairsAre
<1>2. PairOf(a)
  BY PairsAre DEF ForgeInv, LedgerInv, PairsInv
<1>3. ~Wiped(a) /\ ~Adopting(a) /\ ~Doubling(a)
      /\ ~(C = a /\ cmd.pc \in Unbox)
  BY <1>1 DEF Wiped, Adopting, Doubling, Provide
<1>4. Excused(a)
  BY <1>1, <1>3 DEF Excused
<1> QED
  BY <1>1, <1>2, <1>4, PairSame

(* Every step keeps PairsInv.                                              *)
LEMMA PairsKept ==
    ASSUME ForgeInv, Next
    PROVE  PairsInv'
<1> USE ForgeAssumption
<1>1. ASSUME NEW r \in Repos, RepoAdd(r)
      PROVE  PairsInv'
  BY <1>1, HasTypes, PairsBegin
  DEF RepoAdd, Begin, Resume, SameForks
<1>2. ASSUME NEW r \in Repos, RepoRemove(r)
      PROVE  PairsInv'
  BY <1>2, HasTypes, PairsBegin
  DEF RepoRemove, Begin, Resume, SameForks
<1>3. ASSUME NEW r \in Repos, SetFetchEnabled(r)
      PROVE  PairsInv'
  BY <1>3, HasTypes, PairsBegin
  DEF SetFetchEnabled, Begin, Resume, SameForks
<1>4. ASSUME NEW x \in Accounts, NEW r \in Repos, SetActiveFork(x, r)
      PROVE  PairsInv'
  BY <1>4, HasTypes, PairsBegin
  DEF SetActiveFork, Begin, Resume, SameForks
<1>5. ASSUME NEW p \in Projects, NEW r \in Repos, DevCreate(p, r)
      PROVE  PairsInv'
  BY <1>5, HasTypes, PairsBegin
  DEF DevCreate, Begin, Resume, SameForks
<1>6. ASSUME NEW p \in Projects, PlainCreate(p)
      PROVE  PairsInv'
  BY <1>6, HasTypes, PairsBegin
  DEF PlainCreate, Begin, Resume, SameForks
<1>7. ASSUME NEW p \in Projects, NEW r \in Repos, Attach(p, r)
      PROVE  PairsInv'
  BY <1>7, HasTypes, PairsBegin
  DEF Attach, Begin, Resume, SameForks
<1>8. ASSUME NEW x \in Accounts, NEW r \in Repos, DevBoxAdd(x, r)
      PROVE  PairsInv'
  BY <1>8, HasTypes, PairsBegin
  DEF DevBoxAdd, Begin, Resume, SameForks
<1>9. ASSUME NEW p \in Projects, NotesCreate(p)
      PROVE  PairsInv'
  BY <1>9, HasTypes, PairsBegin
  DEF NotesCreate, Begin, Resume, SameForks
<1>10. ASSUME NEW x \in Accounts, NotesBoxAdd(x)
      PROVE  PairsInv'
  BY <1>10, HasTypes, PairsBegin
  DEF NotesBoxAdd, Begin, Resume, SameForks
<1>11. ASSUME NEW p \in Projects, NEW all \in BOOLEAN, Detach(p, all)
      PROVE  PairsInv'
  BY <1>11, HasTypes, PairsBegin
  DEF Detach, Begin, Resume, SameForks
<1>12. ASSUME NEW x \in Accounts, Purge(x)
      PROVE  PairsInv'
  BY <1>12, HasTypes, PairsBegin
  DEF Purge, Begin, Resume, SameForks
<1>13. ASSUME NEW p \in Projects, Rewire(p)
      PROVE  PairsInv'
  BY <1>13, HasTypes, PairsBegin
  DEF Rewire, Begin, Resume, SameForks
<1>14. ASSUME ForgeStops
      PROVE  PairsInv'
  BY <1>14, HasTypes, PairsGo
  DEF ForgeStops, Resume, SameNone
<1>15. ASSUME ForgeStarts
      PROVE  PairsInv'
  BY <1>15, HasTypes, PairsGo
  DEF ForgeStarts, Resume, SameNone
<1>16. ASSUME Migrate
      PROVE  PairsInv'
  BY <1>16, HasTypes, PairsGo
  DEF Migrate, Go, Ask, End, Untoken, SameNone, Provide, Unbox, Retire
<1>17. ASSUME MigrateFails
      PROVE  PairsInv'
  BY <1>17, HasTypes, PairsGo
  DEF MigrateFails, Go, Ask, End, Untoken, SameNone, Provide, Unbox, Retire
<1>18. ASSUME Stamp
      PROVE  PairsInv'
  BY <1>18, HasTypes, PairsGo
  DEF Stamp, Go, Ask, End, Untoken, SameNone, Provide, Unbox, Retire
<1>19. ASSUME RemoveGate
      PROVE  PairsInv'
  BY <1>19, HasTypes, PairsGo
  DEF RemoveGate, Go, Ask, End, Untoken, SameNone, Provide, Unbox, Retire
<1>20. ASSUME RemoveList
      PROVE  PairsInv'
  BY <1>20, HasTypes, PairsGo
  DEF RemoveList, Go, Ask, End, Untoken, SameNone, Provide, Unbox, Retire
<1>21. ASSUME RemoveMirror
      PROVE  PairsInv'
  BY <1>21, HasTypes, PairsGo
  DEF RemoveMirror, Go, Ask, End, Untoken, SameNone, Provide, Unbox, Retire
<1>22. ASSUME RemoveHost
      PROVE  PairsInv'
  BY <1>22, HasTypes, PairsGo
  DEF RemoveHost, Go, Ask, End, Untoken, SameNone, Provide, Unbox, Retire
<1>23. ASSUME HistoryRepo
      PROVE  PairsInv'
  BY <1>23, HasTypes, PairsGo
  DEF HistoryRepo, Go, Ask, End, Untoken, SameNone, Provide, Unbox, Retire
<1>24. ASSUME HistoryToken
      PROVE  PairsInv'
  BY <1>24, HasTypes, PairsGo
  DEF HistoryToken, Go, Ask, End, Untoken, SameNone, Provide, Unbox, Retire
<1>25. ASSUME HistoryFails
      PROVE  PairsInv'
  BY <1>25, HasTypes, PairsGo
  DEF HistoryFails, Go, Ask, End, Untoken, SameNone, Provide, Unbox, Retire
<1>26. ASSUME NotesBoxFails
      PROVE  PairsInv'
  BY <1>26, HasTypes, PairsGo
  DEF NotesBoxFails, Go, Ask, End, Untoken, SameNone, Provide, Unbox, Retire
<1>27. ASSUME CleanRow
      PROVE  PairsInv'
  BY <1>27, HasTypes, PairsGo
  DEF CleanRow, Go, Ask, End, Untoken, SameNone, Provide, Unbox, Retire
<1>28. ASSUME DetachToken
      PROVE  PairsInv'
  BY <1>28, HasTypes, PairsGo
  DEF DetachToken, Go, Ask, End, Untoken, SameNone, Provide, Unbox, Retire
<1>29. ASSUME PurgeToken
      PROVE  PairsInv'
  BY <1>29, HasTypes, PairsGo
  DEF PurgeToken, Go, Ask, End, Untoken, SameNone, Provide, Unbox, Retire
<1>30. ASSUME ProvisionUser
      PROVE  PairsInv'
  BY <1>30, HasTypes, PairsGo
  DEF ProvisionUser, Go, Ask, End, Untoken, SameNone, Provide, Unbox, Retire
<1>31. ASSUME ProvisionToken
      PROVE  PairsInv'
  BY <1>31, HasTypes, PairsGo
  DEF ProvisionToken, Go, Ask, End, Untoken, SameNone, Provide, Unbox, Retire
<1>32. ASSUME RetireToken
      PROVE  PairsInv'
  BY <1>32, HasTypes, PairsGo
  DEF RetireToken, Go, Ask, End, Untoken, SameNone, Provide, Unbox, Retire
<1>33. ASSUME DestroyTokens
      PROVE  PairsInv'
  BY <1>33, HasTypes, PairsGo
  DEF DestroyTokens, Go, Ask, End, Untoken, SameNone, Provide, Unbox, Retire
<1>34. ASSUME RemoveToken("rr_token", "rr_owner")
      PROVE  PairsInv'
  BY <1>34, HasTypes, PairsGo
  DEF RemoveToken, Go, Untoken, SameNone, Provide, Unbox, Retire
<1>35. ASSUME RemoveToken("rr_last", "rr_next")
      PROVE  PairsInv'
  BY <1>35, HasTypes, PairsGo
  DEF RemoveToken, Go, Untoken, SameNone, Provide, Unbox, Retire
<1>36. ASSUME DetachArchive
      PROVE  PairsInv'
  <2>1. forge' = Shelved(cmd.todo, Repos)
    BY <1>36 DEF DetachArchive
  <2>2. \A a \in Accounts : SameNone(a)
    BY <2>1, ShelvedIs DEF SameNone
  <2> QED
    BY <1>36, <2>2, HasTypes, PairsGo
    DEF DetachArchive, Go, Provide, Unbox, Retire
<1>37. ASSUME BoxArchive
      PROVE  PairsInv'
  <2>1. forge' = Shelved({C}, {R})
    BY <1>37 DEF BoxArchive
  <2>2. \A a \in Accounts : SameNone(a)
    BY <2>1, ShelvedIs DEF SameNone
  <2> QED
    BY <1>37, <2>2, HasTypes, PairsGo
    DEF BoxArchive, Go, Provide, Unbox, Retire
<1>38. ASSUME DestroyArchive
      PROVE  PairsInv'
  <2>1. forge' = Shelved({row.who : row \in Dev(RowsIn(Home(C)))}, Repos)
    BY <1>38 DEF DestroyArchive
  <2>2. \A a \in Accounts : SameNone(a)
    BY <2>1, ShelvedIs DEF SameNone
  <2> QED
    BY <1>38, <2>2, HasTypes, PairsGo
    DEF DestroyArchive, Go, Provide, Unbox, Retire
<1>39. ASSUME DetachStage
      PROVE  PairsInv'
  <2>1. place'.box = place.box /\ place'.up = place.up
    BY <1>39, UnstagedIs DEF DetachStage
  <2> QED
    BY <1>39, <2>1, HasTypes, PairsGo
    DEF DetachStage, Go, End, Untoken, SameNone, Provide, Unbox, Retire
<1>40. ASSUME BoxToken
      PROVE  PairsInv'
  <2>1. place'.box = place.box /\ place'.up = place.up
    BY <1>40, UnstagedIs DEF BoxToken
  <2> QED
    BY <1>40, <2>1, HasTypes, PairsGo
    DEF BoxToken, Go, End, Untoken, SameNone, Provide, Unbox, Retire
<1>41. ASSUME RetirePrune
      PROVE  PairsInv'
  <2>1. place'.box = place.box /\ place'.up = place.up
    BY <1>41, UnstagedIs DEF RetirePrune
  <2> QED
    BY <1>41, <2>1, HasTypes, PairsGo
    DEF RetirePrune, Go, End, Untoken, SameNone, Provide, Unbox, Retire
<1>42. ASSUME CommandDies
      PROVE  PairsInv'
  <2>1. SUFFICES ASSUME NEW a \in Accounts
                 PROVE  PairOf(a)'
    BY PairsAre
  <2>2. PairOf(a) /\ Provisions
    BY PairsAre DEF ForgeInv, LedgerInv, PairsInv
  <2>3. /\ torn = {} /\ cmd' = Idle /\ host' = host /\ forge' = forge
        /\ place' = place /\ aim' = aim
        /\ torn' = cmd.todo \cup ({C} \cap Accounts)
    BY <1>42 DEF CommandDies
  <2>4. ~Wiped(a) /\ (Adopting(a) => a \in torn') /\ Bare(a)' = Bare(a)
    BY <2>3 DEF Wiped, Adopting, Bare
  <2>5. Tale(a) \in host.rows => \A r \in Repos : Row(a, r) \in host.rows =>
           /\ a \in torn' /\ Stands(a)'
           /\ \A q \in Repos : Row(a, q) \in host.rows => q = r
    <3> SUFFICES ASSUME Tale(a) \in host.rows, NEW r \in Repos,
                        Row(a, r) \in host.rows
                 PROVE  /\ a \in torn' /\ Stands(a)'
                        /\ \A q \in Repos : Row(a, q) \in host.rows => q = r
      OBVIOUS
    <3>1. Doubling(a) /\ \A q \in Repos : Row(a, q) \in host.rows => q = r
      BY <2>2, <2>3 DEF PairOf, Paired
    <3>2. Stands(a)
      BY <2>2, <2>3, <3>1 DEF Doubling, Provisions, Provide
    <3> QED
      BY <2>3, <3>1, <3>2 DEF Doubling, Stands
  <2> QED
    BY <2>2, <2>3, <2>4, <2>5 DEF PairOf, Paired, Row, Tale, IsBox
<1>43. ASSUME NEW x \in Accounts, RemoveFork(x)
      PROVE  PairsInv'
  <2>1. /\ cmd.pc = "rr_next" /\ host' = host /\ place' = place
        /\ torn' = torn /\ aim' = aim
        /\ \A a \in Accounts, r \in Repos :
              forge'.fork[a][r] = forge.fork[a][r]
              \/ (a = x /\ r = R /\ forge'.fork[a][r] = "none")
    BY <1>43, HasTypes DEF RemoveFork
  <2>2. R \in Repos /\ Row(x, R) \notin host.rows /\ cmd.verb = "remove"
    BY <2>1, VerbOf
    DEF ForgeInv, LedgerInv, Removes, Removal, Attached, Row
  <2>3. PairOf(x)
    BY PairsAre DEF ForgeInv, LedgerInv, PairsInv
  <2>4. /\ \A r \in Repos : Row(x, r) \in host'.rows =>
              forge'.fork[x][r] # "none"
        /\ Bare(x) => Bare(x)'
    BY <2>1, <2>2, <2>3 DEF PairOf, Wiped, Bare
  <2>5. ~Adopting(x) /\ ~Doubling(x)
    BY <2>1 DEF Adopting, Doubling, Provide
  <2>6. PairOf(x)'
    <3>1. Stands(x)' <=> Stands(x)
      BY <2>1 DEF Stands
    <3>2. Paired(x)'
      BY <2>1, <2>2, <2>3, <2>5, <3>1
      DEF PairOf, Paired, Row, Tale, Unbox, Home
    <3> QED
      BY <2>1, <2>3, <2>4, <2>5, <3>2 DEF PairOf, Row, Tale, IsBox
  <2> QED
    BY <2>1, <2>2, <2>6, PairsBut
    DEF FewerRows, SameNone, Stands, Provide, Unbox
<1>44. ASSUME RemoveOwner
      PROVE  PairsInv'
  <2>1. /\ cmd.pc = "rr_owner" /\ place' = place /\ torn' = torn
        /\ aim' = aim /\ host'.rows = host.rows
        /\ forge' = forge \/ forge' = Unuser(forge, C)
    BY <1>44, HasTypes DEF RemoveOwner, Go, Untoken
  <2>2. PICK c \in Accounts : C = c
    BY <2>1 DEF ForgeInv, LedgerInv, Removes, Removal
  <2>3. RowsOf(c) = {} /\ cmd.verb = "remove"
    BY <2>1, <2>2, VerbOf DEF ForgeInv, LedgerInv, Removes, Removal
  <2>4. PairOf(c)'
    BY <2>1, <2>3, PairNone DEF RowsOf
  <2>5. \A a \in Accounts \ {c}, r \in Repos :
           forge'.fork[a][r] = forge.fork[a][r]
    BY <2>1, <2>2, UnuserIs
  <2> QED
    BY <2>1, <2>2, <2>3, <2>4, <2>5, PairsBut
    DEF FewerRows, SameNone, Stands, Provide, Unbox
<1>45. ASSUME PurgeUser
      PROVE  PairsInv'
  <2>1. /\ cmd.pc = "pg_user" /\ place' = place /\ torn' = torn
        /\ aim' = aim /\ host'.rows = host.rows
        /\ forge' = Unuser(forge, C)
    BY <1>45, HasTypes DEF PurgeUser, Go, Ask, Stale
  <2>2. PICK c \in Accounts : C = c
    BY <2>1 DEF ForgeInv, LedgerInv, Purges, Purging
  <2>3. RowsOf(c) = {} /\ cmd.verb = "purge"
    BY <2>1, <2>2, VerbOf DEF ForgeInv, LedgerInv, Purges, Purging
  <2>4. PairOf(c)'
    BY <2>1, <2>3, PairNone DEF RowsOf
  <2>5. \A a \in Accounts \ {c}, r \in Repos :
           forge'.fork[a][r] = forge.fork[a][r]
    BY <2>1, <2>2, UnuserIs
  <2> QED
    BY <2>1, <2>2, <2>3, <2>4, <2>5, PairsBut
    DEF FewerRows, SameNone, Stands, Provide, Unbox
<1>46. ASSUME PurgeAnswerLost
      PROVE  PairsInv'
  <2>1. /\ cmd.pc = "pg_user" /\ place' = place /\ torn' = torn
        /\ aim' = aim /\ host'.rows = host.rows
        /\ forge' = Unuser(forge, C)
    BY <1>46, HasTypes DEF PurgeAnswerLost, Go, Ask, Stale
  <2>2. PICK c \in Accounts : C = c
    BY <2>1 DEF ForgeInv, LedgerInv, Purges, Purging
  <2>3. RowsOf(c) = {} /\ cmd.verb = "purge"
    BY <2>1, <2>2, VerbOf DEF ForgeInv, LedgerInv, Purges, Purging
  <2>4. PairOf(c)'
    BY <2>1, <2>3, PairNone DEF RowsOf
  <2>5. \A a \in Accounts \ {c}, r \in Repos :
           forge'.fork[a][r] = forge.fork[a][r]
    BY <2>1, <2>2, UnuserIs
  <2> QED
    BY <2>1, <2>2, <2>3, <2>4, <2>5, PairsBut
    DEF FewerRows, SameNone, Stands, Provide, Unbox
<1>47. ASSUME NEW x \in Accounts, OperatorTidies(x)
      PROVE  PairsInv'
  <2>1. /\ cmd.pc = "idle" /\ cmd.verb = "none" /\ place' = place
        /\ torn' = torn /\ aim' = aim /\ host' = host /\ RowsOf(x) = {}
        /\ \/ forge' = forge \/ forge' = Unuser(forge, x)
           \/ forge' = Shelved({x}, Repos)
    BY <1>47 DEF OperatorTidies, Idle
  <2>2. PairOf(x)'
    BY <2>1, PairNone DEF RowsOf
  <2>3. \A a \in Accounts \ {x} : SameNone(a)
    <3>1. CASE forge' = Unuser(forge, x)
      BY <3>1, UnuserIs DEF SameNone
    <3>2. CASE forge' = Shelved({x}, Repos)
      BY <3>2, ShelvedIs DEF SameNone
    <3> QED
      BY <2>1, <3>1, <3>2 DEF SameNone
  <2> QED
    BY <2>1, <2>2, <2>3, PairsBut DEF FewerRows, Stands, Provide, Unbox
<1>48. ASSUME ProvisionFork
      PROVE  PairsInv'
  <2>1. /\ cmd.pc = "pv_fork" /\ cmd'.pc = "pv_token" /\ cmd'.who = cmd.who
        /\ host' = host /\ place' = place /\ torn' = torn /\ aim' = aim
        /\ cmd.pc \in Provide /\ cmd'.pc \in Provide
    BY <1>48, HasTypes DEF ProvisionFork, Ask, Go, Provide
  <2>2. PICK c \in Accounts : C = c
    BY <2>1 DEF ForgeInv, LedgerInv, Provisions
  <2>3. /\ C' = c /\ R \in Repos /\ cmd.verb # "destroy"
        /\ cmd.verb = "box" <=> IsBox(c)
        /\ cmd.verb # "box" => c[2] = Own
    BY <2>1, <2>2, VerbOf DEF ForgeInv, LedgerInv, Provisions, C
  <2>4. \A a \in Accounts, r \in Repos :
           \/ forge'.fork[a][r] = forge.fork[a][r]
           \/ a = c /\ r = R /\ forge'.fork[a][r] = "live"
    BY <1>48, <2>2, <2>3, HasTypes DEF ProvisionFork
  <2>5. PairOf(c)
    BY PairsAre DEF ForgeInv, LedgerInv, PairsInv
  <2>6. Tale(c) \in host.rows => IsBox(c)
    BY <2>3, <2>5 DEF PairOf
  <2>7. /\ Adopting(c)' /\ ~Wiped(c) /\ ~Doubling(c)
        /\ Stands(c)' <=> Stands(c)
    BY <2>1, <2>3 DEF Adopting, Wiped, Doubling, Stands
  <2>8. \A r \in Repos : Row(c, r) \in host'.rows =>
           forge'.fork[c][r] # "none"
    BY <2>1, <2>4, <2>5, <2>7 DEF PairOf
  <2>9. Paired(c)'
    BY <2>1, <2>2, <2>3, <2>5, <2>7
    DEF PairOf, Paired, Row, Tale, Unbox, Home
  <2>10. PairOf(c)'
    BY <2>1, <2>5, <2>6, <2>7, <2>8, <2>9 DEF PairOf, Row, Tale, IsBox
  <2> QED
    BY <2>1, <2>2, <2>3, <2>4, <2>10, PairsBut DEF FewerRows, SameNone, Stands
<1>49. ASSUME ProvisionRecord
      PROVE  PairsInv'
  <2>1. /\ cmd.pc = "pv_record" /\ cmd'.pc = "pv_stage"
        /\ cmd'.who = cmd.who /\ host'.rows = host.rows \cup {Row(C, R)}
        /\ forge' = forge /\ place' = place /\ torn' = torn /\ aim' = aim
        /\ cmd.pc \in Provide /\ cmd'.pc \in Provide
    BY <1>49, HasTypes DEF ProvisionRecord, Go, Provide
  <2>2. PICK c \in Accounts : C = c
    BY <2>1 DEF ForgeInv, LedgerInv, Provisions
  <2>3. /\ C' = c /\ R \in Repos /\ cmd.verb # "destroy"
        /\ forge.fork[c][R] = "live"
        /\ Tale(c) \in host.rows => c \in torn \/ Stands(c)
    BY <2>1, <2>2, VerbOf DEF ForgeInv, LedgerInv, Provisions, C
  <2>4. /\ \A r \in Repos : Row(c, r) \in host'.rows =>
              Row(c, r) \in host.rows \/ r = R
        /\ Tale(c) \in host'.rows => Tale(c) \in host.rows
        /\ \A a \in Accounts \ {c} : FewerRows(a) /\ SameNone(a)
    BY <2>1, <2>2, <2>3 DEF Row, Tale, FewerRows, SameNone
  <2>5. PairOf(c)
    BY PairsAre DEF ForgeInv, LedgerInv, PairsInv
  <2>6. /\ Adopting(c)' /\ Doubling(c)' /\ ~Wiped(c) /\ ~Doubling(c)
        /\ Adopting(c) /\ Bare(c)' = Bare(c)
        /\ Stands(c)' <=> Stands(c)
    BY <2>1, <2>2, <2>3 DEF Adopting, Wiped, Doubling, Stands, Bare
  <2>7. \A r \in Repos : Row(c, r) \in host'.rows =>
           forge'.fork[c][r] # "none"
    BY <2>1, <2>3, <2>4, <2>5, <2>6 DEF PairOf
  <2>8. Tale(c) \in host.rows => \A r, q \in Repos :
           Row(c, r) \in host'.rows /\ Row(c, q) \in host'.rows =>
             q = r \/ (Stands(c) /\ c \in torn)
    <3> SUFFICES ASSUME Tale(c) \in host.rows, NEW r \in Repos, NEW q \in Repos,
                        Row(c, r) \in host'.rows, Row(c, q) \in host'.rows,
                        q # r
                 PROVE  Stands(c) /\ c \in torn
      OBVIOUS
    <3>1. PICK z \in {q, r} : Row(c, z) \in host.rows
      BY <2>4
    <3>2. c \in torn
      BY <2>5, <2>6, <3>1 DEF PairOf, Paired
    <3>3. Stands(c)
      BY <2>1, <2>3, <2>5, <2>6, <3>1 DEF PairOf, Paired, Unbox
    <3> QED
      BY <3>2, <3>3
  <2>9. Paired(c)'
    BY <2>1, <2>4, <2>6, <2>8 DEF Paired, Row, Tale
  <2>10. PairOf(c)'
    BY <2>1, <2>4, <2>5, <2>6, <2>7, <2>9 DEF PairOf, Row, Tale, IsBox
  <2> QED
    BY <2>1, <2>2, <2>3, <2>4, <2>10, PairsBut DEF Stands
<1>50. ASSUME ProvisionStage
      PROVE  PairsInv'
  <2>1. /\ cmd.pc = "pv_stage" /\ cmd.pc \in Provide
        /\ host' = host /\ forge' = forge /\ aim' = aim
        /\ place'.box = place.box /\ place'.up = place.up
    BY <1>50, StagedIs DEF ProvisionStage, Provide
  <2>2. CASE cmd.verb = "box"
    BY <1>50, <2>1, <2>2, HasTypes, PairsGo
    DEF ProvisionStage, Go, SameNone, Provide, Unbox, Retire
  <2>3. CASE cmd.verb # "box"
    <3>1. PICK c \in Accounts : C = c
      BY <2>1 DEF ForgeInv, LedgerInv, Provisions
    <3>2. c[2] = Own /\ cmd.verb # "destroy" /\ ~Wiped(c)
      BY <2>1, <2>3, <3>1, VerbOf DEF ForgeInv, LedgerInv, Provisions, Wiped
    <3>3. PairOf(c)
      BY PairsAre DEF ForgeInv, LedgerInv, PairsInv
    <3>4. PairOf(c)'
      <4>1. Tale(c) \notin host'.rows
        BY <2>1, <3>2, <3>3 DEF PairOf
      <4> QED
        BY <2>1, <3>2, <3>3, <4>1, PairDev DEF PairOf
    <3>5. torn \ {c} \subseteq torn'
      BY <1>50, <2>3, <3>1 DEF ProvisionStage, End, Healed
    <3> QED
      BY <2>1, <3>1, <3>2, <3>4, <3>5, PairsBut
      DEF FewerRows, SameNone, Stands
  <2> QED
    BY <2>2, <2>3
<1>51. ASSUME BoxRuns
      PROVE  PairsInv'
  <2>1. /\ cmd.pc \in {"bx_run", "bx_note", "bx_bare"} /\ ~Stands(C)
        /\ host' = host /\ forge' = forge /\ aim' = aim
        /\ torn' = torn \ Healed /\ place'.up = place.up
    BY <1>51, HasTypes DEF BoxRuns
  <2>2. PICK c \in Accounts : C = c
    BY <2>1, HasNames
  <2>3. IsBox(c) /\ cmd.verb # "destroy" /\ ~Wiped(c)
    BY <2>1, <2>2, VerbOf
    DEF ForgeInv, LedgerInv, Provisions, Chronicles, Wiped
  <2>4. PairOf(c)
    BY PairsAre DEF ForgeInv, LedgerInv, PairsInv
  <2>5. /\ place'.box[c] # "none"
        /\ \A a \in Boxed \ {c} : place'.box[a] = place.box[a]
    <3>1. c \in Boxed
      BY <2>3 DEF Boxed
    <3> QED
      BY <1>51, <2>1, <2>2, <3>1, HasTypes DEF BoxRuns
  <2>6. Stands(c)'
    BY <2>3, <2>5 DEF Stands, IsBox
  <2>7. ASSUME cmd.pc = "bx_run"
        PROVE  PairOf(c)'
    <3>1. /\ R \in Repos /\ Row(c, R) \in host.rows
          /\ Tale(c) \in host.rows => c \in torn
      BY <2>1, <2>2, <2>7 DEF ForgeInv, LedgerInv, Provisions, Provide
    <3>2. ASSUME Tale(c) \in host.rows
          PROVE  c \in torn'
      <4>1. Tale(c) # Row(c, R)
        BY <3>1, ForgeAssumption DEF Tale, Row
      <4>2. {Tale(c), Row(c, R)} \subseteq RowsOf(C)
        BY <2>2, <3>1, <3>2 DEF RowsOf, Tale, Row
      <4>3. C \notin Healed
        BY <2>2, <4>1, <4>2, HealedIs
      <4> QED
        BY <2>1, <2>2, <3>1, <3>2, <4>3
    <3>3. Paired(c)'
      BY <2>1, <2>2, <2>4, <2>6, <3>2 DEF PairOf, Paired, Row, Tale
    <3>4. \A r \in Repos : Row(c, r) \in host'.rows =>
             forge'.fork[c][r] # "none"
      BY <2>1, <2>3, <2>4 DEF PairOf
    <3>5. Tale(c) \in host'.rows =>
             c[2] # Own /\ (c[2] \in Boxes => "tales" \in aim')
      BY <2>1, <2>4 DEF PairOf
    <3>6. Tale(c)' = Tale(c) /\ IsBox(c)' = IsBox(c)
      BY DEF Tale, IsBox
    <3> QED
      BY <2>1, <2>3, <3>2, <3>3, <3>4, <3>5, <3>6 DEF PairOf, Row, Tale
  <2>8. ASSUME cmd.pc # "bx_run"
        PROVE  PairOf(c)'
    <3>1. Bare(c) /\ c[2] # Own /\ "tales" \in aim
      BY <2>1, <2>2, <2>8, VerbOf
      DEF ForgeInv, LedgerInv, Chronicles, Tell, Clear
    <3>2. \A r \in Repos : Row(c, r) \notin host'.rows
      BY <2>1, <2>3, <2>4, <3>1 DEF PairOf, Bare
    <3>3. Bare(c)' /\ "tales" \in aim'
      BY <2>1, <3>1 DEF Bare
    <3> QED
      BY ONLY c \in Accounts, <3>1, <3>2, <3>3, PairTale
  <2>9. \A a \in Accounts \ {c} : Stands(a) => Stands(a)'
    BY <2>1, <2>5 DEF Stands, IsBox, Boxed
  <2>10. torn \ {c} \subseteq torn'
    BY <2>1, <2>2 DEF Healed
  <2>11. PairOf(c)'
    BY <2>7, <2>8
  <2> QED
    BY <2>1, <2>2, <2>3, <2>9, <2>10, <2>11, PairsBut DEF FewerRows, SameNone
<1>52. ASSUME HistoryUser
      PROVE  PairsInv'
  <2>1. /\ cmd.pc = "hs_user" /\ aim' = aim /\ host'.rows = host.rows
        /\ place'.box = place.box /\ place'.up = place.up
    BY <1>52, HasTypes DEF HistoryUser, Ask, Go, Stale
  <2>2. PICK c \in Accounts : C = c
    BY <2>1, HasNames DEF Tell, Clear
  <2>3. /\ Bare(c) /\ c[2] # Own
        /\ c[2] \in Boxes => "tales" \in aim
        /\ cmd.verb # "destroy" /\ ~Wiped(c)
    BY <2>1, <2>2, VerbOf
    DEF ForgeInv, LedgerInv, Chronicles, Wiped, IsBox, Tell, Clear
  <2>4. PairOf(c)
    BY PairsAre DEF ForgeInv, LedgerInv, PairsInv
  <2>5. Bare(c)' /\ \A a \in Accounts \ {c} : SameNone(a)
    <3>1. forge'.fork = Unuser(forge, c).fork
      BY <1>52, <2>2, HasTypes DEF HistoryUser, Unuser
    <3>2. Unuser(forge, c).fork = [forge.fork EXCEPT ![c] =
                                     [r \in Repos |-> "none"]]
      BY HasTypes DEF Unuser
    <3> QED
      BY <2>3, <3>1, <3>2, HasTypes DEF Bare, SameNone
  <2>6. /\ \A r \in Repos : Row(c, r) \notin host'.rows
        /\ \A a \in Accounts \ {c} : FewerRows(a)
    BY <2>1, <2>2, <2>3, <2>4, ForgeAssumption
    DEF PairOf, Bare, Row, Tale, FewerRows
  <2>7. PairOf(c)'
    BY <2>1, <2>3, <2>5, <2>6, PairTale
  <2>8. torn \ {c} \subseteq torn'
    BY <1>52 DEF HistoryUser
  <2> QED
    BY <2>1, <2>2, <2>3, <2>5, <2>6, <2>7, <2>8, PairsBut DEF Stands
<1>53. ASSUME HistoryRecord
      PROVE  PairsInv'
  <2>1. /\ cmd.pc = "hs_record" /\ aim' = aim /\ host'.rows = host.rows \cup {Tale(C)}
        /\ place'.box = place.box /\ place'.up = place.up
        /\ forge' = forge
    BY <1>53, HasTypes DEF HistoryRecord, Go
  <2>2. PICK c \in Accounts : C = c
    BY <2>1, HasNames DEF Tell, Clear
  <2>3. /\ Bare(c) /\ c[2] # Own
        /\ c[2] \in Boxes => "tales" \in aim
        /\ cmd.verb # "destroy" /\ ~Wiped(c)
    BY <2>1, <2>2, VerbOf
    DEF ForgeInv, LedgerInv, Chronicles, Wiped, IsBox, Tell, Clear
  <2>4. PairOf(c)
    BY PairsAre DEF ForgeInv, LedgerInv, PairsInv
  <2>5. Bare(c)' /\ \A a \in Accounts \ {c} : SameNone(a)
    BY <2>1, <2>3 DEF Bare, SameNone
  <2>6. /\ \A r \in Repos : Row(c, r) \notin host'.rows
        /\ \A a \in Accounts \ {c} : FewerRows(a)
    BY <2>1, <2>2, <2>3, <2>4, ForgeAssumption
    DEF PairOf, Bare, Row, Tale, FewerRows
  <2>7. PairOf(c)'
    BY <2>1, <2>3, <2>5, <2>6, PairTale
  <2>8. torn \ {c} \subseteq torn'
    BY <1>53 DEF HistoryRecord
  <2> QED
    BY <2>1, <2>2, <2>3, <2>5, <2>6, <2>7, <2>8, PairsBut DEF Stands
<1>54. ASSUME HistoryStage
      PROVE  PairsInv'
  <2>1. /\ cmd.pc = "hs_stage" /\ aim' = aim /\ host'.rows = host.rows
        /\ place'.box = place.box /\ place'.up = place.up
        /\ forge' = forge
    BY <1>54, StagedIs DEF HistoryStage
  <2>2. PICK c \in Accounts : C = c
    BY <2>1, HasNames DEF Tell, Clear
  <2>3. /\ Bare(c) /\ c[2] # Own
        /\ c[2] \in Boxes => "tales" \in aim
        /\ cmd.verb # "destroy" /\ ~Wiped(c)
    BY <2>1, <2>2, VerbOf
    DEF ForgeInv, LedgerInv, Chronicles, Wiped, IsBox, Tell, Clear
  <2>4. PairOf(c)
    BY PairsAre DEF ForgeInv, LedgerInv, PairsInv
  <2>5. Bare(c)' /\ \A a \in Accounts \ {c} : SameNone(a)
    BY <2>1, <2>3 DEF Bare, SameNone
  <2>6. /\ \A r \in Repos : Row(c, r) \notin host'.rows
        /\ \A a \in Accounts \ {c} : FewerRows(a)
    BY <2>1, <2>2, <2>3, <2>4, ForgeAssumption
    DEF PairOf, Bare, Row, Tale, FewerRows
  <2>7. PairOf(c)'
    BY <2>1, <2>3, <2>5, <2>6, PairTale
  <2>8. torn \ {c} \subseteq torn'
    BY <1>54, <2>2 DEF HistoryStage, End, Healed
  <2> QED
    BY <2>1, <2>2, <2>3, <2>5, <2>6, <2>7, <2>8, PairsBut DEF Stands
<1>55. ASSUME CleanToken
      PROVE  PairsInv'
  <2>1. /\ cmd.pc = "hc_token" /\ aim' = aim /\ host'.rows = host.rows
        /\ place'.box = place.box /\ place'.up = place.up
        /\ forge' = forge
    BY <1>55, UnstagedIs, HasTypes DEF CleanToken, Untoken
  <2>2. PICK c \in Accounts : C = c
    BY <2>1, HasNames DEF Tell, Clear
  <2>3. /\ Bare(c) /\ c[2] # Own
        /\ c[2] \in Boxes => "tales" \in aim
        /\ cmd.verb # "destroy" /\ ~Wiped(c)
    BY <2>1, <2>2, VerbOf
    DEF ForgeInv, LedgerInv, Chronicles, Wiped, IsBox, Tell, Clear
  <2>4. PairOf(c)
    BY PairsAre DEF ForgeInv, LedgerInv, PairsInv
  <2>5. Bare(c)' /\ \A a \in Accounts \ {c} : SameNone(a)
    BY <2>1, <2>3 DEF Bare, SameNone
  <2>6. /\ \A r \in Repos : Row(c, r) \notin host'.rows
        /\ \A a \in Accounts \ {c} : FewerRows(a)
    BY <2>1, <2>2, <2>3, <2>4, ForgeAssumption
    DEF PairOf, Bare, Row, Tale, FewerRows
  <2>7. PairOf(c)'
    BY <2>1, <2>3, <2>5, <2>6, PairTale
  <2>8. torn \ {c} \subseteq torn'
    BY <1>55, <2>2 DEF CleanToken, End
  <2> QED
    BY <2>1, <2>2, <2>3, <2>5, <2>6, <2>7, <2>8, PairsBut DEF Stands
<1>56. ASSUME NEW x \in DOMAIN place.box, BoxRemove(x)
      PROVE  PairsInv'
  <2>1. /\ cmd = Idle /\ aim' = aim /\ host' = host /\ forge' = forge
        /\ torn' = torn /\ cmd'.who = x /\ place'.up = place.up
        /\ cmd'.pc = IF Works(x) = {} THEN "rt_next" ELSE "br_archive"
        /\ \A a \in Boxed \ {x} : place'.box[a] = place.box[a]
    BY <1>56, HasTypes DEF BoxRemove, Begin
  <2>2. x \in Accounts /\ cmd.verb = "none" /\ cmd.pc = "idle"
    BY <2>1, HasTypes DEF Boxed, Idle
  <2>3. PairOf(x) /\ ~Wiped(x) /\ ~Doubling(x) /\ ~Adopting(x)
    BY <2>2, PairsAre
    DEF ForgeInv, LedgerInv, PairsInv, Wiped, Doubling, Adopting, Provide
  <2>4. ASSUME NEW r \in Repos, Row(x, r) \in host.rows
        PROVE  (C = x)' /\ cmd'.pc \in Unbox
    <3>1. r \in Works(x)
      BY <2>4, ForgeAssumption DEF Works, Dev, RowsOf, Row
    <3> QED
      BY <2>1, <3>1 DEF C, Unbox
  <2>5. Paired(x)'
    BY <2>1, <2>2, <2>3, <2>4 DEF PairOf, Paired, Row, Tale
  <2>6. PairOf(x)'
    BY <2>1, <2>3, <2>5 DEF PairOf, Row, Tale, IsBox, Bare
  <2>7. \A a \in Accounts \ {x} : Stands(a) => Stands(a)'
    BY <2>1 DEF Stands, IsBox, Boxed
  <2> QED
    BY <2>1, <2>2, <2>6, <2>7, PairsBut
    DEF FewerRows, SameNone, Provide, Unbox
<1>57. ASSUME BoxPrune
      PROVE  PairsInv'
  <2>1. /\ cmd.pc = "br_prune" /\ host'.rows = host.rows \ {Row(C, R)}
        /\ forge' = forge /\ place' = place /\ torn' = torn /\ aim' = aim
    BY <1>57, HasTypes DEF BoxPrune, Go
  <2>2. PICK c \in Accounts : C = c
    BY <2>1, HasNames DEF Unbox
  <2>3. cmd.verb = "unbox" /\ ~Wiped(c) /\ ~Adopting(c)
    BY <2>1, VerbOf DEF Unbox, Wiped, Adopting, Provide
  <2>4. PairOf(c) /\ (Tale(c) \in host.rows =>
           \A r \in Repos : Row(c, r) \in host.rows => r = R)
    BY <2>2, <2>3, PairsAre DEF ForgeInv, LedgerInv, PairsInv, Unboxes
  <2>5. PairOf(c)'
    <3>1. CASE Tale(c) \in host.rows
      <4>1. \A r \in Repos : Row(c, r) \notin host'.rows
        BY <2>1, <2>2, <2>4, <3>1
      <4> QED
        BY <2>1, <2>3, <2>4, <3>1, <4>1
        DEF PairOf, Paired, Row, Tale, Bare, IsBox
    <3>2. CASE Tale(c) \notin host.rows
      BY <2>1, <2>3, <2>4, <3>2, PairDev DEF PairOf
    <3> QED
      BY <3>1, <3>2
  <2> QED
    BY <2>1, <2>2, <2>3, <2>5, PairsBut DEF FewerRows, SameNone, Stands
<1>58. ASSUME NEW p \in Projects, Destroy(p)
      PROVE  PairsInv'
  <2>1. /\ cmd = Idle /\ aim' = aim /\ host' = host /\ forge' = forge
        /\ torn' = torn /\ cmd'.who = <<p, Own>> /\ cmd'.verb = "destroy"
        /\ place'.up = place.up \ {p}
        /\ \A a \in Boxed : Home(a) # p => place'.box[a] = place.box[a]
    <3>1. PICK left \in SUBSET Accounts :
            place' = [up |-> place.up \ {p},
                      box |-> [a \in DOMAIN place.box |->
                                 IF Home(a) = p THEN "none" ELSE place.box[a]],
                      staged |-> place.staged \
                                   {a \in place.staged : Home(a) = p},
                      left |-> left]
      BY <1>58, HasTypes DEF Destroy
    <3> QED
      BY <1>58, <3>1, HasTypes DEF Destroy, Begin
  <2>2. SUFFICES ASSUME NEW a \in Accounts
                 PROVE  PairOf(a)'
    BY PairsAre
  <2>3. /\ PairOf(a) /\ ~Wiped(a) /\ ~Doubling(a) /\ ~Adopting(a)
        /\ C # a /\ cmd.verb # "destroy"
    BY <2>1, PairsAre
    DEF ForgeInv, LedgerInv, PairsInv, Idle, Wiped, Doubling, Adopting, C,
        Provide
  <2>4. CASE Home(a) # p
    <3>1. Stands(a) => Stands(a)'
      BY <2>1, <2>4 DEF Stands, Boxed, IsBox
    <3>2. Excused(a)
      BY <2>1, <2>3, <3>1 DEF Excused
    <3>3. FewerRows(a) /\ SameNone(a)
      BY <2>1 DEF FewerRows, SameNone
    <3> QED
      BY <2>1, <2>3, <3>2, <3>3, PairSame
  <2>5. CASE Home(a) = p
    <3>1. cmd'.verb = "destroy" /\ Home(a)' = Home(C)'
      BY <2>1, <2>5 DEF C, Home
    <3>2. Paired(a)'
      BY <2>1, <2>3, <3>1 DEF PairOf, Paired, Row, Tale
    <3> QED
      BY <2>1, <2>3, <3>2 DEF PairOf, Row, Tale, IsBox, Bare
  <2> QED
    BY <2>4, <2>5
<1>59. ASSUME RetireArchive
      PROVE  PairsInv'
  <2>1. PICK row \in Tales :
          /\ cmd'.who = row.who /\ cmd'.verb = cmd.verb /\ cmd'.pc = "rt_user"
          /\ forge'.fork = forge.fork
    BY <1>59, HasTypes DEF RetireArchive
  <2>2. /\ cmd.pc = "rt_next" /\ host' = host /\ place' = place
        /\ torn' = torn /\ aim' = aim /\ cmd.verb \in {"unbox", "destroy"}
    BY <1>59, VerbOf DEF RetireArchive, Retire
  <2>3. cmd.verb = "destroy" => Home(C') = Home(C)
    BY <2>1 DEF Tales, C
  <2>4. SUFFICES ASSUME NEW a \in Accounts
                 PROVE  PairOf(a)'
    BY PairsAre
  <2>5. PairOf(a)
    BY PairsAre DEF ForgeInv, LedgerInv, PairsInv
  <2>6. Excused(a)
    <3>1. cmd.verb = "destroy" /\ Home(a) = Home(C) =>
             cmd'.verb = "destroy" /\ Home(a) = Home(C)'
      BY <2>1, <2>3 DEF Home
    <3>2. Wiped(a) => Wiped(a)'
      BY <2>1, <2>2, <3>1 DEF Wiped, Retire, Home
    <3>3. ~Adopting(a) /\ ~Doubling(a) /\ cmd.pc \notin Unbox
      BY <2>2 DEF Adopting, Doubling, Provide, Unbox
    <3> QED
      BY <2>2, <3>1, <3>2, <3>3 DEF Excused, Stands
  <2>7. FewerRows(a) /\ SameNone(a)
    BY <2>1, <2>2 DEF FewerRows, SameNone
  <2> QED
    BY <2>2, <2>5, <2>6, <2>7, PairSame
<1>60. ASSUME RetireUser
      PROVE  PairsInv'
  <2>1. /\ cmd.pc = "rt_user" /\ cmd'.pc = "rt_token" /\ C' = C
        /\ cmd'.verb = cmd.verb /\ host'.rows = host.rows
        /\ place' = place /\ torn' = torn /\ aim' = aim
        /\ forge' = forge \/ forge' = Unuser(forge, C)
    BY <1>60, HasTypes DEF RetireUser, Go, Stale, C
  <2>2. PICK c \in Accounts : C = c
    BY <2>1, HasNames DEF Retire
  <2>3. /\ cmd.verb \in {"unbox", "destroy"} /\ Tale(c) \in host.rows
        /\ cmd.verb = "unbox" => \A r \in Repos : Row(c, r) \notin host.rows
    BY <2>1, <2>2, VerbOf
    DEF ForgeInv, LedgerInv, Unboxes, Destroys, Retire, Unbox
  <2>4. SUFFICES ASSUME NEW a \in Accounts
                 PROVE  PairOf(a)'
    BY PairsAre
  <2>5. PairOf(a)
    BY PairsAre DEF ForgeInv, LedgerInv, PairsInv
  <2>6. FewerRows(a) /\ Excused(a)
    BY <2>1
    DEF FewerRows, Excused, Stands, Wiped, Adopting, Doubling, Provide, Unbox,
        Retire, Home
  <2>7. CASE a # c \/ forge' = forge
    <3>1. SameNone(a)
      BY <2>1, <2>2, <2>7, UnuserIs DEF SameNone
    <3> QED
      BY <2>1, <2>5, <2>6, <3>1, PairSame
  <2>8. CASE a = c /\ forge' = Unuser(forge, C)
    <3>1. \A r \in Repos : forge'.fork[a][r] = "none"
      BY <2>2, <2>8, UnuserIs
    <3>2. Bare(a)' /\ ~Doubling(a) /\ ~Adopting(a)
      BY <2>1, <3>1 DEF Bare, Doubling, Adopting, Provide
    <3>3. ASSUME NEW r \in Repos, Row(a, r) \in host.rows
          PROVE  Wiped(a)'
      <4>1. a \in torn /\ cmd.verb = "destroy"
        BY <2>3, <2>5, <2>8, <3>2, <3>3 DEF PairOf, Paired
      <4> QED
        BY <2>1, <2>2, <2>8, <4>1 DEF Wiped, Retire, Home
    <3>4. Paired(a)'
      BY <2>1, <2>5, <2>6, <3>2 DEF PairOf, Paired, Row, Tale, Excused
    <3> QED
      BY <2>1, <2>5, <3>2, <3>3, <3>4 DEF PairOf, Row, Tale, IsBox
  <2> QED
    BY <2>1, <2>7, <2>8
<1>61. ASSUME RetireEnds
      PROVE  PairsInv'
  <2>1. /\ cmd.pc = "rt_next" /\ Tales = {} /\ cmd' = Idle
        /\ forge' = forge /\ place' = place /\ aim' = aim
        /\ host'.rows = IF cmd.verb = "destroy"
                        THEN host.rows \ RowsIn(Home(C)) ELSE host.rows
        /\ torn' = torn \ (IF R \in Repos THEN {C} ELSE {})
    BY <1>61, HasTypes DEF RetireEnds, End
  <2>2. cmd.verb \in {"unbox", "destroy"}
    BY <2>1, VerbOf DEF Retire
  <2>3. PICK c \in Accounts : C = c
    BY <2>1, HasNames DEF Retire
  <2>4. SUFFICES ASSUME NEW a \in Accounts
                 PROVE  PairOf(a)'
    BY PairsAre
  <2>5. PairOf(a)
    BY PairsAre DEF ForgeInv, LedgerInv, PairsInv
  <2>6. ~Adopting(a) /\ ~Doubling(a) /\ cmd.pc \notin Unbox
    BY <2>1 DEF Adopting, Doubling, Provide, Unbox
  <2>7. CASE cmd.verb = "unbox" /\ a = c
    <3>1. Tale(a) \notin host'.rows
      BY <2>1, <2>3, <2>7 DEF Tales, Tale
    <3> QED
      BY <2>1, <2>5, <2>7, <3>1, PairDev DEF PairOf, Wiped
  <2>8. CASE cmd.verb = "destroy" /\ Home(a) = Home(C)
    <3>1. RowsOf(a)' = {}
      BY <2>1, <2>8 DEF RowsOf, RowsIn
    <3> QED
      BY <3>1, PairNone
  <2>9. CASE ~(cmd.verb = "unbox" /\ a = c)
             /\ ~(cmd.verb = "destroy" /\ Home(a) = Home(C))
    <3>1. a \in torn => a \in torn'
      BY <2>1, <2>2, <2>3, <2>9 DEF ForgeInv, LedgerInv, Destroys
    <3>2. Excused(a)
      BY <2>1, <2>6, <2>9, <3>1 DEF Excused, Stands, Wiped
    <3>3. FewerRows(a) /\ SameNone(a)
      BY <2>1 DEF FewerRows, SameNone
    <3> QED
      BY <2>1, <2>5, <3>2, <3>3, PairSame
  <2> QED
    BY <2>2, <2>7, <2>8, <2>9
<1> QED
  BY <1>1, <1>2, <1>3, <1>4, <1>5, <1>6, <1>7, <1>8, <1>9, <1>10, <1>11,
     <1>12, <1>13, <1>14, <1>15, <1>16, <1>17, <1>18, <1>19, <1>20, <1>21,
     <1>22, <1>23, <1>24, <1>25, <1>26, <1>27, <1>28, <1>29, <1>30, <1>31,
     <1>32, <1>33, <1>34, <1>35, <1>36, <1>37, <1>38, <1>39, <1>40, <1>41,
     <1>42, <1>43, <1>44, <1>45, <1>46, <1>47, <1>48, <1>49, <1>50, <1>51,
     <1>52, <1>53, <1>54, <1>55, <1>56, <1>57, <1>58, <1>59, <1>60, <1>61 DEF Next

-----------------------------------------------------------------------------
(* Mirrors: add and remove, the active fork, the display preference.  A    *)
(* removal deletes forks of accounts that may have rows, none of them      *)
(* live; and user and token of those that have none.                       *)
LEMMA MirrorKeeps ==
    ASSUME ForgeInv, PairsInv', MirrorStep
    PROVE  LedgerInv'
<1> USE ForgeAssumption DEF C, R
<1>1. ASSUME NEW r \in Repos, RepoAdd(r)
      PROVE  LedgerInv'
  <2>1. /\ cmd = Idle /\ cmd.pc = "idle" /\ cmd.verb = "none"
        /\ cmd'.pc = "ra_migrate" /\ cmd'.verb = "add" /\ cmd'.who = Nobody
        /\ cmd'.repo = r /\ cmd'.todo = {} /\ SameRows /\ SameTokens
        /\ SameForks /\ SameNotes /\ place' = place /\ torn' = torn
        /\ aim' = aim
    BY <1>1, HasTypes
    DEF RepoAdd, Begin, Resume, SameRows, SameTokens, SameForks, SameNotes,
        Idle
  <2>2. Begun'
    BY <2>1, VerbOf
    DEF ForgeInv, LedgerInv, Begun, StepsOf, Idle, Removal, Provide, Tell,
        Clear, Unbox, Retire, Purging
  <2>3. OthersGood'
    BY <2>1, VerbOf, QuietFrame DEF Hand, Removal
  <2> QED
    BY ONLY <2>1, <2>2, <2>3, PairsInv', ForgeInv, Frames
    DEF LedgerInv, PairsInv, Removal, Provide, Tell, Clear, Unbox, Retire,
        Purging
<1>2. ASSUME NEW r \in Repos, RepoRemove(r)
      PROVE  LedgerInv'
  <2>1. /\ cmd = Idle /\ cmd.pc = "idle" /\ cmd.verb = "none"
        /\ cmd'.pc = "rr_gate" /\ cmd'.verb = "remove" /\ cmd'.who = Nobody
        /\ cmd'.repo = r /\ cmd'.todo = {} /\ SameRows /\ SameTokens
        /\ SameForks /\ SameNotes /\ place' = place /\ torn' = torn
        /\ aim' = aim
    BY <1>2, HasTypes
    DEF RepoRemove, Begin, Resume, SameRows, SameTokens, SameForks, SameNotes,
        Idle
  <2>2. Begun'
    BY <2>1, VerbOf
    DEF ForgeInv, LedgerInv, Begun, StepsOf, Idle, Removal, Provide, Tell,
        Clear, Unbox, Retire, Purging
  <2>3. OthersGood'
    BY <2>1, VerbOf, QuietFrame DEF Hand, Removal
  <2>4. Removes'
    BY <1>2, <2>1 DEF RepoRemove, Removes, Attached, SameRows
  <2> QED
    BY ONLY <2>1, <2>2, <2>3, <2>4, PairsInv', ForgeInv, Frames
    DEF LedgerInv, PairsInv, Removal, Provide, Tell, Clear, Unbox, Retire,
        Purging
<1>3. ASSUME NEW r \in Repos, SetFetchEnabled(r)
      PROVE  LedgerInv'
  <2>1. /\ cmd.pc = "idle" /\ cmd.verb = "none" /\ cmd.who = Nobody
        /\ cmd.todo = {} /\ cmd' = cmd /\ SameRows /\ SameTokens
        /\ SameForks /\ SameNotes /\ place' = place /\ torn' = torn
        /\ aim' = aim
    BY <1>3, HasTypes
    DEF SetFetchEnabled, SameRows, SameTokens, SameForks, SameNotes, Idle
  <2>2. Begun'
    BY <2>1, VerbOf
    DEF ForgeInv, LedgerInv, Begun, StepsOf, Idle, Removal, Provide, Tell,
        Clear, Unbox, Retire, Purging
  <2>3. OthersGood'
    BY <2>1, VerbOf, QuietFrame DEF Hand, Removal
  <2>4. Removes'
    BY <2>1, HasTypes
    DEF ForgeInv, LedgerInv, Removes, SameRows, SameForks, SameTokens,
        SameNotes, RowsOf, Live, RowsIn, Attached, Stands, Clean, Bare,
        Removal, Provide, Tell, Clear, Unbox, Retire, Purging
  <2>5. Purges'
    BY <2>1, HasTypes
    DEF ForgeInv, LedgerInv, Purges, SameRows, SameForks, SameTokens,
        SameNotes, RowsOf, Live, RowsIn, Attached, Stands, Clean, Bare,
        Removal, Provide, Tell, Clear, Unbox, Retire, Purging
  <2>6. Provisions'
    BY <2>1, HasTypes
    DEF ForgeInv, LedgerInv, Provisions, SameRows, SameForks, SameTokens,
        SameNotes, RowsOf, Live, RowsIn, Attached, Stands, Clean, Bare,
        Removal, Provide, Tell, Clear, Unbox, Retire, Purging
  <2>7. Chronicles'
    BY <2>1, HasTypes
    DEF ForgeInv, LedgerInv, Chronicles, SameRows, SameForks, SameTokens,
        SameNotes, RowsOf, Live, RowsIn, Attached, Stands, Clean, Bare,
        Removal, Provide, Tell, Clear, Unbox, Retire, Purging
  <2>8. Detaches'
    BY <2>1, HasTypes
    DEF ForgeInv, LedgerInv, Detaches, SameRows, SameForks, SameTokens,
        SameNotes, RowsOf, Live, RowsIn, Attached, Stands, Clean, Bare,
        Removal, Provide, Tell, Clear, Unbox, Retire, Purging
  <2>9. Unboxes'
    BY <2>1, HasTypes
    DEF ForgeInv, LedgerInv, Unboxes, SameRows, SameForks, SameTokens,
        SameNotes, RowsOf, Live, RowsIn, Attached, Stands, Clean, Bare,
        Removal, Provide, Tell, Clear, Unbox, Retire, Purging
  <2>10. Destroys'
    BY <2>1, HasTypes
    DEF ForgeInv, LedgerInv, Destroys, SameRows, SameForks, SameTokens,
        SameNotes, RowsOf, Live, RowsIn, Attached, Stands, Clean, Bare,
        Removal, Provide, Tell, Clear, Unbox, Retire, Purging
  <2> QED
    BY ONLY <2>1, <2>2, <2>3, <2>4, <2>5, <2>6, <2>7, <2>8, <2>9, <2>10,
       PairsInv', ForgeInv, Frames
    DEF LedgerInv, PairsInv, Removal, Provide, Tell, Clear, Unbox, Retire,
        Purging
<1>4. ASSUME NEW x \in Accounts, NEW r \in Repos, SetActiveFork(x, r)
      PROVE  LedgerInv'
  <2>1. /\ cmd.pc = "idle" /\ cmd.verb = "none" /\ cmd.who = Nobody
        /\ cmd.todo = {} /\ cmd' = cmd /\ SameRows /\ SameTokens
        /\ SameForks /\ SameNotes /\ place' = place /\ torn' = torn
        /\ aim' = aim
    BY <1>4, HasTypes
    DEF SetActiveFork, SameRows, SameTokens, SameForks, SameNotes, Idle
  <2>2. Begun'
    BY <2>1, VerbOf
    DEF ForgeInv, LedgerInv, Begun, StepsOf, Idle, Removal, Provide, Tell,
        Clear, Unbox, Retire, Purging
  <2>3. OthersGood'
    BY <2>1, VerbOf, QuietFrame DEF Hand, Removal
  <2>4. Removes'
    BY <2>1, HasTypes
    DEF ForgeInv, LedgerInv, Removes, SameRows, SameForks, SameTokens,
        SameNotes, RowsOf, Live, RowsIn, Attached, Stands, Clean, Bare,
        Removal, Provide, Tell, Clear, Unbox, Retire, Purging
  <2>5. Purges'
    BY <2>1, HasTypes
    DEF ForgeInv, LedgerInv, Purges, SameRows, SameForks, SameTokens,
        SameNotes, RowsOf, Live, RowsIn, Attached, Stands, Clean, Bare,
        Removal, Provide, Tell, Clear, Unbox, Retire, Purging
  <2>6. Provisions'
    BY <2>1, HasTypes
    DEF ForgeInv, LedgerInv, Provisions, SameRows, SameForks, SameTokens,
        SameNotes, RowsOf, Live, RowsIn, Attached, Stands, Clean, Bare,
        Removal, Provide, Tell, Clear, Unbox, Retire, Purging
  <2>7. Chronicles'
    BY <2>1, HasTypes
    DEF ForgeInv, LedgerInv, Chronicles, SameRows, SameForks, SameTokens,
        SameNotes, RowsOf, Live, RowsIn, Attached, Stands, Clean, Bare,
        Removal, Provide, Tell, Clear, Unbox, Retire, Purging
  <2>8. Detaches'
    BY <2>1, HasTypes
    DEF ForgeInv, LedgerInv, Detaches, SameRows, SameForks, SameTokens,
        SameNotes, RowsOf, Live, RowsIn, Attached, Stands, Clean, Bare,
        Removal, Provide, Tell, Clear, Unbox, Retire, Purging
  <2>9. Unboxes'
    BY <2>1, HasTypes
    DEF ForgeInv, LedgerInv, Unboxes, SameRows, SameForks, SameTokens,
        SameNotes, RowsOf, Live, RowsIn, Attached, Stands, Clean, Bare,
        Removal, Provide, Tell, Clear, Unbox, Retire, Purging
  <2>10. Destroys'
    BY <2>1, HasTypes
    DEF ForgeInv, LedgerInv, Destroys, SameRows, SameForks, SameTokens,
        SameNotes, RowsOf, Live, RowsIn, Attached, Stands, Clean, Bare,
        Removal, Provide, Tell, Clear, Unbox, Retire, Purging
  <2> QED
    BY ONLY <2>1, <2>2, <2>3, <2>4, <2>5, <2>6, <2>7, <2>8, <2>9, <2>10,
       PairsInv', ForgeInv, Frames
    DEF LedgerInv, PairsInv, Removal, Provide, Tell, Clear, Unbox, Retire,
        Purging
<1>5. ASSUME Migrate
      PROVE  LedgerInv'
  <2>1. /\ cmd.verb = "add" /\ cmd.pc = "ra_migrate" /\ cmd'.pc = "ra_stamp"
        /\ cmd'.verb = cmd.verb /\ cmd'.who = cmd.who
        /\ cmd'.repo = cmd.repo /\ cmd'.todo = cmd.todo /\ SameRows
        /\ SameTokens /\ SameForks /\ SameNotes /\ place' = place
        /\ torn' = torn /\ aim' = aim
    BY <1>5, HasTypes, VerbOf
    DEF Migrate, Ask, Go, SameRows, SameTokens, SameForks, SameNotes
  <2>2. Begun'
    BY <2>1, VerbOf
    DEF ForgeInv, LedgerInv, Begun, StepsOf, Idle, Removal, Provide, Tell,
        Clear, Unbox, Retire, Purging
  <2>3. OthersGood'
    BY <2>1, VerbOf, QuietFrame DEF Hand, Removal
  <2> QED
    BY ONLY <2>1, <2>2, <2>3, PairsInv', ForgeInv, Frames
    DEF LedgerInv, PairsInv, Removal, Provide, Tell, Clear, Unbox, Retire,
        Purging
<1>6. ASSUME MigrateFails
      PROVE  LedgerInv'
  <2>1. /\ cmd.verb = "add" /\ cmd.pc = "ra_migrate" /\ cmd' = Idle
        /\ cmd'.pc = "idle" /\ cmd'.verb = "none" /\ cmd'.who = Nobody
        /\ cmd'.todo = {} /\ SameRows /\ SameTokens /\ SameForks
        /\ SameNotes /\ place' = place /\ torn' = torn /\ aim' = aim
    BY <1>6, HasTypes, VerbOf
    DEF MigrateFails, SameRows, SameTokens, SameForks, SameNotes, Idle
  <2>2. Begun'
    BY <2>1, VerbOf
    DEF ForgeInv, LedgerInv, Begun, StepsOf, Idle, Removal, Provide, Tell,
        Clear, Unbox, Retire, Purging
  <2>3. OthersGood'
    BY <2>1, VerbOf, QuietFrame DEF Hand, Removal
  <2> QED
    BY ONLY <2>1, <2>2, <2>3, PairsInv', ForgeInv, Frames
    DEF LedgerInv, PairsInv, Removal, Provide, Tell, Clear, Unbox, Retire,
        Purging
<1>7. ASSUME Stamp
      PROVE  LedgerInv'
  <2>1. /\ cmd.verb = "add" /\ cmd.pc = "ra_stamp" /\ cmd' = Idle
        /\ cmd'.pc = "idle" /\ cmd'.verb = "none" /\ cmd'.who = Nobody
        /\ cmd'.todo = {} /\ SameRows /\ SameTokens /\ SameForks
        /\ SameNotes /\ place' = place /\ torn' = torn /\ aim' = aim
    BY <1>7, HasTypes, VerbOf
    DEF Stamp, End, SameRows, SameTokens, SameForks, SameNotes, Idle
  <2>2. Begun'
    BY <2>1, VerbOf
    DEF ForgeInv, LedgerInv, Begun, StepsOf, Idle, Removal, Provide, Tell,
        Clear, Unbox, Retire, Purging
  <2>3. OthersGood'
    BY <2>1, VerbOf, QuietFrame DEF Hand, Removal
  <2> QED
    BY ONLY <2>1, <2>2, <2>3, PairsInv', ForgeInv, Frames
    DEF LedgerInv, PairsInv, Removal, Provide, Tell, Clear, Unbox, Retire,
        Purging
<1>8. ASSUME RemoveGate
      PROVE  LedgerInv'
  <2>1. /\ cmd.verb = "remove" /\ cmd.pc = "rr_gate" /\ cmd'.pc = "rr_list"
        /\ cmd'.verb = cmd.verb /\ cmd'.who = cmd.who
        /\ cmd'.repo = cmd.repo /\ cmd'.todo = cmd.todo /\ SameRows
        /\ SameTokens /\ SameForks /\ SameNotes /\ place' = place
        /\ torn' = torn /\ aim' = aim
    BY <1>8, HasTypes, VerbOf
    DEF RemoveGate, Ask, Go, SameRows, SameTokens, SameForks, SameNotes,
        Removal
  <2>2. Begun'
    BY <2>1, VerbOf
    DEF ForgeInv, LedgerInv, Begun, StepsOf, Idle, Removal, Provide, Tell,
        Clear, Unbox, Retire, Purging
  <2>3. OthersGood'
    BY <2>1, VerbOf, QuietFrame DEF Hand, Removal
  <2>4. Removes'
    BY <1>8, <2>1, HasTypes
    DEF RemoveGate, ForgeInv, LedgerInv, Removes, Removal, SameRows,
        SameForks, SameTokens, SameNotes, Attached, RowsOf, Live
  <2> QED
    BY ONLY <2>1, <2>2, <2>3, <2>4, PairsInv', ForgeInv, Frames
    DEF LedgerInv, PairsInv, Removal, Provide, Tell, Clear, Unbox, Retire,
        Purging
<1>9. ASSUME RemoveList
      PROVE  LedgerInv'
  <2>1. /\ cmd.verb = "remove" /\ cmd.pc = "rr_list" /\ cmd'.pc = "rr_next"
        /\ cmd'.verb = cmd.verb /\ cmd'.who = cmd.who
        /\ cmd'.repo = cmd.repo /\ SameRows /\ SameTokens /\ SameForks
        /\ SameNotes /\ place' = place /\ torn' = torn /\ aim' = aim
    BY <1>9, HasTypes, VerbOf
    DEF RemoveList, SameRows, SameTokens, SameForks, SameNotes, Removal
  <2>2. Begun'
    BY <2>1, VerbOf
    DEF ForgeInv, LedgerInv, Begun, StepsOf, Idle, Removal, Provide, Tell,
        Clear, Unbox, Retire, Purging
  <2>3. OthersGood'
    BY <2>1, VerbOf, QuietFrame DEF Hand, Removal
  <2>4. Removes'
    BY <2>1, HasTypes
    DEF ForgeInv, LedgerInv, Removes, Removal, SameRows, SameForks,
        SameTokens, SameNotes, Attached, RowsOf, Live
  <2> QED
    BY ONLY <2>1, <2>2, <2>3, <2>4, PairsInv', ForgeInv, Frames
    DEF LedgerInv, PairsInv, Removal, Provide, Tell, Clear, Unbox, Retire,
        Purging
<1>10. ASSUME NEW x \in Accounts, RemoveFork(x)
      PROVE  LedgerInv'
  <2>1. /\ cmd.verb = "remove" /\ cmd.pc = "rr_next" /\ x \in cmd.todo
        /\ cmd'.pc \in {"rr_next", "rr_token", "rr_last"}
        /\ cmd'.verb = cmd.verb /\ cmd'.repo = cmd.repo /\ cmd'.who = x
        /\ (cmd'.pc # "rr_next" => RowsOf(x) = {})
        /\ forge'.users = forge.users
        /\ \A a \in Accounts, r \in Repos :
              forge'.fork[a][r] \in {forge.fork[a][r], "none"}
        /\ \A a \in Accounts, r \in Repos :
              a # x \/ r # R => forge'.fork[a][r] = forge.fork[a][r]
        /\ SameRows /\ SameTokens /\ SameNotes /\ place' = place
        /\ torn' = torn /\ aim' = aim
    BY <1>10, HasTypes, VerbOf
    DEF RemoveFork, SameRows, SameTokens, SameNotes, Removal
  <2>2. Begun'
    BY <2>1, VerbOf
    DEF ForgeInv, LedgerInv, Begun, StepsOf, Idle, Removal, Provide, Tell,
        Clear, Unbox, Retire, Purging
  <2>3. ForksOwned'
    BY <2>1, HasTypes
    DEF ForgeInv, LedgerInv, SameRows, SameForks, SameTokens, SameNotes,
        ForksOwned, TalesBare, Bare
  <2>5. Removes'
    BY <2>1, HasTypes
    DEF ForgeInv, LedgerInv, Removes, Removal, SameRows, SameForks,
        SameTokens, SameNotes, Attached, RowsOf, Live
  <2>6. OthersGood'
    <3>1. ASSUME NEW a \in Accounts \ (torn' \cup Hand')
          PROVE  Good(a)'
      <4>1. Good(a)
        BY <3>1, <2>1, VerbOf DEF ForgeInv, LedgerInv, OthersGood, Hand
      <4> QED
        BY <4>1, <2>1, HasTypes
        DEF ForgeInv, LedgerInv, SameRows, SameForks, SameTokens, SameNotes,
            Good, Clean, RowsOf, Stands, RowWorks, Live, Removes, Removal,
            Attached
    <3> QED
      BY <3>1, GoodFrame
  <2> QED
    BY ONLY <2>1, <2>2, <2>3, <2>5, <2>6, PairsInv', ForgeInv, Frames
    DEF LedgerInv, PairsInv, Removal, Provide, Tell, Clear, Unbox, Retire,
        Purging
<1>11. ASSUME RemoveToken("rr_token", "rr_owner")
      PROVE  LedgerInv'
  <2>1. /\ cmd.verb = "remove" /\ cmd.pc = "rr_token"
        /\ cmd'.pc = "rr_owner" /\ cmd'.verb = cmd.verb
        /\ cmd'.who = cmd.who /\ cmd'.repo = cmd.repo
        /\ cmd'.todo = cmd.todo /\ C \in Accounts
        /\ host'.token = [host.token EXCEPT ![C] = "none"] /\ SameRows
        /\ SameForks /\ SameNotes /\ place' = place /\ torn' = torn
        /\ aim' = aim
    BY <1>11, HasTypes, HasNames, VerbOf
    DEF RemoveToken, Go, Untoken, SameRows, SameForks, SameNotes, Removal
  <2>2. Begun'
    BY <2>1, VerbOf
    DEF ForgeInv, LedgerInv, Begun, StepsOf, Idle, Removal, Provide, Tell,
        Clear, Unbox, Retire, Purging
  <2>3. Removes'
    BY <2>1, HasTypes
    DEF ForgeInv, LedgerInv, Removes, Removal, SameRows, SameForks,
        SameTokens, SameNotes, Attached, RowsOf, Live
  <2>4. DeadTold'
    BY <2>1, HasTypes
    DEF ForgeInv, LedgerInv, SameRows, SameForks, SameTokens, SameNotes,
        DeadTold, Removal, Clear
  <2>5. OthersGood'
    <3>1. ASSUME NEW a \in Accounts \ (torn' \cup Hand')
          PROVE  Good(a)'
      <4>1. Good(a)
        BY <3>1, <2>1, VerbOf DEF ForgeInv, LedgerInv, OthersGood, Hand
      <4> QED
        BY <4>1, <2>1, HasTypes
        DEF ForgeInv, LedgerInv, SameRows, SameForks, SameTokens, SameNotes,
            Good, Clean, RowsOf, Stands, RowWorks, Live, Removes, Removal
    <3> QED
      BY <3>1, GoodFrame
  <2> QED
    BY ONLY <2>1, <2>2, <2>3, <2>4, <2>5, PairsInv', ForgeInv, Frames
    DEF LedgerInv, PairsInv, Removal, Provide, Tell, Clear, Unbox, Retire,
        Purging
<1>12. ASSUME RemoveToken("rr_last", "rr_next")
      PROVE  LedgerInv'
  <2>1. /\ cmd.verb = "remove" /\ cmd.pc = "rr_last" /\ cmd'.pc = "rr_next"
        /\ cmd'.verb = cmd.verb /\ cmd'.who = cmd.who
        /\ cmd'.repo = cmd.repo /\ cmd'.todo = cmd.todo /\ C \in Accounts
        /\ host'.token = [host.token EXCEPT ![C] = "none"] /\ SameRows
        /\ SameForks /\ SameNotes /\ place' = place /\ torn' = torn
        /\ aim' = aim
    BY <1>12, HasTypes, HasNames, VerbOf
    DEF RemoveToken, Go, Untoken, SameRows, SameForks, SameNotes, Removal
  <2>2. Begun'
    BY <2>1, VerbOf
    DEF ForgeInv, LedgerInv, Begun, StepsOf, Idle, Removal, Provide, Tell,
        Clear, Unbox, Retire, Purging
  <2>3. Removes'
    BY <2>1, HasTypes
    DEF ForgeInv, LedgerInv, Removes, Removal, SameRows, SameForks,
        SameTokens, SameNotes, Attached, RowsOf, Live
  <2>4. DeadTold'
    BY <2>1, HasTypes
    DEF ForgeInv, LedgerInv, SameRows, SameForks, SameTokens, SameNotes,
        DeadTold, Removal, Clear
  <2>5. OthersGood'
    <3>1. ASSUME NEW a \in Accounts \ (torn' \cup Hand')
          PROVE  Good(a)'
      <4>1. Good(a)
        BY <3>1, <2>1, VerbOf DEF ForgeInv, LedgerInv, OthersGood, Hand
      <4> QED
        BY <4>1, <2>1, HasTypes
        DEF ForgeInv, LedgerInv, SameRows, SameForks, SameTokens, SameNotes,
            Good, Clean, RowsOf, Stands, RowWorks, Live, Removes, Removal
    <3> QED
      BY <3>1, GoodFrame
  <2> QED
    BY ONLY <2>1, <2>2, <2>3, <2>4, <2>5, PairsInv', ForgeInv, Frames
    DEF LedgerInv, PairsInv, Removal, Provide, Tell, Clear, Unbox, Retire,
        Purging
<1>13. ASSUME RemoveMirror
      PROVE  LedgerInv'
  <2>1. /\ cmd.verb = "remove" /\ cmd.pc = "rr_next" /\ cmd'.pc = "rr_host"
        /\ cmd'.verb = cmd.verb /\ cmd'.who = cmd.who
        /\ cmd'.repo = cmd.repo /\ cmd'.todo = cmd.todo /\ SameRows
        /\ SameTokens /\ SameForks /\ SameNotes /\ place' = place
        /\ torn' = torn /\ aim' = aim
    BY <1>13, HasTypes, VerbOf
    DEF RemoveMirror, Ask, Go, SameRows, SameTokens, SameForks, SameNotes,
        Removal
  <2>2. Begun'
    BY <2>1, VerbOf
    DEF ForgeInv, LedgerInv, Begun, StepsOf, Idle, Removal, Provide, Tell,
        Clear, Unbox, Retire, Purging
  <2>3. OthersGood'
    BY <2>1, VerbOf, QuietFrame DEF Hand, Removal
  <2>4. Removes'
    BY <2>1, HasTypes
    DEF ForgeInv, LedgerInv, Removes, Removal, SameRows, SameForks,
        SameTokens, SameNotes, Attached, RowsOf, Live
  <2> QED
    BY ONLY <2>1, <2>2, <2>3, <2>4, PairsInv', ForgeInv, Frames
    DEF LedgerInv, PairsInv, Removal, Provide, Tell, Clear, Unbox, Retire,
        Purging
<1>14. ASSUME RemoveHost
      PROVE  LedgerInv'
  <2>1. /\ cmd.verb = "remove" /\ cmd.pc = "rr_host" /\ cmd' = Idle
        /\ cmd'.pc = "idle" /\ cmd'.verb = "none" /\ cmd'.who = Nobody
        /\ cmd'.todo = {} /\ SameRows /\ SameTokens /\ SameForks
        /\ SameNotes /\ place' = place /\ torn' = torn /\ aim' = aim
    BY <1>14, HasTypes, VerbOf
    DEF RemoveHost, End, SameRows, SameTokens, SameForks, SameNotes, Removal,
        Idle
  <2>2. Begun'
    BY <2>1, VerbOf
    DEF ForgeInv, LedgerInv, Begun, StepsOf, Idle, Removal, Provide, Tell,
        Clear, Unbox, Retire, Purging
  <2>3. OthersGood'
    BY <2>1, VerbOf, QuietFrame DEF Hand, Removal
  <2> QED
    BY ONLY <2>1, <2>2, <2>3, PairsInv', ForgeInv, Frames
    DEF LedgerInv, PairsInv, Removal, Provide, Tell, Clear, Unbox, Retire,
        Purging
<1>15. ASSUME RemoveOwner
      PROVE  LedgerInv'
  <2>1. /\ cmd.verb = "remove" /\ cmd.pc = "rr_owner" /\ cmd'.pc = "rr_next"
        /\ cmd'.verb = cmd.verb /\ cmd'.who = cmd.who
        /\ cmd'.repo = cmd.repo /\ cmd'.todo = cmd.todo /\ C \in Accounts
        /\ forge'.users \subseteq forge.users
        /\ \A r \in Repos : forge'.fork[C][r] \in {forge.fork[C][r], "none"}
        /\ \A a \in Accounts \ {C} : (a \in forge'.users <=> a \in forge.users)
        /\ \A a \in Accounts \ {C}, r \in Repos :
              forge'.fork[a][r] = forge.fork[a][r]
        /\ (C \notin forge'.users =>
              \A r \in Repos : forge'.fork[C][r] = "none")
        /\ \A a \in Accounts : host'.token[a] \in {host.token[a], "none"}
        /\ \A a \in Accounts \ {C} : host'.token[a] = host.token[a]
        /\ SameRows /\ SameNotes /\ place' = place /\ torn' = torn
        /\ aim' = aim
    <3>1. /\ C \in Accounts /\ cmd.verb = "remove" /\ cmd.pc = "rr_owner"
          /\ cmd' = [cmd EXCEPT !.pc = "rr_next"]
          /\ place' = place /\ torn' = torn /\ aim' = aim
      BY <1>15, HasNames, VerbOf DEF RemoveOwner, Go, Removal
    <3>2. CASE forge' = forge /\ host' = host
      <4>1. C \notin forge'.users => \A r \in Repos : forge'.fork[C][r] = "none"
        BY <3>1, <3>2 DEF ForgeInv, LedgerInv, ForksOwned, Bare
      <4> QED
        BY <3>1, <3>2, <4>1, HasTypes DEF SameRows, SameNotes
    <3>3. CASE forge' = Unuser(forge, C) /\ host' = Untoken(host, {C})
      <4>1. /\ forge'.users = forge.users \ {C} /\ forge'.notes = forge.notes
            /\ \A r \in Repos : forge'.fork[C][r] = "none"
            /\ \A a \in Accounts \ {C}, r \in Repos :
                  forge'.fork[a][r] = forge.fork[a][r]
        BY <3>1, <3>3, UnuserIs
      <4>2. /\ host'.rows = host.rows
            /\ host'.token = [a \in Accounts |-> IF a \in {C} THEN "none"
                                                ELSE host.token[a]]
        BY <3>3, HasTypes DEF Untoken
      <4> QED
        BY <3>1, <4>1, <4>2, HasTypes DEF SameRows, SameNotes
    <3> QED
      BY <1>15, <3>2, <3>3 DEF RemoveOwner
  <2>2. Begun'
    BY <2>1, VerbOf
    DEF ForgeInv, LedgerInv, Begun, StepsOf, Idle, Removal, Provide, Tell,
        Clear, Unbox, Retire, Purging
  <2>3. Removes'
    BY <2>1, HasTypes
    DEF ForgeInv, LedgerInv, Removes, Removal, SameRows, SameForks,
        SameTokens, SameNotes, Attached, RowsOf, Live
  <2>4. ForksOwned'
    BY <2>1, HasTypes
    DEF ForgeInv, LedgerInv, SameRows, SameForks, SameTokens, SameNotes,
        ForksOwned, Bare
  <2>7. DeadTold'
    BY <2>1, HasTypes
    DEF ForgeInv, LedgerInv, SameRows, SameForks, SameTokens, SameNotes,
        DeadTold, Removal, Clear
  <2>8. OthersGood'
    <3>1. ASSUME NEW a \in Accounts \ (torn' \cup Hand')
          PROVE  Good(a)'
      <4>1. Good(a)
        BY <3>1, <2>1, VerbOf DEF ForgeInv, LedgerInv, OthersGood, Hand
      <4> QED
        BY <4>1, <2>1, HasTypes
        DEF ForgeInv, LedgerInv, SameRows, SameForks, SameTokens, SameNotes,
            Good, Clean, RowsOf, Stands, RowWorks, Live, Removes, Removal
    <3> QED
      BY <3>1, GoodFrame
  <2> QED
    BY ONLY <2>1, <2>2, <2>3, <2>4, <2>7, <2>8, PairsInv', ForgeInv, Frames
    DEF LedgerInv, PairsInv, Removal, Provide, Tell, Clear, Unbox, Retire,
        Purging
<1> QED
  BY <1>1, <1>2, <1>3, <1>4, <1>5, <1>6, <1>7, <1>8, <1>9, <1>10, <1>11,
     <1>12, <1>13, <1>14, <1>15
  DEF MirrorStep

(* Gitea stops and starts.                                                 *)
LEMMA OutageKeeps ==
    ASSUME ForgeInv, PairsInv', OutageStep
    PROVE  LedgerInv'
<1> USE ForgeAssumption DEF C, R
<1>1. ASSUME ForgeStops
      PROVE  LedgerInv'
  <2>1. /\ cmd' = cmd /\ SameRows /\ SameTokens /\ SameForks /\ SameNotes
        /\ place' = place /\ torn' = torn /\ aim' = aim
    BY <1>1, HasTypes
    DEF ForgeStops, SameRows, SameTokens, SameForks, SameNotes
  <2>2. Begun'
    BY <2>1 DEF ForgeInv, LedgerInv, Begun
  <2>3. OthersGood'
    BY <2>1, VerbOf, QuietFrame DEF Hand, Removal
  <2>4. Removes'
    BY <2>1, HasTypes
    DEF ForgeInv, LedgerInv, Removes, SameRows, SameForks, SameTokens,
        SameNotes, RowsOf, Live, RowsIn, Attached, Stands, Clean, Bare
  <2>5. Purges'
    BY <2>1, HasTypes
    DEF ForgeInv, LedgerInv, Purges, SameRows, SameForks, SameTokens,
        SameNotes, RowsOf, Live, RowsIn, Attached, Stands, Clean, Bare
  <2>6. Provisions'
    BY <2>1, HasTypes
    DEF ForgeInv, LedgerInv, Provisions, SameRows, SameForks, SameTokens,
        SameNotes, RowsOf, Live, RowsIn, Attached, Stands, Clean, Bare
  <2>7. Chronicles'
    BY <2>1, HasTypes
    DEF ForgeInv, LedgerInv, Chronicles, SameRows, SameForks, SameTokens,
        SameNotes, RowsOf, Live, RowsIn, Attached, Stands, Clean, Bare
  <2>8. Detaches'
    BY <2>1, HasTypes
    DEF ForgeInv, LedgerInv, Detaches, SameRows, SameForks, SameTokens,
        SameNotes, RowsOf, Live, RowsIn, Attached, Stands, Clean, Bare
  <2>9. Unboxes'
    BY <2>1, HasTypes
    DEF ForgeInv, LedgerInv, Unboxes, SameRows, SameForks, SameTokens,
        SameNotes, RowsOf, Live, RowsIn, Attached, Stands, Clean, Bare
  <2>10. Destroys'
    BY <2>1, HasTypes
    DEF ForgeInv, LedgerInv, Destroys, SameRows, SameForks, SameTokens,
        SameNotes, RowsOf, Live, RowsIn, Attached, Stands, Clean, Bare
  <2>11. DeadTold'
    BY <2>1, HasTypes
    DEF ForgeInv, LedgerInv, SameRows, SameForks, SameTokens, SameNotes,
        DeadTold
  <2> QED
    BY ONLY <2>1, <2>2, <2>3, <2>4, <2>5, <2>6, <2>7, <2>8, <2>9, <2>10,
       <2>11, PairsInv', ForgeInv, Frames
    DEF LedgerInv, PairsInv, Removal, Provide, Tell, Clear, Unbox, Retire, Purging
<1>2. ASSUME ForgeStarts
      PROVE  LedgerInv'
  <2>1. /\ cmd' = cmd /\ SameRows /\ SameTokens /\ SameForks /\ SameNotes
        /\ place' = place /\ torn' = torn /\ aim' = aim
    BY <1>2, HasTypes
    DEF ForgeStarts, Resume, SameRows, SameTokens, SameForks, SameNotes
  <2>2. Begun'
    BY <2>1 DEF ForgeInv, LedgerInv, Begun
  <2>3. OthersGood'
    BY <2>1, VerbOf, QuietFrame DEF Hand, Removal
  <2>4. Removes'
    BY <2>1, HasTypes
    DEF ForgeInv, LedgerInv, Removes, SameRows, SameForks, SameTokens,
        SameNotes, RowsOf, Live, RowsIn, Attached, Stands, Clean, Bare
  <2>5. Purges'
    BY <2>1, HasTypes
    DEF ForgeInv, LedgerInv, Purges, SameRows, SameForks, SameTokens,
        SameNotes, RowsOf, Live, RowsIn, Attached, Stands, Clean, Bare
  <2>6. Provisions'
    BY <2>1, HasTypes
    DEF ForgeInv, LedgerInv, Provisions, SameRows, SameForks, SameTokens,
        SameNotes, RowsOf, Live, RowsIn, Attached, Stands, Clean, Bare
  <2>7. Chronicles'
    BY <2>1, HasTypes
    DEF ForgeInv, LedgerInv, Chronicles, SameRows, SameForks, SameTokens,
        SameNotes, RowsOf, Live, RowsIn, Attached, Stands, Clean, Bare
  <2>8. Detaches'
    BY <2>1, HasTypes
    DEF ForgeInv, LedgerInv, Detaches, SameRows, SameForks, SameTokens,
        SameNotes, RowsOf, Live, RowsIn, Attached, Stands, Clean, Bare
  <2>9. Unboxes'
    BY <2>1, HasTypes
    DEF ForgeInv, LedgerInv, Unboxes, SameRows, SameForks, SameTokens,
        SameNotes, RowsOf, Live, RowsIn, Attached, Stands, Clean, Bare
  <2>10. Destroys'
    BY <2>1, HasTypes
    DEF ForgeInv, LedgerInv, Destroys, SameRows, SameForks, SameTokens,
        SameNotes, RowsOf, Live, RowsIn, Attached, Stands, Clean, Bare
  <2>11. DeadTold'
    BY <2>1, HasTypes
    DEF ForgeInv, LedgerInv, SameRows, SameForks, SameTokens, SameNotes,
        DeadTold
  <2> QED
    BY ONLY <2>1, <2>2, <2>3, <2>4, <2>5, <2>6, <2>7, <2>8, <2>9, <2>10,
       <2>11, PairsInv', ForgeInv, Frames
    DEF LedgerInv, PairsInv, Removal, Provide, Tell, Clear, Unbox, Retire, Purging
<1> QED
  BY <1>1, <1>2 DEF OutageStep

-----------------------------------------------------------------------------
(* A provision.  A name that is not torn and does not stand has no other   *)
(* row: a container that is down is clean, or a removed box without        *)
(* history, whose dev row the retired-identity check meets.                *)
LEMMA ProvisionKeeps ==
    ASSUME ForgeInv, PairsInv', ProvisionStep
    PROVE  LedgerInv'
<1> USE ForgeAssumption DEF C, R
<1>1. ASSUME NEW p \in Projects, NEW r \in Repos, DevCreate(p, r)
      PROVE  LedgerInv'
  <2>1. /\ cmd = Idle /\ cmd.pc = "idle" /\ cmd.verb = "none"
        /\ cmd'.pc = "pv_user" /\ cmd'.verb = "create"
        /\ cmd'.who = <<p, Own>> /\ cmd'.repo = r /\ cmd'.todo = {}
        /\ p \notin place.up /\ <<p, Own>> \in Accounts
        /\ place'.up = place.up \cup {p} /\ place'.box = place.box
        /\ place'.staged = place.staged /\ SameRows /\ SameTokens
        /\ SameForks /\ SameNotes /\ torn' = torn /\ aim' = aim
    BY <1>1, HasTypes
    DEF DevCreate, Free, Begin, Resume, SameRows, SameTokens, SameForks,
        SameNotes, Idle, Accounts
  <2>2. Begun'
    BY <2>1, VerbOf
    DEF ForgeInv, LedgerInv, Begun, StepsOf, Idle, Removal, Provide, Tell,
        Clear, Unbox, Retire, Purging
  <2>3. Provisions'
    <3>1. Tale(<<p, Own>>) \notin host.rows
      BY <2>1 DEF ForgeInv, LedgerInv, TalesBare
    <3>2. <<p, Own>> \in torn \/ RowsOf(<<p, Own>>) = {}
      <4>1. ~IsBox(<<p, Own>>) /\ ~Stands(<<p, Own>>)
        BY <2>1 DEF IsBox, Stands, Home
      <4>2. Hand = {}
        BY <2>1 DEF Hand
      <4> QED
        BY <2>1, <4>1, <4>2 DEF ForgeInv, LedgerInv, OthersGood, Good
    <3> QED
      BY <2>1, <3>1, <3>2, HasTypes
      DEF Provisions, Provide, SameRows, RowsOf, Tale, IsBox, Home
  <2>4. OthersGood'
    <3>1. ASSUME NEW a \in Accounts \ (torn' \cup Hand')
          PROVE  Good(a)'
      <4>1. Good(a)
        BY <3>1, <2>1, VerbOf DEF ForgeInv, LedgerInv, OthersGood, Hand
      <4> QED
        BY <4>1, <2>1, HasTypes
        DEF ForgeInv, LedgerInv, SameRows, SameForks, SameTokens, SameNotes,
            Good, Clean, RowsOf, Stands, RowWorks, Live, IsBox, Home
    <3> QED
      BY <3>1, GoodFrame
  <2> QED
    BY ONLY <2>1, <2>2, <2>3, <2>4, PairsInv', ForgeInv, Frames
    DEF LedgerInv, PairsInv, Removal, Provide, Tell, Clear, Unbox, Retire,
        Purging
<1>2. ASSUME NEW p \in Projects, PlainCreate(p)
      PROVE  LedgerInv'
  <2>1. /\ cmd.pc = "idle" /\ cmd.verb = "none" /\ cmd.who = Nobody
        /\ cmd.todo = {} /\ cmd' = cmd /\ p \notin place.up
        /\ place'.up = place.up \cup {p} /\ place'.box = place.box
        /\ place'.staged = place.staged /\ SameRows /\ SameTokens
        /\ SameForks /\ SameNotes /\ torn' = torn /\ aim' = aim
    BY <1>2, HasTypes
    DEF PlainCreate, Free, SameRows, SameTokens, SameForks, SameNotes, Idle
  <2>2. Begun'
    BY <2>1 DEF ForgeInv, LedgerInv, Begun
  <2>3. Removes'
    BY <2>1, HasTypes
    DEF ForgeInv, LedgerInv, Removes, SameRows, SameForks, SameTokens,
        SameNotes, RowsOf, Live, RowsIn, Attached, Stands, Clean, Bare,
        Removal, Provide, Tell, Clear, Unbox, Retire, Purging
  <2>4. Purges'
    BY <2>1, HasTypes
    DEF ForgeInv, LedgerInv, Purges, SameRows, SameForks, SameTokens,
        SameNotes, RowsOf, Live, RowsIn, Attached, Stands, Clean, Bare,
        Removal, Provide, Tell, Clear, Unbox, Retire, Purging
  <2>5. Provisions'
    BY <2>1, HasTypes
    DEF ForgeInv, LedgerInv, Provisions, SameRows, SameForks, SameTokens,
        SameNotes, RowsOf, Live, RowsIn, Attached, Stands, Clean, Bare,
        Removal, Provide, Tell, Clear, Unbox, Retire, Purging
  <2>6. Chronicles'
    BY <2>1, HasTypes
    DEF ForgeInv, LedgerInv, Chronicles, SameRows, SameForks, SameTokens,
        SameNotes, RowsOf, Live, RowsIn, Attached, Stands, Clean, Bare,
        Removal, Provide, Tell, Clear, Unbox, Retire, Purging
  <2>7. Detaches'
    BY <2>1, HasTypes
    DEF ForgeInv, LedgerInv, Detaches, SameRows, SameForks, SameTokens,
        SameNotes, RowsOf, Live, RowsIn, Attached, Stands, Clean, Bare,
        Removal, Provide, Tell, Clear, Unbox, Retire, Purging
  <2>8. Unboxes'
    BY <2>1, HasTypes
    DEF ForgeInv, LedgerInv, Unboxes, SameRows, SameForks, SameTokens,
        SameNotes, RowsOf, Live, RowsIn, Attached, Stands, Clean, Bare,
        Removal, Provide, Tell, Clear, Unbox, Retire, Purging
  <2>9. Destroys'
    BY <2>1, HasTypes
    DEF ForgeInv, LedgerInv, Destroys, SameRows, SameForks, SameTokens,
        SameNotes, RowsOf, Live, RowsIn, Attached, Stands, Clean, Bare,
        Removal, Provide, Tell, Clear, Unbox, Retire, Purging
  <2>10. OthersGood'
    <3>1. ASSUME NEW a \in Accounts \ (torn' \cup Hand')
          PROVE  Good(a)'
      <4>1. Good(a)
        BY <3>1, <2>1, VerbOf DEF ForgeInv, LedgerInv, OthersGood, Hand
      <4> QED
        BY <4>1, <2>1, HasTypes
        DEF ForgeInv, LedgerInv, SameRows, SameForks, SameTokens, SameNotes,
            Good, Clean, RowsOf, Stands, RowWorks, Live, IsBox, Home
    <3> QED
      BY <3>1, GoodFrame
  <2> QED
    BY ONLY <2>1, <2>2, <2>3, <2>4, <2>5, <2>6, <2>7, <2>8, <2>9, <2>10,
       PairsInv', ForgeInv, Frames
    DEF LedgerInv, PairsInv, Removal, Provide, Tell, Clear, Unbox, Retire,
        Purging
<1>3. ASSUME NEW p \in Projects, NEW r \in Repos, Attach(p, r)
      PROVE  LedgerInv'
  <2>1. /\ cmd = Idle /\ cmd.pc = "idle" /\ cmd.verb = "none"
        /\ cmd'.pc = "pv_user" /\ cmd'.verb = "attach"
        /\ cmd'.who = <<p, Own>> /\ cmd'.repo = r /\ cmd'.todo = {}
        /\ p \in place.up /\ Works(<<p, Own>>) \subseteq {r}
        /\ <<p, Own>> \in Accounts /\ SameRows /\ SameTokens /\ SameForks
        /\ SameNotes /\ place' = place /\ torn' = torn /\ aim' = aim
    BY <1>3, HasTypes
    DEF Attach, Begin, Resume, SameRows, SameTokens, SameForks, SameNotes,
        Idle, Accounts
  <2>2. Begun'
    BY <2>1, VerbOf
    DEF ForgeInv, LedgerInv, Begun, StepsOf, Idle, Removal, Provide, Tell,
        Clear, Unbox, Retire, Purging
  <2>3. Provisions'
    <3>1. Tale(<<p, Own>>) \notin host.rows
      BY <2>1 DEF ForgeInv, LedgerInv, TalesBare
    <3>2. RowsOf(<<p, Own>>) \subseteq {Row(<<p, Own>>, r)}
      <4>1. ASSUME NEW row \in RowsOf(<<p, Own>>)
            PROVE  row = Row(<<p, Own>>, r)
        <5>1. row \in host.rows /\ row.who = <<p, Own>>
          BY DEF RowsOf
        <5>2. row.repo \in Works(<<p, Own>>)
          BY <3>1, <5>1, RowIs DEF Works, Dev, RowsOf
        <5>3. row.repo = r
          BY <2>1, <5>2
        <5> QED
          BY <5>1, <5>3, RowIs
      <4> QED
        BY <4>1
    <3> QED
      BY <2>1, <3>1, <3>2, HasTypes
      DEF Provisions, Provide, SameRows, RowsOf, Tale, Row, IsBox, Home
  <2>4. OthersGood'
    BY <2>1, VerbOf, QuietFrame DEF Hand, Removal
  <2> QED
    BY ONLY <2>1, <2>2, <2>3, <2>4, PairsInv', ForgeInv, Frames
    DEF LedgerInv, PairsInv, Removal, Provide, Tell, Clear, Unbox, Retire,
        Purging
<1>4. ASSUME NEW x \in Accounts, NEW r \in Repos, DevBoxAdd(x, r)
      PROVE  LedgerInv'
  <2>1. /\ cmd = Idle /\ cmd.pc = "idle" /\ cmd.verb = "none"
        /\ cmd'.pc = "pv_user" /\ cmd'.verb = "box" /\ cmd'.who = x
        /\ cmd'.repo = r /\ cmd'.todo = {} /\ IsBox(x) /\ ~Retired(x)
        /\ \/ "again" \in aim
           \/ ~Stands(x) /\ RowsOf(x) \subseteq {Row(x, r)}
        /\ SameRows /\ SameTokens /\ SameForks /\ SameNotes
        /\ place' = place /\ torn' = torn /\ aim' = aim
    BY <1>4, HasTypes
    DEF DevBoxAdd, Begin, Resume, SameRows, SameTokens, SameForks, SameNotes,
        Idle, Refused
  <2>2. Begun'
    BY <2>1, VerbOf
    DEF ForgeInv, LedgerInv, Begun, StepsOf, Idle, Removal, Provide, Tell,
        Clear, Unbox, Retire, Purging
  <2>3. Provisions'
    <3>1. x \notin torn /\ RowsOf(x) # {} =>
             Stands(x) \/ (host.token[x] = "none" /\ Tale(x) \notin host.rows)
      BY <2>1 DEF ForgeInv, LedgerInv, OthersGood, Good, Hand, Clean
    <3>3. Tale(x) \in host.rows => x \in torn \/ Stands(x)
      BY <3>1 DEF RowsOf, Tale
    <3>2. x \in torn \/ RowsOf(x) \subseteq {Row(x, r)} \/ Stands(x)
      <4>1. CASE x \notin torn /\ RowsOf(x) # {} /\ ~Stands(x)
        <5>1. host.token[x] = "none" /\ Tale(x) \notin host.rows /\ ~Wiped(x)
          BY <2>1, <3>1, <4>1 DEF Wiped
        <5>2. PICK row \in host.rows : row.who = x
          BY <4>1 DEF RowsOf
        <5>3. row.repo \in Repos /\ Row(x, row.repo) \in host.rows
          BY <5>1, <5>2, HasTypes DEF Row, Tale, Rows
        <5>4. x \in forge.users
          BY <5>1, <5>3, HasTypes
          DEF ForgeInv, LedgerInv, RowsForked, ForksOwned, Bare
        <5> QED
          BY <2>1, <5>1, <5>4 DEF Retired
      <4> QED
        BY <4>1
    <3> QED
      BY <2>1, <3>2, <3>3, HasTypes
      DEF Provisions, Provide, SameRows, RowsOf, Tale, Row, IsBox, Stands
  <2>4. OthersGood'
    BY <2>1, VerbOf, QuietFrame DEF Hand, Removal
  <2> QED
    BY ONLY <2>1, <2>2, <2>3, <2>4, PairsInv', ForgeInv, Frames
    DEF LedgerInv, PairsInv, Removal, Provide, Tell, Clear, Unbox, Retire,
        Purging
<1>5. ASSUME ProvisionUser
      PROVE  LedgerInv'
  <2>1. /\ cmd.verb \in {"create", "attach", "box"} /\ cmd.pc = "pv_user"
        /\ cmd'.pc = "pv_fork" /\ cmd'.verb = cmd.verb /\ cmd'.who = cmd.who
        /\ cmd'.repo = cmd.repo /\ cmd'.todo = cmd.todo
        /\ C \in Accounts /\ R \in Repos
        /\ forge'.users = forge.users \cup {C} /\ forge'.fork = forge.fork
        /\ SameRows /\ SameTokens /\ SameNotes /\ place' = place
        /\ torn' = torn /\ aim' = aim
    BY <1>5, HasTypes, HasNames, VerbOf
    DEF ProvisionUser, Ask, Go, SameRows, SameTokens, SameNotes, Provide
  <2>2. Begun'
    BY <2>1, VerbOf
    DEF ForgeInv, LedgerInv, Begun, StepsOf, Idle, Removal, Provide, Tell,
        Clear, Unbox, Retire, Purging
  <2>3. Provisions'
    BY <2>1, HasTypes
    DEF ForgeInv, LedgerInv, Provisions, Provide, SameRows, SameForks,
        SameTokens, SameNotes, Row, Tale, RowsOf, Stands, IsBox, Home
  <2>4. ForksOwned'
    BY <2>1, HasTypes
    DEF ForgeInv, LedgerInv, SameRows, SameForks, SameTokens, SameNotes,
        ForksOwned, Bare
  <2>6. OthersGood'
    <3>1. ASSUME NEW a \in Accounts \ (torn' \cup Hand')
          PROVE  a \notin torn \cup Hand /\ SameFor(a)
      <4>1. a # C /\ a \notin torn \cup Hand
        BY <3>1, <2>1 DEF Hand
      <4> QED
        BY <4>1, <2>1, HasTypes
        DEF SameFor, RowsOf, Stands, SameRows, SameForks, SameTokens,
            SameNotes
    <3> QED
      BY <3>1, GoodFrame
  <2> QED
    BY ONLY <2>1, <2>2, <2>3, <2>4, <2>6, PairsInv', ForgeInv, Frames
    DEF LedgerInv, PairsInv, Removal, Provide, Tell, Clear, Unbox, Retire,
        Purging
<1>6. ASSUME ProvisionFork
      PROVE  LedgerInv'
  <2>1. /\ cmd.verb \in {"create", "attach", "box"} /\ cmd.pc = "pv_fork"
        /\ cmd'.pc = "pv_token" /\ cmd'.verb = cmd.verb
        /\ cmd'.who = cmd.who /\ cmd'.repo = cmd.repo
        /\ cmd'.todo = cmd.todo /\ C \in Accounts /\ R \in Repos
        /\ C \in forge.users /\ forge'.users = forge.users
        /\ forge'.fork = [forge.fork EXCEPT
                            ![C] = [forge.fork[C] EXCEPT ![R] = "live"]]
        /\ SameRows /\ SameTokens /\ SameNotes /\ place' = place
        /\ torn' = torn /\ aim' = aim
    BY <1>6, HasTypes, HasNames, VerbOf
    DEF ProvisionFork, Ask, Go, SameRows, SameTokens, SameNotes, Provide
  <2>2. Begun'
    BY <2>1, VerbOf
    DEF ForgeInv, LedgerInv, Begun, StepsOf, Idle, Removal, Provide, Tell,
        Clear, Unbox, Retire, Purging
  <2>3. Provisions'
    BY <2>1, HasTypes
    DEF ForgeInv, LedgerInv, Provisions, Provide, SameRows, SameForks,
        SameTokens, SameNotes, Row, Tale, RowsOf, Stands, IsBox, Home
  <2>4. ForksOwned'
    BY <2>1, HasTypes
    DEF ForgeInv, LedgerInv, SameRows, SameForks, SameTokens, SameNotes,
        ForksOwned, Bare
  <2>7. OthersGood'
    <3>1. ASSUME NEW a \in Accounts \ (torn' \cup Hand')
          PROVE  a \notin torn \cup Hand /\ SameFor(a)
      <4>1. a # C /\ a \notin torn \cup Hand
        BY <3>1, <2>1 DEF Hand
      <4> QED
        BY <4>1, <2>1, HasTypes
        DEF SameFor, RowsOf, Stands, SameRows, SameForks, SameTokens,
            SameNotes
    <3> QED
      BY <3>1, GoodFrame
  <2> QED
    BY ONLY <2>1, <2>2, <2>3, <2>4, <2>7, PairsInv', ForgeInv, Frames
    DEF LedgerInv, PairsInv, Removal, Provide, Tell, Clear, Unbox, Retire,
        Purging
<1>7. ASSUME ProvisionToken
      PROVE  LedgerInv'
  <2>1. /\ cmd.verb \in {"create", "attach", "box"} /\ cmd.pc = "pv_token"
        /\ cmd'.pc = "pv_record" /\ cmd'.verb = cmd.verb
        /\ cmd'.who = cmd.who /\ cmd'.repo = cmd.repo
        /\ cmd'.todo = cmd.todo /\ C \in Accounts /\ R \in Repos
        /\ host'.token[C] = (IF host.token[C] = "none" THEN "good"
                             ELSE host.token[C])
        /\ \A a \in Accounts \ {C} : host'.token[a] = host.token[a]
        /\ SameRows /\ SameForks /\ SameNotes /\ place' = place
        /\ torn' = torn /\ aim' = aim
    BY <1>7, HasTypes, HasNames, VerbOf
    DEF ProvisionToken, Go, SameRows, SameForks, SameNotes, Provide
  <2>2. Begun'
    BY <2>1, VerbOf
    DEF ForgeInv, LedgerInv, Begun, StepsOf, Idle, Removal, Provide, Tell,
        Clear, Unbox, Retire, Purging
  <2>3. DeadTold'
    BY <2>1, HasTypes
    DEF ForgeInv, LedgerInv, SameRows, SameForks, SameTokens, SameNotes,
        DeadTold, Clear
  <2>4. Provisions'
    <3>1. host'.token[C] # "none"
      BY <2>1, HasTypes
    <3> QED
      BY <2>1, <3>1, HasTypes
      DEF ForgeInv, LedgerInv, Provisions, Provide, SameRows, SameForks,
          RowsOf, Tale, Stands
  <2>5. OthersGood'
    <3>1. ASSUME NEW a \in Accounts \ (torn' \cup Hand')
          PROVE  a \notin torn \cup Hand /\ SameFor(a)
      <4>1. a # C /\ a \notin torn \cup Hand
        BY <3>1, <2>1 DEF Hand
      <4> QED
        BY <4>1, <2>1, HasTypes
        DEF SameFor, RowsOf, Stands, SameRows, SameForks, SameTokens,
            SameNotes
    <3> QED
      BY <3>1, GoodFrame
  <2> QED
    BY ONLY <2>1, <2>2, <2>3, <2>4, <2>5, PairsInv', ForgeInv, Frames
    DEF LedgerInv, PairsInv, Removal, Provide, Tell, Clear, Unbox, Retire,
        Purging
<1>8. ASSUME ProvisionRecord
      PROVE  LedgerInv'
  <2>1. /\ cmd.verb \in {"create", "attach", "box"} /\ cmd.pc = "pv_record"
        /\ cmd'.pc = "pv_stage" /\ cmd'.verb = cmd.verb
        /\ cmd'.who = cmd.who /\ cmd'.repo = cmd.repo
        /\ cmd'.todo = cmd.todo /\ C \in Accounts /\ R \in Repos
        /\ host'.rows = host.rows \cup {Row(C, R)} /\ SameTokens
        /\ SameForks /\ SameNotes /\ place' = place /\ torn' = torn
        /\ aim' = aim
    BY <1>8, HasTypes, HasNames, VerbOf
    DEF ProvisionRecord, Go, SameTokens, SameForks, SameNotes, Provide
  <2>2. Begun'
    BY <2>1, VerbOf
    DEF ForgeInv, LedgerInv, Begun, StepsOf, Idle, Removal, Provide, Tell,
        Clear, Unbox, Retire, Purging
  <2>3. FiniteRows'
    BY <2>1, FS_AddElement DEF ForgeInv, LedgerInv, FiniteRows
  <2>5. DeadTold'
    BY <2>1, HasTypes
    DEF ForgeInv, LedgerInv, SameRows, SameForks, SameTokens, SameNotes,
        DeadTold, Clear, Tale, Row
  <2>6. Provisions'
    BY <2>1, HasTypes
    DEF ForgeInv, LedgerInv, Provisions, Provide, SameRows, SameForks,
        SameTokens, SameNotes, Row, Tale, RowsOf, Stands, IsBox, Home
  <2>7. OthersGood'
    <3>1. ASSUME NEW a \in Accounts \ (torn' \cup Hand')
          PROVE  a \notin torn \cup Hand /\ SameFor(a)
      <4>1. a # C /\ a \notin torn \cup Hand
        BY <3>1, <2>1 DEF Hand
      <4> QED
        BY <4>1, <2>1, HasTypes
        DEF SameFor, RowsOf, Stands, SameRows, SameForks, SameTokens,
            SameNotes, Row
    <3> QED
      BY <3>1, GoodFrame
  <2> QED
    BY ONLY <2>1, <2>2, <2>3, <2>5, <2>6, <2>7, PairsInv', ForgeInv, Frames
    DEF LedgerInv, PairsInv, Removal, Provide, Tell, Clear, Unbox, Retire,
        Purging
<1>9. ASSUME ProvisionStage
      PROVE  LedgerInv'
  <2>1. /\ cmd.verb \in {"create", "attach", "box"} /\ cmd.pc = "pv_stage"
        /\ cmd.todo = {} /\ C \in Accounts /\ R \in Repos
        /\ \A a \in Accounts :
              a \in place'.staged <=>
                \/ a \in place.staged
                \/ /\ Home(C) \in place.up /\ Home(a) = Home(C)
                   /\ host.token[a] # "none" /\ RowsOf(a) # {}
        /\ place'.up = place.up /\ place'.box = place.box
        /\ \/ /\ cmd.verb = "box" /\ torn' = torn /\ cmd'.pc = "bx_run"
              /\ cmd'.verb = cmd.verb
              /\ cmd'.who = cmd.who /\ cmd'.repo = cmd.repo
              /\ cmd'.todo = cmd.todo
           \/ /\ cmd.verb # "box" /\ cmd' = Idle /\ torn' = torn \ Healed
              /\ cmd'.pc = "idle" /\ cmd'.verb = "none" /\ cmd'.todo = {}
              /\ cmd'.who = Nobody
        /\ SameRows /\ SameTokens /\ SameForks /\ SameNotes /\ aim' = aim
    <3>1. /\ cmd.verb \in {"create", "attach", "box"} /\ cmd.pc = "pv_stage"
          /\ C \in Accounts /\ R \in Repos
      BY <1>9, HasNames, VerbOf DEF ProvisionStage, Go, End, Provide
    <3>6. cmd.todo = {}
      BY <3>1 DEF ForgeInv, LedgerInv, Provisions, Provide
    <3>2. place' = Staged(host.rows, host.token, Home(C))
      BY <1>9 DEF ProvisionStage
    <3>3. /\ place'.up = place.up /\ place'.box = place.box
          /\ \A a \in Accounts :
                a \in place'.staged <=>
                  \/ a \in place.staged
                  \/ /\ Home(C) \in place.up /\ Home(a) = Home(C)
                     /\ host.token[a] # "none" /\ RowsOf(a) # {}
      BY <3>2, StagedIs
    <3>4. \/ /\ cmd.verb = "box" /\ torn' = torn
             /\ cmd' = [cmd EXCEPT !.pc = "bx_run"]
          \/ /\ cmd.verb # "box" /\ torn' = torn \ Healed /\ cmd' = Idle
      BY <1>9 DEF ProvisionStage, Go, End
    <3>5. SameRows /\ SameTokens /\ SameForks /\ SameNotes /\ aim' = aim
      BY <1>9 DEF ProvisionStage, SameRows, SameTokens, SameForks, SameNotes
    <3> QED
      BY <3>1, <3>3, <3>4, <3>5, <3>6, HasTypes DEF Idle
  <2>2. Begun'
    BY <2>1, VerbOf
    DEF ForgeInv, LedgerInv, Begun, StepsOf, Idle, Removal, Provide, Tell,
        Clear, Unbox, Retire, Purging
  <2>3. Provisions'
    BY <2>1, HasTypes
    DEF ForgeInv, LedgerInv, Provisions, Provide, SameRows, SameForks,
        SameTokens, SameNotes, Row, Tale, RowsOf, Stands, IsBox, Home
  <2>4. OthersGood'
    <3>1. ASSUME NEW a \in Accounts \ (torn' \cup Hand'), a # C
          PROVE  Good(a)'
      <4>1. a \notin torn /\ a \notin Hand
        BY <3>1, <2>1, HealedIs DEF Hand
      <4>2. Good(a)
        BY <4>1 DEF ForgeInv, LedgerInv, OthersGood
      <4> QED
        BY <3>1, <4>2, <2>1, HasTypes
        DEF SameRows, SameForks, SameTokens, SameNotes, Good, Clean, RowsOf,
            Stands, RowWorks, Live, IsBox
    <3>2. ASSUME NEW a \in Accounts \ (torn' \cup Hand'), a = C
          PROVE  Good(a)'
      <4>1. cmd.verb # "box" /\ torn' = torn \ Healed
        BY <2>1, <3>2 DEF Hand
      <4>2. /\ a \in forge.users /\ Home(a) \in place.up /\ ~IsBox(a)
            /\ forge.fork[a][R] = "live" /\ host.token[a] = "good"
            /\ Row(a, R) \in RowsOf(a)
        <5>1. /\ a \in forge.users /\ Home(a) \in place.up /\ a[2] = Own
              /\ ~IsBox(a) /\ forge.fork[a][R] = "live"
              /\ host.token[a] # "none" /\ Row(a, R) \in RowsOf(a)
          BY <2>1, <3>2, <4>1
          DEF ForgeInv, LedgerInv, Provisions, Provide, RowsOf, Row, IsBox
        <5>2. Tale(a) \notin host.rows
          BY <5>1 DEF ForgeInv, LedgerInv, TalesBare
        <5>3. host.token[a] # "dead"
          BY <2>1, <5>2 DEF ForgeInv, LedgerInv, DeadTold, Clear
        <5> QED
          BY <5>1, <5>3, HasTypes
      <4>3. RowsOf(a) = {Row(a, R)}
        <5>1. CASE a \in torn
          BY <2>1, <3>2, <4>1, <4>2, <5>1, HealedIs
        <5>2. CASE a \notin torn
          BY <2>1, <3>2, <4>2, <5>2
          DEF ForgeInv, LedgerInv, Provisions, Provide
        <5> QED
          BY <5>1, <5>2
      <4>4. PICK row \in {Row(a, R)} : RowsOf(a)' = {row}
        BY <2>1, <4>3 DEF RowsOf, SameRows
      <4>5. RowWorks(row)'
        BY <2>1, <4>2, <4>4, HasTypes
        DEF RowWorks, Row, Live, SameForks, SameTokens
      <4>6. Stands(a)'
        BY <2>1, <4>2 DEF Stands, IsBox
      <4> QED
        BY <4>4, <4>5, <4>6 DEF Good
    <3> QED
      BY <3>1, <3>2, GoodFrame
  <2> QED
    BY ONLY <2>1, <2>2, <2>3, <2>4, PairsInv', ForgeInv, Frames
    DEF LedgerInv, PairsInv, Removal, Provide, Tell, Clear, Unbox, Retire,
        Purging
<1> QED
  BY <1>1, <1>2, <1>3, <1>4, <1>5, <1>6, <1>7, <1>8, <1>9 DEF ProvisionStep

-----------------------------------------------------------------------------
(* A history account, from its notes repo to the stage, and the way back   *)
(* when anything fails.                                                    *)
LEMMA HistoryKeeps ==
    ASSUME ForgeInv, PairsInv', HistoryStep
    PROVE  LedgerInv'
<1> USE ForgeAssumption DEF C, R
<1>1. ASSUME NEW p \in Projects, NotesCreate(p)
      PROVE  LedgerInv'
  <2>1. /\ cmd = Idle /\ cmd.pc = "idle" /\ cmd.verb = "none"
        /\ cmd'.pc = "hs_repo" /\ cmd'.verb = "create"
        /\ cmd'.who = <<p, Notes>> /\ cmd'.repo = NoRepo /\ cmd'.todo = {}
        /\ p \notin place.up /\ <<p, Notes>> \in Accounts
        /\ Claim(<<p, Notes>>) /\ place'.up = place.up \cup {p}
        /\ place'.box = place.box /\ place'.staged = place.staged
        /\ SameRows /\ SameTokens /\ SameForks /\ SameNotes /\ torn' = torn
        /\ aim' = aim
    BY <1>1, HasTypes
    DEF NotesCreate, Free, Begin, Resume, SameRows, SameTokens, SameForks,
        SameNotes, Idle, Accounts
  <2>2. Begun'
    BY <2>1, VerbOf
    DEF ForgeInv, LedgerInv, Begun, StepsOf, Idle, Removal, Provide, Tell,
        Clear, Unbox, Retire, Purging
  <2>3. Chronicles'
    <3>1. Bare(<<p, Notes>>)
      <4>1. CASE <<p, Notes>> \in forge.users
        <5>1. Live(<<p, Notes>>) \cup Archived(<<p, Notes>>) = {}
          BY <2>1, <4>1 DEF Claim
        <5>2. ASSUME NEW q \in Repos
              PROVE  forge.fork[<<p, Notes>>][q] = "none"
          <6>1. forge.fork[<<p, Notes>>][q] \in {"none", "live", "archived"}
            BY <2>1, HasTypes
          <6>2. q \notin Live(<<p, Notes>>) /\ q \notin Archived(<<p, Notes>>)
            BY <5>1
          <6> QED
            BY <6>1, <6>2 DEF Live, Archived
        <5> QED
          BY <5>2 DEF Bare
      <4>2. CASE <<p, Notes>> \notin forge.users
        BY <2>1, <4>2 DEF ForgeInv, LedgerInv, ForksOwned
      <4> QED
        BY <4>1, <4>2
    <3>2. <<p, Notes>> \in torn \/ host.token[<<p, Notes>>] = "none"
      <4>1. <<p, Notes>> \in torn \/ Good(<<p, Notes>>)
        BY <2>1 DEF ForgeInv, LedgerInv, OthersGood, Hand
      <4>2. ~Stands(<<p, Notes>>)
        BY <2>1 DEF Stands, IsBox, Home
      <4> QED
        BY <4>1, <4>2 DEF Good, Clean
    <3>3. <<p, Notes>>[2] # Own /\ (IsBox(<<p, Notes>>) <=> cmd'.verb = "notes")
      BY <2>1 DEF IsBox
    <3>4. Bare(<<p, Notes>>)'
      BY <2>1, <3>1 DEF Bare, SameForks
    <3>5. cmd'.verb = "create" => Home(<<p, Notes>>) \in place'.up
      BY <2>1 DEF Home
    <3> QED
      BY <2>1, <3>2, <3>3, <3>4, <3>5
      DEF Chronicles, Tell, Clear, SameTokens, Bare, IsBox
  <2>4. OthersGood'
    <3>1. ASSUME NEW a \in Accounts \ (torn' \cup Hand')
          PROVE  Good(a)'
      <4>1. Good(a)
        BY <3>1, <2>1, VerbOf DEF ForgeInv, LedgerInv, OthersGood, Hand
      <4> QED
        BY <4>1, <2>1, HasTypes
        DEF ForgeInv, LedgerInv, SameRows, SameForks, SameTokens, SameNotes,
            Good, Clean, RowsOf, Stands, RowWorks, Live, IsBox, Home
    <3> QED
      BY <3>1, GoodFrame
  <2> QED
    BY ONLY <2>1, <2>2, <2>3, <2>4, PairsInv', ForgeInv, Frames
    DEF LedgerInv, PairsInv, Removal, Provide, Tell, Clear, Unbox, Retire,
        Purging
<1>2. ASSUME NEW x \in Accounts, NotesBoxAdd(x)
      PROVE  LedgerInv'
  <2>1. /\ cmd = Idle /\ cmd.pc = "idle" /\ cmd.verb = "none"
        /\ cmd'.pc = "hs_repo" /\ cmd'.verb = "notes" /\ cmd'.who = x
        /\ cmd'.repo = NoRepo /\ cmd'.todo = {} /\ IsBox(x)
        /\ "tales" \in aim /\ ~Stands(x) /\ Claim(x) /\ SameRows
        /\ SameTokens /\ SameForks /\ SameNotes /\ place' = place
        /\ torn' = torn /\ aim' = aim
    BY <1>2, HasTypes
    DEF NotesBoxAdd, Begin, Resume, SameRows, SameTokens, SameForks,
        SameNotes, Idle
  <2>2. Begun'
    BY <2>1, VerbOf
    DEF ForgeInv, LedgerInv, Begun, StepsOf, Idle, Removal, Provide, Tell,
        Clear, Unbox, Retire, Purging
  <2>3. Chronicles'
    <3>1. Bare(x)
      <4>1. CASE x \in forge.users
        <5>1. Live(x) \cup Archived(x) = {}
          BY <2>1, <4>1 DEF Claim
        <5>2. ASSUME NEW q \in Repos
              PROVE  forge.fork[x][q] = "none"
          <6>1. forge.fork[x][q] \in {"none", "live", "archived"}
            BY <2>1, HasTypes
          <6>2. q \notin Live(x) /\ q \notin Archived(x)
            BY <5>1
          <6> QED
            BY <6>1, <6>2 DEF Live, Archived
        <5> QED
          BY <5>2 DEF Bare
      <4>2. CASE x \notin forge.users
        BY <2>1, <4>2 DEF ForgeInv, LedgerInv, ForksOwned
      <4> QED
        BY <4>1, <4>2
    <3>2. x \in torn \/ host.token[x] = "none"
      <4>1. x \in torn \/ Good(x)
        BY <2>1 DEF ForgeInv, LedgerInv, OthersGood, Hand
      <4>2. ~Stands(x)
        BY <2>1 DEF Stands, IsBox, Home
      <4> QED
        BY <4>1, <4>2 DEF Good, Clean
    <3>3. x[2] # Own /\ (IsBox(x) <=> cmd'.verb = "notes")
      BY <2>1 DEF IsBox
    <3>4. Bare(x)'
      BY <2>1, <3>1 DEF Bare, SameForks
    <3>5. cmd'.verb = "create" => Home(x) \in place'.up
      BY <2>1 DEF Home
    <3> QED
      BY <2>1, <3>2, <3>3, <3>4, <3>5
      DEF Chronicles, Tell, Clear, SameTokens, Bare, IsBox
  <2>4. OthersGood'
    BY <2>1, VerbOf, QuietFrame DEF Hand, Removal
  <2> QED
    BY ONLY <2>1, <2>2, <2>3, <2>4, PairsInv', ForgeInv, Frames
    DEF LedgerInv, PairsInv, Removal, Provide, Tell, Clear, Unbox, Retire,
        Purging
<1>3. ASSUME HistoryRepo
      PROVE  LedgerInv'
  <2>1. /\ cmd.verb \in {"create", "notes"} /\ cmd.pc = "hs_repo"
        /\ cmd'.pc = "hs_user" /\ cmd'.verb = cmd.verb /\ cmd'.who = cmd.who
        /\ cmd'.repo = cmd.repo /\ cmd'.todo = cmd.todo /\ C \in Accounts
        /\ forge'.notes = [forge.notes EXCEPT ![C] = "live"] /\ SameRows
        /\ SameTokens /\ SameForks /\ place' = place /\ torn' = torn
        /\ aim' = aim
    BY <1>3, HasTypes, HasNames, VerbOf
    DEF HistoryRepo, Ask, Go, SameRows, SameTokens, SameForks, Tell
  <2>2. Begun'
    BY <2>1, VerbOf
    DEF ForgeInv, LedgerInv, Begun, StepsOf, Idle, Removal, Provide, Tell,
        Clear, Unbox, Retire, Purging
  <2>3. Chronicles'
    BY <2>1, HasTypes
    DEF ForgeInv, LedgerInv, Chronicles, Tell, Clear, SameRows, SameForks,
        SameTokens, SameNotes, Tale, RowsOf, Bare, IsBox, Home, Clean
  <2>4. OthersGood'
    <3>1. ASSUME NEW a \in Accounts \ (torn' \cup Hand')
          PROVE  a \notin torn \cup Hand /\ SameFor(a)
      <4>1. a # C /\ a \notin torn \cup Hand
        BY <3>1, <2>1 DEF Hand
      <4> QED
        BY <4>1, <2>1, HasTypes
        DEF SameFor, RowsOf, Stands, SameRows, SameForks, SameTokens,
            SameNotes
    <3> QED
      BY <3>1, GoodFrame
  <2> QED
    BY ONLY <2>1, <2>2, <2>3, <2>4, PairsInv', ForgeInv, Frames
    DEF LedgerInv, PairsInv, Removal, Provide, Tell, Clear, Unbox, Retire,
        Purging
<1>4. ASSUME HistoryUser
      PROVE  LedgerInv'
  <2>1. /\ cmd.verb \in {"create", "notes"} /\ cmd.pc = "hs_user"
        /\ cmd'.pc = "hs_token" /\ cmd'.verb = cmd.verb
        /\ cmd'.who = cmd.who /\ cmd'.repo = cmd.repo
        /\ cmd'.todo = cmd.todo /\ C \in Accounts
        /\ forge'.users = forge.users \cup {C}
        /\ \A r \in Repos : forge'.fork[C][r] = "none"
        /\ \A a \in Accounts \ {C} : forge'.fork[a] = forge.fork[a]
        /\ host'.token[C] = (IF host.token[C] = "good" THEN "dead"
                             ELSE host.token[C])
        /\ \A a \in Accounts \ {C} : host'.token[a] = host.token[a]
        /\ SameRows /\ SameNotes /\ place' = place /\ torn' = torn
        /\ aim' = aim
    <3>1. cmd.verb \in {"create", "notes"} /\ C \in Accounts
      BY <1>4, HasNames, VerbOf DEF HistoryUser, Ask, Go, Tell
    <3> DEFINE f == Unuser(forge, C)
    <3>2. forge' = [f EXCEPT !.users = f.users \cup {C}]
      BY <1>4 DEF HistoryUser
    <3>3. /\ f.users = forge.users \ {C} /\ f.notes = forge.notes
          /\ f.fork = [forge.fork EXCEPT ![C] = [r \in Repos |-> "none"]]
          /\ DOMAIN f = DOMAIN forge
      BY HasTypes DEF Unuser
    <3>4. /\ forge'.users = f.users \cup {C} /\ forge'.notes = f.notes
          /\ forge'.fork = f.fork
      BY <3>2, <3>3, HasTypes
    <3> HIDE DEF f
    <3>5. host' = Stale(host, C)
      BY <1>4 DEF HistoryUser
    <3>6. /\ host'.rows = host.rows
          /\ host'.token[C] = (IF host.token[C] = "good" THEN "dead"
                               ELSE host.token[C])
          /\ \A a \in Accounts \ {C} : host'.token[a] = host.token[a]
      BY <3>1, <3>5, HasTypes DEF Stale
    <3>7. /\ cmd.pc = "hs_user" /\ cmd' = [cmd EXCEPT !.pc = "hs_token"]
          /\ place' = place /\ torn' = torn /\ aim' = aim
      BY <1>4 DEF HistoryUser, Ask, Go
    <3>8. /\ cmd'.pc = "hs_token" /\ cmd'.verb = cmd.verb
          /\ cmd'.who = cmd.who /\ cmd'.repo = cmd.repo
          /\ cmd'.todo = cmd.todo
      BY <3>7, HasTypes
    <3>9. /\ forge'.users = forge.users \cup {C}
          /\ \A r \in Repos : forge'.fork[C][r] = "none"
          /\ \A a \in Accounts \ {C} : forge'.fork[a] = forge.fork[a]
      BY <3>1, <3>3, <3>4, HasTypes
    <3>10. SameRows /\ SameNotes
      BY <3>3, <3>4, <3>6 DEF SameRows, SameNotes
    <3> QED
      BY <3>1, <3>6, <3>7, <3>8, <3>9, <3>10
  <2>2. Begun'
    BY <2>1, VerbOf
    DEF ForgeInv, LedgerInv, Begun, StepsOf, Idle, Removal, Provide, Tell,
        Clear, Unbox, Retire, Purging
  <2>3. Chronicles'
    BY <2>1, HasTypes
    DEF ForgeInv, LedgerInv, Chronicles, Tell, Clear, SameRows, SameForks,
        SameTokens, SameNotes, Tale, RowsOf, Bare, IsBox, Home, Clean
  <2>4. ForksOwned'
    BY <2>1, HasTypes
    DEF ForgeInv, LedgerInv, SameRows, SameForks, SameTokens, SameNotes,
        ForksOwned, Bare
  <2>6. DeadTold'
    BY <2>1, HasTypes
    DEF ForgeInv, LedgerInv, SameRows, SameForks, SameTokens, SameNotes,
        DeadTold, Tell, Clear
  <2>7. OthersGood'
    <3>1. ASSUME NEW a \in Accounts \ (torn' \cup Hand')
          PROVE  a \notin torn \cup Hand /\ SameFor(a)
      <4>1. a # C /\ a \notin torn \cup Hand
        BY <3>1, <2>1 DEF Hand
      <4> QED
        BY <4>1, <2>1, HasTypes
        DEF SameFor, RowsOf, Stands, SameRows, SameForks, SameTokens,
            SameNotes
    <3> QED
      BY <3>1, GoodFrame
  <2> QED
    BY ONLY <2>1, <2>2, <2>3, <2>4, <2>6, <2>7, PairsInv', ForgeInv, Frames
    DEF LedgerInv, PairsInv, Removal, Provide, Tell, Clear, Unbox, Retire,
        Purging
<1>5. ASSUME HistoryToken
      PROVE  LedgerInv'
  <2>1. /\ cmd.verb \in {"create", "notes"} /\ cmd.pc = "hs_token"
        /\ cmd'.pc = "hs_record" /\ cmd'.verb = cmd.verb
        /\ cmd'.who = cmd.who /\ cmd'.repo = cmd.repo
        /\ cmd'.todo = cmd.todo /\ C \in Accounts
        /\ host'.token = [host.token EXCEPT ![C] = "good"] /\ SameRows
        /\ SameForks /\ SameNotes /\ place' = place /\ torn' = torn
        /\ aim' = aim
    BY <1>5, HasTypes, HasNames, VerbOf
    DEF HistoryToken, Ask, Go, SameRows, SameForks, SameNotes, Tell
  <2>2. Begun'
    BY <2>1, VerbOf
    DEF ForgeInv, LedgerInv, Begun, StepsOf, Idle, Removal, Provide, Tell,
        Clear, Unbox, Retire, Purging
  <2>3. Chronicles'
    BY <2>1, HasTypes
    DEF ForgeInv, LedgerInv, Chronicles, Tell, Clear, SameRows, SameForks,
        SameTokens, SameNotes, Tale, RowsOf, Bare, IsBox, Home, Clean
  <2>4. DeadTold'
    BY <2>1, HasTypes
    DEF ForgeInv, LedgerInv, SameRows, SameForks, SameTokens, SameNotes,
        DeadTold, Clear
  <2>5. OthersGood'
    <3>1. ASSUME NEW a \in Accounts \ (torn' \cup Hand')
          PROVE  a \notin torn \cup Hand /\ SameFor(a)
      <4>1. a # C /\ a \notin torn \cup Hand
        BY <3>1, <2>1 DEF Hand
      <4> QED
        BY <4>1, <2>1, HasTypes
        DEF SameFor, RowsOf, Stands, SameRows, SameForks, SameTokens,
            SameNotes
    <3> QED
      BY <3>1, GoodFrame
  <2> QED
    BY ONLY <2>1, <2>2, <2>3, <2>4, <2>5, PairsInv', ForgeInv, Frames
    DEF LedgerInv, PairsInv, Removal, Provide, Tell, Clear, Unbox, Retire,
        Purging
<1>6. ASSUME HistoryRecord
      PROVE  LedgerInv'
  <2>1. /\ cmd.verb \in {"create", "notes"} /\ cmd.pc = "hs_record"
        /\ cmd'.pc = "hs_stage" /\ cmd'.verb = cmd.verb
        /\ cmd'.who = cmd.who /\ cmd'.repo = cmd.repo
        /\ cmd'.todo = cmd.todo /\ C \in Accounts
        /\ host'.rows = host.rows \cup {Tale(C)} /\ SameTokens /\ SameForks
        /\ SameNotes /\ place' = place /\ torn' = torn /\ aim' = aim
    BY <1>6, HasTypes, HasNames, VerbOf
    DEF HistoryRecord, Go, SameTokens, SameForks, SameNotes, Tell
  <2>2. Begun'
    BY <2>1, VerbOf
    DEF ForgeInv, LedgerInv, Begun, StepsOf, Idle, Removal, Provide, Tell,
        Clear, Unbox, Retire, Purging
  <2>3. Chronicles'
    BY <2>1, HasTypes
    DEF ForgeInv, LedgerInv, Chronicles, Tell, Clear, SameRows, SameForks,
        SameTokens, SameNotes, Tale, RowsOf, Bare, IsBox, Home, Clean
  <2>4. FiniteRows'
    BY <2>1, FS_AddElement DEF ForgeInv, LedgerInv, FiniteRows
  <2>6. DeadTold'
    BY <2>1, HasTypes
    DEF ForgeInv, LedgerInv, SameRows, SameForks, SameTokens, SameNotes,
        DeadTold, Clear, Tale
  <2>7. OthersGood'
    <3>1. ASSUME NEW a \in Accounts \ (torn' \cup Hand')
          PROVE  a \notin torn \cup Hand /\ SameFor(a)
      <4>1. a # C /\ a \notin torn \cup Hand
        BY <3>1, <2>1 DEF Hand
      <4> QED
        BY <4>1, <2>1, HasTypes
        DEF SameFor, RowsOf, Stands, SameRows, SameForks, SameTokens,
            SameNotes, Tale
    <3> QED
      BY <3>1, GoodFrame
  <2> QED
    BY ONLY <2>1, <2>2, <2>3, <2>4, <2>6, <2>7, PairsInv', ForgeInv, Frames
    DEF LedgerInv, PairsInv, Removal, Provide, Tell, Clear, Unbox, Retire,
        Purging
<1>7. ASSUME HistoryStage
      PROVE  LedgerInv'
  <2>1. /\ cmd.verb \in {"create", "notes"} /\ cmd.pc = "hs_stage"
        /\ cmd.todo = {} /\ C \in Accounts
        /\ \A a \in Accounts :
              a \in place'.staged <=>
                \/ a \in place.staged
                \/ /\ Home(C) \in place.up /\ Home(a) = Home(C)
                   /\ host.token[a] # "none" /\ RowsOf(a) # {}
        /\ place'.up = place.up /\ place'.box = place.box
        /\ \/ /\ IsBox(C) /\ torn' = torn /\ cmd'.pc = "bx_note"
              /\ cmd'.verb = cmd.verb
              /\ cmd'.who = cmd.who /\ cmd'.repo = cmd.repo
              /\ cmd'.todo = cmd.todo
           \/ /\ ~IsBox(C) /\ cmd' = Idle /\ torn' = torn \ Healed
              /\ cmd'.pc = "idle" /\ cmd'.verb = "none" /\ cmd'.todo = {}
              /\ cmd'.who = Nobody
        /\ SameRows /\ SameTokens /\ SameForks /\ SameNotes /\ aim' = aim
    <3>1. /\ cmd.verb \in {"create", "notes"} /\ cmd.pc = "hs_stage"
          /\ C \in Accounts
      BY <1>7, HasNames, VerbOf DEF HistoryStage, Go, End, Tell
    <3>2. cmd.todo = {}
      BY <3>1 DEF ForgeInv, LedgerInv, Chronicles, Tell
    <3>3. place' = Staged(host.rows, host.token, Home(C))
      BY <1>7 DEF HistoryStage
    <3>4. /\ place'.up = place.up /\ place'.box = place.box
          /\ \A a \in Accounts :
                a \in place'.staged <=>
                  \/ a \in place.staged
                  \/ /\ Home(C) \in place.up /\ Home(a) = Home(C)
                     /\ host.token[a] # "none" /\ RowsOf(a) # {}
      BY <3>3, StagedIs
    <3>5. \/ /\ IsBox(C) /\ torn' = torn
             /\ cmd' = [cmd EXCEPT !.pc = "bx_note"]
          \/ /\ ~IsBox(C) /\ torn' = torn \ Healed /\ cmd' = Idle
      BY <1>7 DEF HistoryStage, Go, End
    <3>6. SameRows /\ SameTokens /\ SameForks /\ SameNotes /\ aim' = aim
      BY <1>7 DEF HistoryStage, SameRows, SameTokens, SameForks, SameNotes
    <3>7. \/ /\ IsBox(C) /\ torn' = torn /\ cmd'.pc = "bx_note"
                /\ cmd'.verb = cmd.verb /\ cmd'.who = cmd.who
                /\ cmd'.repo = cmd.repo /\ cmd'.todo = cmd.todo
             \/ /\ ~IsBox(C) /\ cmd' = Idle /\ torn' = torn \ Healed
                /\ cmd'.pc = "idle" /\ cmd'.verb = "none"
                /\ cmd'.todo = {} /\ cmd'.who = Nobody
      BY <3>5, HasTypes DEF Idle
    <3> QED
      BY <3>1, <3>2, <3>4, <3>6, <3>7
  <2>2. Begun'
    <3>1. IsBox(C) <=> cmd.verb = "notes"
      BY <2>1 DEF ForgeInv, LedgerInv, Chronicles, Tell
    <3> QED
      BY <2>1, <3>1, VerbOf, HealedIs
      DEF ForgeInv, LedgerInv, Begun, StepsOf, Idle, Removal, Provide, Tell,
          Clear, Unbox, Retire, Purging
  <2>3. Chronicles'
    BY <2>1, HasTypes
    DEF ForgeInv, LedgerInv, Chronicles, Tell, Clear, SameRows, SameForks,
        SameTokens, SameNotes, Tale, RowsOf, Bare, IsBox, Home, Clean
  <2>4. OthersGood'
    <3>1. ASSUME NEW a \in Accounts \ (torn' \cup Hand'), a # C
          PROVE  Good(a)'
      <4>1. a \notin torn /\ a \notin Hand
        BY <3>1, <2>1, HealedIs DEF Hand
      <4>2. Good(a)
        BY <4>1 DEF ForgeInv, LedgerInv, OthersGood
      <4> QED
        BY <3>1, <4>2, <2>1, HasTypes
        DEF SameRows, SameForks, SameTokens, SameNotes, Good, Clean, RowsOf,
            Stands, RowWorks, Live, IsBox
    <3>2. ASSUME NEW a \in Accounts \ (torn' \cup Hand'), a = C
          PROVE  Good(a)'
      <4>1. ~IsBox(C) /\ torn' = torn \ Healed
        BY <2>1, <3>2 DEF Hand
      <4>2. /\ a \in forge.users /\ Home(a) \in place.up /\ ~IsBox(a)
            /\ forge.notes[a] = "live" /\ host.token[a] = "good"
            /\ Tale(a) \in RowsOf(a) /\ Bare(a)
        BY <2>1, <3>2, <4>1
        DEF ForgeInv, LedgerInv, Chronicles, Tell, RowsOf, Tale, IsBox
      <4>3. RowsOf(a) = {Tale(a)}
        BY <2>1, <4>2, BareRows DEF Wiped
      <4>4. PICK row \in {Tale(a)} : RowsOf(a)' = {row}
        BY <2>1, <4>3 DEF RowsOf, SameRows
      <4>5. RowWorks(row)'
        BY <2>1, <4>2, <4>4, HasTypes
        DEF RowWorks, Tale, SameForks, SameNotes, SameTokens
      <4>6. Stands(a)'
        BY <2>1, <4>2 DEF Stands, IsBox
      <4> QED
        BY <4>4, <4>5, <4>6 DEF Good
    <3> QED
      BY <3>1, <3>2, GoodFrame
  <2> QED
    BY ONLY <2>1, <2>2, <2>3, <2>4, PairsInv', ForgeInv, Frames
    DEF LedgerInv, PairsInv, Removal, Provide, Tell, Clear, Unbox, Retire,
        Purging
<1>8. ASSUME HistoryFails
      PROVE  LedgerInv'
  <2>1. /\ cmd.verb \in {"create", "notes"}
        /\ cmd.pc \in {"hs_repo", "hs_user", "hs_token", "hs_stage"}
        /\ cmd'.pc = "hc_row" /\ cmd'.verb = cmd.verb /\ cmd'.who = cmd.who
        /\ cmd'.repo = cmd.repo /\ cmd'.todo = cmd.todo /\ SameRows
        /\ SameTokens /\ SameForks /\ SameNotes /\ place' = place
        /\ torn' = torn /\ aim' = aim
    BY <1>8, HasTypes, VerbOf
    DEF HistoryFails, SameRows, SameTokens, SameForks, SameNotes, Tell
  <2>2. Begun'
    BY <2>1, VerbOf
    DEF ForgeInv, LedgerInv, Begun, StepsOf, Idle, Removal, Provide, Tell,
        Clear, Unbox, Retire, Purging
  <2>3. Chronicles'
    BY <2>1, HasTypes
    DEF ForgeInv, LedgerInv, Chronicles, Tell, Clear, SameRows, SameForks,
        SameTokens, SameNotes, Tale, RowsOf, Bare, IsBox, Home, Clean
  <2>4. DeadTold'
    BY <2>1, HasTypes
    DEF ForgeInv, LedgerInv, SameRows, SameForks, SameTokens, SameNotes,
        DeadTold, Clear
  <2>5. OthersGood'
    BY <2>1, VerbOf, QuietFrame DEF Hand, Removal
  <2> QED
    BY ONLY <2>1, <2>2, <2>3, <2>4, <2>5, PairsInv', ForgeInv, Frames
    DEF LedgerInv, PairsInv, Removal, Provide, Tell, Clear, Unbox, Retire,
        Purging
<1>9. ASSUME NotesBoxFails
      PROVE  LedgerInv'
  <2>1. /\ cmd.verb = "notes" /\ cmd.pc = "bx_note" /\ cmd'.pc = "hc_row"
        /\ cmd'.verb = "notesfail" /\ cmd'.who = cmd.who
        /\ cmd'.repo = cmd.repo /\ cmd'.todo = cmd.todo /\ SameRows
        /\ SameTokens /\ SameForks /\ SameNotes /\ place' = place
        /\ torn' = torn /\ aim' = aim
    BY <1>9, HasTypes, VerbOf, VerbOf
    DEF NotesBoxFails, SameRows, SameTokens, SameForks, SameNotes
  <2>2. Begun'
    BY <2>1, VerbOf
    DEF ForgeInv, LedgerInv, Begun, StepsOf, Idle, Removal, Provide, Tell,
        Clear, Unbox, Retire, Purging
  <2>3. Chronicles'
    BY <2>1, HasTypes
    DEF ForgeInv, LedgerInv, Chronicles, Tell, Clear, SameRows, SameForks,
        SameTokens, SameNotes, Tale, RowsOf, Bare, IsBox, Home, Clean
  <2>4. OthersGood'
    BY <2>1, VerbOf, QuietFrame DEF Hand, Removal
  <2> QED
    BY ONLY <2>1, <2>2, <2>3, <2>4, PairsInv', ForgeInv, Frames
    DEF LedgerInv, PairsInv, Removal, Provide, Tell, Clear, Unbox, Retire,
        Purging
<1>10. ASSUME CleanRow
      PROVE  LedgerInv'
  <2>1. /\ cmd.verb \in {"create", "notes", "notesfail"}
        /\ cmd.pc = "hc_row" /\ cmd'.pc = "hc_token" /\ cmd'.verb = cmd.verb
        /\ cmd'.who = cmd.who /\ cmd'.repo = cmd.repo
        /\ cmd'.todo = cmd.todo /\ C \in Accounts
        /\ host'.rows = host.rows \ {Tale(C)} /\ SameTokens /\ SameForks
        /\ SameNotes /\ place' = place /\ torn' = torn /\ aim' = aim
    BY <1>10, HasTypes, HasNames, VerbOf
    DEF CleanRow, Go, SameTokens, SameForks, SameNotes, Clear
  <2>2. Begun'
    BY <2>1, VerbOf
    DEF ForgeInv, LedgerInv, Begun, StepsOf, Idle, Removal, Provide, Tell,
        Clear, Unbox, Retire, Purging
  <2>3. Chronicles'
    BY <2>1, HasTypes
    DEF ForgeInv, LedgerInv, Chronicles, Tell, Clear, SameRows, SameForks,
        SameTokens, SameNotes, Tale, RowsOf, Bare, IsBox, Home, Clean
  <2>4. FiniteRows'
    BY <2>1, FS_Subset DEF ForgeInv, LedgerInv, FiniteRows
  <2>6. DeadTold'
    BY <2>1, HasTypes
    DEF ForgeInv, LedgerInv, SameRows, SameForks, SameTokens, SameNotes,
        DeadTold, Clear, Tale
  <2>7. OthersGood'
    <3>1. ASSUME NEW a \in Accounts \ (torn' \cup Hand')
          PROVE  a \notin torn \cup Hand /\ SameFor(a)
      <4>1. a # C /\ a \notin torn \cup Hand
        BY <3>1, <2>1 DEF Hand
      <4> QED
        BY <4>1, <2>1, HasTypes
        DEF SameFor, RowsOf, Stands, SameRows, SameForks, SameTokens,
            SameNotes, Tale
    <3> QED
      BY <3>1, GoodFrame
  <2> QED
    BY ONLY <2>1, <2>2, <2>3, <2>4, <2>6, <2>7, PairsInv', ForgeInv, Frames
    DEF LedgerInv, PairsInv, Removal, Provide, Tell, Clear, Unbox, Retire,
        Purging
<1>11. ASSUME CleanToken
      PROVE  LedgerInv'
  <2>1. /\ cmd.verb \in {"create", "notes", "notesfail"}
        /\ cmd.pc = "hc_token" /\ cmd.todo = {} /\ C \in Accounts
        /\ host'.token[C] = "none"
        /\ \A a \in Accounts \ {C} : host'.token[a] = host.token[a]
        /\ place'.up = place.up /\ place'.box = place.box
        /\ place'.staged = place.staged \ {C}
        /\ \/ /\ cmd.verb = "notes" /\ torn' = torn /\ cmd'.pc = "bx_bare"
              /\ cmd'.verb = cmd.verb
              /\ cmd'.who = cmd.who /\ cmd'.repo = cmd.repo
              /\ cmd'.todo = cmd.todo
           \/ /\ cmd.verb # "notes" /\ cmd' = Idle /\ torn' = torn \ {C}
              /\ cmd'.pc = "idle" /\ cmd'.verb = "none" /\ cmd'.todo = {}
              /\ cmd'.who = Nobody
        /\ SameRows /\ SameForks /\ SameNotes /\ aim' = aim
    <3>1. /\ cmd.verb \in {"create", "notes", "notesfail"}
          /\ cmd.pc = "hc_token" /\ C \in Accounts
      BY <1>11, HasNames, VerbOf DEF CleanToken, Clear
    <3>2. cmd.todo = {}
      BY <3>1 DEF ForgeInv, LedgerInv, Chronicles, Clear
    <3>3. /\ host'.rows = host.rows
          /\ host'.token = [a \in Accounts |-> IF a \in {C} THEN "none"
                                              ELSE host.token[a]]
      BY <1>11, HasTypes DEF CleanToken, Untoken
    <3>4. /\ place'.up = place.up /\ place'.box = place.box
          /\ place'.staged = place.staged \ {C}
      BY <1>11, UnstagedIs DEF CleanToken
    <3>5. \/ /\ cmd.verb = "notes" /\ torn' = torn
             /\ cmd' = [cmd EXCEPT !.pc = "bx_bare"]
          \/ /\ cmd.verb # "notes" /\ torn' = torn \ {C} /\ cmd' = Idle
      BY <1>11 DEF CleanToken, Go, End
    <3>6. SameForks /\ SameNotes /\ aim' = aim
      BY <1>11 DEF CleanToken, SameForks, SameNotes
    <3>7. \/ /\ cmd.verb = "notes" /\ torn' = torn /\ cmd'.pc = "bx_bare"
             /\ cmd'.verb = cmd.verb /\ cmd'.who = cmd.who
             /\ cmd'.repo = cmd.repo /\ cmd'.todo = cmd.todo
          \/ /\ cmd.verb # "notes" /\ cmd' = Idle /\ torn' = torn \ {C}
             /\ cmd'.pc = "idle" /\ cmd'.verb = "none"
             /\ cmd'.todo = {} /\ cmd'.who = Nobody
      BY <3>5, HasTypes DEF Idle
    <3>8. /\ host'.token[C] = "none" /\ SameRows
          /\ \A a \in Accounts \ {C} : host'.token[a] = host.token[a]
      BY <3>1, <3>3 DEF SameRows
    <3> QED
      BY <3>1, <3>2, <3>4, <3>6, <3>7, <3>8
  <2>2. Begun'
    BY <2>1, VerbOf
    DEF ForgeInv, LedgerInv, Begun, StepsOf, Idle, Removal, Provide, Tell,
        Clear, Unbox, Retire, Purging
  <2>3. DeadTold'
    BY <2>1, HasTypes
    DEF ForgeInv, LedgerInv, SameRows, SameForks, SameTokens, SameNotes,
        DeadTold, Clear
  <2>4. Chronicles'
    <3>1. Tale(C) \notin host.rows /\ Bare(C)
      BY <2>1 DEF ForgeInv, LedgerInv, Chronicles, Clear
    <3>2. RowsOf(C) = {}
      BY <2>1, <3>1, BareRows DEF Wiped
    <3> QED
      BY <2>1, <3>2, HasTypes
      DEF ForgeInv, LedgerInv, Chronicles, Tell, Clear, SameRows, SameForks,
          SameTokens, SameNotes, Tale, RowsOf, Bare, IsBox, Home, Clean
  <2>5. OthersGood'
    <3>1. ASSUME NEW a \in Accounts \ (torn' \cup Hand'), a # C
          PROVE  Good(a)'
      <4>1. a \notin torn /\ a \notin Hand
        BY <3>1, <2>1, HealedIs DEF Hand
      <4>2. Good(a)
        BY <4>1 DEF ForgeInv, LedgerInv, OthersGood
      <4> QED
        BY <3>1, <4>2, <2>1, HasTypes
        DEF SameRows, SameForks, SameTokens, SameNotes, Good, Clean, RowsOf,
            Stands, RowWorks, Live, IsBox
    <3>2. ASSUME NEW a \in Accounts \ (torn' \cup Hand'), a = C
          PROVE  Good(a)'
      <4>1. Tale(a) \notin host.rows /\ Bare(a)
        BY <2>1, <3>2 DEF ForgeInv, LedgerInv, Chronicles, Clear
      <4>2. RowsOf(a) = {}
        BY <2>1, <4>1, BareRows DEF Wiped
      <4>3. RowsOf(a)' = {}
        BY <2>1, <4>2 DEF RowsOf, SameRows
      <4>4. Clean(a)'
        BY <2>1, <3>2 DEF Clean
      <4> QED
        BY <4>3, <4>4 DEF Good
    <3> QED
      BY <3>1, <3>2, GoodFrame
  <2> QED
    BY ONLY <2>1, <2>2, <2>3, <2>4, <2>5, PairsInv', ForgeInv, Frames
    DEF LedgerInv, PairsInv, Removal, Provide, Tell, Clear, Unbox, Retire,
        Purging
<1> QED
  BY <1>1, <1>2, <1>3, <1>4, <1>5, <1>6, <1>7, <1>8, <1>9, <1>10, <1>11
  DEF HistoryStep

-----------------------------------------------------------------------------
(* A box starts, a command dies, a purge, a restart, the operator.  A      *)
(* purged account had no row, so it had no credential either unless it was *)
(* torn.                                                                   *)
LEMMA RestKeeps ==
    ASSUME ForgeInv, PairsInv', RestStep
    PROVE  LedgerInv'
<1> USE ForgeAssumption DEF C, R
<1>1. ASSUME CommandDies
      PROVE  LedgerInv'
  <2>1. /\ torn = {} /\ cmd.pc # "pg_token" /\ "lost" \notin aim
        /\ torn' = torn \cup cmd.todo \cup ({C} \cap Accounts)
        /\ cmd' = Idle /\ cmd'.pc = "idle" /\ cmd'.verb = "none"
        /\ cmd'.who = Nobody /\ cmd'.todo = {} /\ SameRows /\ SameTokens
        /\ SameForks /\ SameNotes /\ place' = place /\ aim' = aim
    BY <1>1, HasTypes
    DEF CommandDies, SameRows, SameTokens, SameForks, SameNotes, Idle
  <2>2. Begun'
    BY <2>1 DEF ForgeInv, LedgerInv, Begun, StepsOf
  <2>3. DeadTold'
    <3>1. ASSUME NEW a \in Accounts, host.token[a] = "dead"
          PROVE  Tale(a) \in host.rows
      <4>1. CASE C = a /\ cmd.pc \in {"pg_token", "hs_token"} \cup Clear
        <5>1. cmd.pc \in Tell \cup Clear
          BY <4>1, <2>1 DEF Tell
        <5> QED
          BY <3>1, <4>1, <5>1, <2>1 DEF ForgeInv, LedgerInv, Chronicles
      <4> QED
        BY <3>1, <4>1 DEF ForgeInv, LedgerInv, DeadTold
    <3> QED
      BY <2>1, <3>1 DEF DeadTold, SameRows, SameTokens
  <2>4. OthersGood'
    BY <2>1, HasTypes, QuietFrame DEF Hand
  <2> QED
    BY ONLY <2>1, <2>2, <2>3, <2>4, PairsInv', ForgeInv, Frames
    DEF LedgerInv, PairsInv, Removal, Provide, Tell, Clear, Unbox, Retire,
        Purging
<1>2. ASSUME NEW x \in Accounts, Purge(x)
      PROVE  LedgerInv'
  <2>1. /\ cmd = Idle /\ cmd.pc = "idle" /\ cmd.verb = "none"
        /\ cmd'.pc = "pg_user" /\ cmd'.verb = "purge" /\ cmd'.who = x
        /\ cmd'.repo = NoRepo /\ cmd'.todo = {} /\ RowsOf(x) = {}
        /\ Live(x) = {} /\ SameRows /\ SameTokens /\ SameForks /\ SameNotes
        /\ place' = place /\ torn' = torn /\ aim' = aim
    BY <1>2, HasTypes
    DEF Purge, Begin, Resume, SameRows, SameTokens, SameForks, SameNotes, Idle
  <2>2. Begun'
    BY <2>1, VerbOf
    DEF ForgeInv, LedgerInv, Begun, StepsOf, Idle, Removal, Provide, Tell,
        Clear, Unbox, Retire, Purging
  <2>3. Purges'
    BY <2>1 DEF Purges, Purging, RowsOf, Live, SameRows, SameForks
  <2>4. OthersGood'
    BY <2>1, VerbOf, QuietFrame DEF Hand, Removal
  <2> QED
    BY ONLY <2>1, <2>2, <2>3, <2>4, PairsInv', ForgeInv, Frames
    DEF LedgerInv, PairsInv, Removal, Provide, Tell, Clear, Unbox, Retire,
        Purging
<1>3. ASSUME PurgeUser
      PROVE  LedgerInv'
  <2>1. /\ cmd.verb = "purge" /\ cmd.pc = "pg_user" /\ cmd'.pc = "pg_token"
        /\ cmd'.verb = cmd.verb /\ cmd'.who = cmd.who
        /\ cmd'.repo = cmd.repo /\ cmd'.todo = cmd.todo /\ C \in Accounts
        /\ forge'.users = forge.users \ {C}
        /\ \A r \in Repos : forge'.fork[C][r] = "none"
        /\ \A a \in Accounts \ {C}, r \in Repos :
              forge'.fork[a][r] = forge.fork[a][r]
        /\ host'.token[C] = (IF host.token[C] = "good" THEN "dead"
                             ELSE host.token[C])
        /\ \A a \in Accounts \ {C} : host'.token[a] = host.token[a]
        /\ SameRows /\ SameNotes /\ place' = place /\ torn' = torn
        /\ aim' = aim
    <3>1. /\ C \in Accounts /\ cmd.verb = "purge" /\ cmd.pc = "pg_user"
          /\ forge' = Unuser(forge, C) /\ host' = Stale(host, C)
          /\ place' = place /\ torn' = torn /\ aim' = aim
      BY <1>3, HasNames, VerbOf DEF PurgeUser, Ask, Go, Purging
    <3>2. /\ forge'.users = forge.users \ {C} /\ forge'.notes = forge.notes
          /\ \A r \in Repos : forge'.fork[C][r] = "none"
          /\ \A a \in Accounts \ {C}, r \in Repos :
                forge'.fork[a][r] = forge.fork[a][r]
      BY <3>1, UnuserIs
    <3>3. /\ host'.rows = host.rows
          /\ host'.token[C] = (IF host.token[C] = "good" THEN "dead"
                               ELSE host.token[C])
          /\ \A a \in Accounts \ {C} : host'.token[a] = host.token[a]
      BY <3>1, HasTypes DEF Stale
    <3>4. /\ cmd'.pc = "pg_token" /\ cmd'.verb = cmd.verb
          /\ cmd'.who = cmd.who /\ cmd'.repo = cmd.repo
          /\ cmd'.todo = cmd.todo
      BY <1>3, HasTypes DEF PurgeUser, Ask, Go
    <3>5. SameRows /\ SameNotes
      BY <3>2, <3>3 DEF SameRows, SameNotes
    <3> QED
      BY <3>1, <3>2, <3>3, <3>4, <3>5
  <2>2. Begun'
    BY <2>1, VerbOf
    DEF ForgeInv, LedgerInv, Begun, StepsOf, Idle, Removal, Provide, Tell,
        Clear, Unbox, Retire, Purging
  <2>3. C \in torn \/ host.token[C] = "none"
    <3>1. RowsOf(C) = {}
      BY <2>1 DEF ForgeInv, LedgerInv, Purges, Purging
    <3>2. C \in torn \/ Good(C)
      BY <2>1 DEF ForgeInv, LedgerInv, OthersGood, Hand
    <3> QED
      BY <3>1, <3>2 DEF Good, Clean
  <2>4. Purges'
    BY <2>1 DEF ForgeInv, LedgerInv, Purges, Purging, RowsOf, SameRows
  <2>5. ForksOwned'
    BY <2>1, HasTypes
    DEF ForgeInv, LedgerInv, SameRows, SameForks, SameTokens, SameNotes,
        ForksOwned, Bare
  <2>8. DeadTold'
    BY <2>1, HasTypes
    DEF ForgeInv, LedgerInv, SameRows, SameForks, SameTokens, SameNotes,
        DeadTold, Clear
  <2>9. OthersGood'
    <3>1. ASSUME NEW a \in Accounts \ (torn' \cup Hand'), a # C
          PROVE  Good(a)'
      <4>1. Good(a)
        BY <3>1, <2>1 DEF ForgeInv, LedgerInv, OthersGood, Hand
      <4> QED
        BY <3>1, <4>1, <2>1, HasTypes
        DEF Good, Clean, RowsOf, Stands, RowWorks, Live, SameRows, SameNotes
    <3>2. ASSUME NEW a \in Accounts \ (torn' \cup Hand'), a = C
          PROVE  Good(a)'
      <4>1. RowsOf(a) = {}
        BY <3>2, <2>1 DEF ForgeInv, LedgerInv, Purges, Purging
      <4>2. Good(a)
        BY <3>2, <2>1 DEF ForgeInv, LedgerInv, OthersGood, Hand
      <4>3. RowsOf(a)' = {} /\ Clean(a)'
        BY <3>2, <4>1, <4>2, <2>1, HasTypes DEF Good, Clean, RowsOf, SameRows
      <4> QED
        BY <4>3 DEF Good
    <3> QED
      BY <3>1, <3>2, GoodFrame
  <2> QED
    BY ONLY <2>1, <2>2, <2>3, <2>4, <2>5, <2>8, <2>9, PairsInv', ForgeInv,
       Frames
    DEF LedgerInv, PairsInv, Removal, Provide, Tell, Clear, Unbox, Retire,
        Purging
<1>4. ASSUME PurgeAnswerLost
      PROVE  LedgerInv'
  <2>1. /\ cmd.verb = "purge" /\ cmd.pc = "pg_user" /\ "lost" \in aim
        /\ cmd' = Idle /\ cmd'.pc = "idle" /\ cmd'.verb = "none"
        /\ cmd'.who = Nobody /\ cmd'.todo = {} /\ C \in Accounts
        /\ forge'.users = forge.users \ {C}
        /\ \A r \in Repos : forge'.fork[C][r] = "none"
        /\ \A a \in Accounts \ {C}, r \in Repos :
              forge'.fork[a][r] = forge.fork[a][r]
        /\ host'.token[C] = (IF host.token[C] = "good" THEN "dead"
                             ELSE host.token[C])
        /\ \A a \in Accounts \ {C} : host'.token[a] = host.token[a]
        /\ SameRows /\ SameNotes /\ place' = place /\ torn' = torn
        /\ aim' = aim
    <3>1. /\ C \in Accounts /\ cmd.verb = "purge" /\ cmd.pc = "pg_user"
          /\ forge' = Unuser(forge, C) /\ host' = Stale(host, C)
          /\ place' = place /\ torn' = torn /\ aim' = aim
      BY <1>4, HasNames, VerbOf DEF PurgeAnswerLost, Ask, Go, Purging
    <3>2. /\ forge'.users = forge.users \ {C} /\ forge'.notes = forge.notes
          /\ \A r \in Repos : forge'.fork[C][r] = "none"
          /\ \A a \in Accounts \ {C}, r \in Repos :
                forge'.fork[a][r] = forge.fork[a][r]
      BY <3>1, UnuserIs
    <3>3. /\ host'.rows = host.rows
          /\ host'.token[C] = (IF host.token[C] = "good" THEN "dead"
                               ELSE host.token[C])
          /\ \A a \in Accounts \ {C} : host'.token[a] = host.token[a]
      BY <3>1, HasTypes DEF Stale
    <3>4. /\ "lost" \in aim /\ cmd' = Idle /\ cmd'.pc = "idle"
          /\ cmd'.verb = "none" /\ cmd'.who = Nobody /\ cmd'.todo = {}
      BY <1>4 DEF PurgeAnswerLost, Idle
    <3>5. SameRows /\ SameNotes
      BY <3>2, <3>3 DEF SameRows, SameNotes
    <3> QED
      BY <3>1, <3>2, <3>3, <3>4, <3>5
  <2>2. Begun'
    BY <2>1 DEF ForgeInv, LedgerInv, Begun, StepsOf
  <2>3. C \in torn \/ host.token[C] = "none"
    <3>1. RowsOf(C) = {}
      BY <2>1 DEF ForgeInv, LedgerInv, Purges, Purging
    <3>2. C \in torn \/ Good(C)
      BY <2>1 DEF ForgeInv, LedgerInv, OthersGood, Hand
    <3> QED
      BY <3>1, <3>2 DEF Good, Clean
  <2>4. ForksOwned'
    BY <2>1, HasTypes
    DEF ForgeInv, LedgerInv, SameRows, SameForks, SameTokens, SameNotes,
        ForksOwned, Bare
  <2>7. DeadTold'
    <3>1. host.token[C] = "none"
      BY <2>1, <2>3 DEF ForgeInv, LedgerInv, Begun
    <3> QED
      BY <2>1, <3>1, HasTypes
      DEF ForgeInv, LedgerInv, DeadTold, Clear, SameRows
  <2>8. OthersGood'
    <3>1. ASSUME NEW a \in Accounts \ (torn' \cup Hand'), a # C
          PROVE  Good(a)'
      <4>1. Good(a)
        BY <3>1, <2>1 DEF ForgeInv, LedgerInv, OthersGood, Hand
      <4> QED
        BY <3>1, <4>1, <2>1, HasTypes
        DEF Good, Clean, RowsOf, Stands, RowWorks, Live, SameRows, SameNotes
    <3>2. ASSUME NEW a \in Accounts \ (torn' \cup Hand'), a = C
          PROVE  Good(a)'
      <4>1. RowsOf(a) = {}
        BY <3>2, <2>1 DEF ForgeInv, LedgerInv, Purges, Purging
      <4>2. Good(a)
        BY <3>2, <2>1 DEF ForgeInv, LedgerInv, OthersGood, Hand
      <4>3. RowsOf(a)' = {} /\ Clean(a)'
        BY <3>2, <4>1, <4>2, <2>1, HasTypes DEF Good, Clean, RowsOf, SameRows
      <4> QED
        BY <4>3 DEF Good
    <3> QED
      BY <3>1, <3>2, GoodFrame
  <2> QED
    BY ONLY <2>1, <2>2, <2>3, <2>4, <2>7, <2>8, PairsInv', ForgeInv, Frames
    DEF LedgerInv, PairsInv, Removal, Provide, Tell, Clear, Unbox, Retire,
        Purging
<1>5. ASSUME PurgeToken
      PROVE  LedgerInv'
  <2>1. /\ cmd.verb = "purge" /\ cmd.pc = "pg_token" /\ cmd' = Idle
        /\ cmd'.pc = "idle" /\ cmd'.verb = "none" /\ cmd'.who = Nobody
        /\ cmd'.todo = {} /\ C \in Accounts /\ host'.token[C] = "none"
        /\ \A a \in Accounts \ {C} : host'.token[a] = host.token[a]
        /\ SameRows /\ SameForks /\ SameNotes /\ place' = place
        /\ torn' = torn /\ aim' = aim
    BY <1>5, HasTypes, HasNames, VerbOf, VerbOf
    DEF PurgeToken, End, Untoken, SameRows, SameForks, SameNotes, Purging,
        Idle
  <2>2. Begun'
    BY <2>1 DEF ForgeInv, LedgerInv, Begun, StepsOf
  <2>3. DeadTold'
    BY <2>1, HasTypes
    DEF ForgeInv, LedgerInv, SameRows, SameForks, SameTokens, SameNotes,
        DeadTold, Clear
  <2>4. OthersGood'
    <3>1. ASSUME NEW a \in Accounts \ (torn' \cup Hand'), a # C
          PROVE  Good(a)'
      <4>1. Good(a)
        BY <3>1, <2>1 DEF ForgeInv, LedgerInv, OthersGood, Hand
      <4> QED
        BY <3>1, <4>1, <2>1, HasTypes
        DEF Good, Clean, RowsOf, Stands, RowWorks, Live, SameRows, SameNotes,
            SameForks
    <3>2. ASSUME NEW a \in Accounts \ (torn' \cup Hand'), a = C
          PROVE  Good(a)'
      <4>1. RowsOf(a) = {}
        BY <3>2, <2>1 DEF ForgeInv, LedgerInv, Purges, Purging
      <4>2. Good(a)
        BY <3>2, <2>1 DEF ForgeInv, LedgerInv, OthersGood, Hand
      <4>3. RowsOf(a)' = {} /\ Clean(a)'
        BY <3>2, <4>1, <4>2, <2>1, HasTypes DEF Good, Clean, RowsOf, SameRows
      <4> QED
        BY <4>3 DEF Good
    <3> QED
      BY <3>1, <3>2, GoodFrame
  <2> QED
    BY ONLY <2>1, <2>2, <2>3, <2>4, PairsInv', ForgeInv, Frames
    DEF LedgerInv, PairsInv, Removal, Provide, Tell, Clear, Unbox, Retire,
        Purging
<1>6. ASSUME NEW p \in Projects, Rewire(p)
      PROVE  LedgerInv'
  <2>1. /\ cmd.pc = "idle" /\ cmd.verb = "none" /\ cmd.who = Nobody
        /\ cmd.todo = {} /\ cmd' = cmd /\ place'.up = place.up
        /\ place'.box = place.box
        /\ \A a \in Accounts : a \in place'.staged =>
              a \in place.staged \/ (host.token[a] # "none" /\ RowsOf(a) # {})
        /\ SameRows /\ SameTokens /\ SameForks /\ SameNotes /\ torn' = torn
        /\ aim' = aim
    <3> DEFINE s == {a \in place.staged : Home(a) # p} \cup
                      {a \in {row.who : row \in RowsIn(p)} :
                         host.token[a] # "none"}
    <3>1. place' = [place EXCEPT !.left = {a \in @ : Home(a) # p},
                                 !.staged = s]
      BY <1>6 DEF Rewire
    <3>2. /\ place'.up = place.up /\ place'.box = place.box
          /\ place'.staged = s
      BY <3>1, HasTypes
    <3>3. \A a \in Accounts : a \in s =>
            a \in place.staged \/ (host.token[a] # "none" /\ RowsOf(a) # {})
      BY DEF RowsIn, RowsOf
    <3>4. /\ cmd = Idle /\ cmd' = cmd /\ torn' = torn /\ aim' = aim
          /\ SameRows /\ SameTokens /\ SameForks /\ SameNotes
      BY <1>6 DEF Rewire, SameRows, SameTokens, SameForks, SameNotes
    <3>5. /\ cmd.pc = "idle" /\ cmd.verb = "none" /\ cmd.who = Nobody
          /\ cmd.todo = {}
      BY <3>4 DEF Idle
    <3> HIDE DEF s
    <3> QED
      BY <3>2, <3>3, <3>4, <3>5
  <2>2. Begun'
    BY <2>1 DEF ForgeInv, LedgerInv, Begun
  <2>3. Removes'
    BY <2>1, HasTypes
    DEF ForgeInv, LedgerInv, Removes, SameRows, SameForks, SameTokens,
        SameNotes, RowsOf, Live, RowsIn, Attached, Stands, Clean, Bare,
        Removal, Provide, Tell, Clear, Unbox, Retire, Purging
  <2>4. Purges'
    BY <2>1, HasTypes
    DEF ForgeInv, LedgerInv, Purges, SameRows, SameForks, SameTokens,
        SameNotes, RowsOf, Live, RowsIn, Attached, Stands, Clean, Bare,
        Removal, Provide, Tell, Clear, Unbox, Retire, Purging
  <2>5. Provisions'
    BY <2>1, HasTypes
    DEF ForgeInv, LedgerInv, Provisions, SameRows, SameForks, SameTokens,
        SameNotes, RowsOf, Live, RowsIn, Attached, Stands, Clean, Bare,
        Removal, Provide, Tell, Clear, Unbox, Retire, Purging
  <2>6. Chronicles'
    BY <2>1, HasTypes
    DEF ForgeInv, LedgerInv, Chronicles, SameRows, SameForks, SameTokens,
        SameNotes, RowsOf, Live, RowsIn, Attached, Stands, Clean, Bare,
        Removal, Provide, Tell, Clear, Unbox, Retire, Purging
  <2>7. Detaches'
    BY <2>1, HasTypes
    DEF ForgeInv, LedgerInv, Detaches, SameRows, SameForks, SameTokens,
        SameNotes, RowsOf, Live, RowsIn, Attached, Stands, Clean, Bare,
        Removal, Provide, Tell, Clear, Unbox, Retire, Purging
  <2>8. Unboxes'
    BY <2>1, HasTypes
    DEF ForgeInv, LedgerInv, Unboxes, SameRows, SameForks, SameTokens,
        SameNotes, RowsOf, Live, RowsIn, Attached, Stands, Clean, Bare,
        Removal, Provide, Tell, Clear, Unbox, Retire, Purging
  <2>9. Destroys'
    BY <2>1, HasTypes
    DEF ForgeInv, LedgerInv, Destroys, SameRows, SameForks, SameTokens,
        SameNotes, RowsOf, Live, RowsIn, Attached, Stands, Clean, Bare,
        Removal, Provide, Tell, Clear, Unbox, Retire, Purging
  <2>10. OthersGood'
    <3>1. ASSUME NEW a \in Accounts \ (torn' \cup Hand')
          PROVE  Good(a)'
      <4>1. Good(a)
        BY <3>1, <2>1, VerbOf DEF ForgeInv, LedgerInv, OthersGood, Hand
      <4> QED
        BY <4>1, <2>1, HasTypes
        DEF ForgeInv, LedgerInv, SameRows, SameForks, SameTokens, SameNotes,
            Good, Clean, RowsOf, Stands, RowWorks, Live, IsBox, Home
    <3> QED
      BY <3>1, GoodFrame
  <2> QED
    BY ONLY <2>1, <2>2, <2>3, <2>4, <2>5, <2>6, <2>7, <2>8, <2>9, <2>10,
       PairsInv', ForgeInv, Frames
    DEF LedgerInv, PairsInv, Removal, Provide, Tell, Clear, Unbox, Retire,
        Purging
<1>7. ASSUME NEW x \in Accounts, OperatorTidies(x)
      PROVE  LedgerInv'
  <2>1. /\ cmd.pc = "idle" /\ cmd.verb = "none" /\ cmd.who = Nobody
        /\ cmd.todo = {} /\ cmd' = cmd /\ RowsOf(x) = {}
        /\ \A a \in Accounts \ {x} : (a \in forge'.users <=> a \in forge.users)
        /\ \A a \in Accounts \ {x}, r \in Repos :
              forge'.fork[a][r] = forge.fork[a][r]
        /\ \A r \in Repos :
              (forge.fork[x][r] = "none" => forge'.fork[x][r] = "none")
        /\ (x \in forge'.users \/ \A r \in Repos : forge'.fork[x][r] = "none")
        /\ SameRows /\ SameTokens /\ SameNotes /\ place' = place
        /\ torn' = torn /\ aim' = aim
    <3>1. /\ cmd = Idle /\ cmd' = cmd /\ torn' = torn /\ aim' = aim
          /\ place' = place /\ host' = host
          /\ x \in forge.users /\ RowsOf(x) = {}
      BY <1>7 DEF OperatorTidies
    <3>2. /\ cmd.pc = "idle" /\ cmd.verb = "none" /\ cmd.who = Nobody
          /\ cmd.todo = {}
      BY <3>1 DEF Idle
    <3>3. /\ forge'.notes = forge.notes
          /\ \A a \in Accounts \ {x} :
                (a \in forge'.users <=> a \in forge.users)
          /\ \A a \in Accounts \ {x}, r \in Repos :
                forge'.fork[a][r] = forge.fork[a][r]
          /\ \A r \in Repos :
                forge.fork[x][r] = "none" => forge'.fork[x][r] = "none"
          /\ \/ x \in forge'.users
             \/ \A r \in Repos : forge'.fork[x][r] = "none"
      <4>1. CASE forge' = Shelved({x}, Repos)
        BY <3>1, <4>1, ShelvedIs
      <4>2. CASE forge' = Unuser(forge, x)
        BY <4>2, UnuserIs
      <4>3. CASE forge' = forge
        BY <3>1, <4>3
      <4> QED
        BY <1>7, <4>1, <4>2, <4>3 DEF OperatorTidies
    <3>4. SameRows /\ SameTokens /\ SameNotes
      BY <3>1, <3>3 DEF SameRows, SameTokens, SameNotes
    <3> QED
      BY <3>1, <3>2, <3>3, <3>4
  <2>2. Begun'
    BY <2>1 DEF ForgeInv, LedgerInv, Begun
  <2>3. Removes'
    BY <2>1, HasTypes
    DEF ForgeInv, LedgerInv, Removes, SameRows, SameForks, SameTokens,
        SameNotes, RowsOf, Live, RowsIn, Attached, Stands, Clean, Bare,
        Removal, Provide, Tell, Clear, Unbox, Retire, Purging
  <2>4. Purges'
    BY <2>1, HasTypes
    DEF ForgeInv, LedgerInv, Purges, SameRows, SameForks, SameTokens,
        SameNotes, RowsOf, Live, RowsIn, Attached, Stands, Clean, Bare,
        Removal, Provide, Tell, Clear, Unbox, Retire, Purging
  <2>5. Provisions'
    BY <2>1, HasTypes
    DEF ForgeInv, LedgerInv, Provisions, SameRows, SameForks, SameTokens,
        SameNotes, RowsOf, Live, RowsIn, Attached, Stands, Clean, Bare,
        Removal, Provide, Tell, Clear, Unbox, Retire, Purging
  <2>6. Chronicles'
    BY <2>1, HasTypes
    DEF ForgeInv, LedgerInv, Chronicles, SameRows, SameForks, SameTokens,
        SameNotes, RowsOf, Live, RowsIn, Attached, Stands, Clean, Bare,
        Removal, Provide, Tell, Clear, Unbox, Retire, Purging
  <2>7. Detaches'
    BY <2>1, HasTypes
    DEF ForgeInv, LedgerInv, Detaches, SameRows, SameForks, SameTokens,
        SameNotes, RowsOf, Live, RowsIn, Attached, Stands, Clean, Bare,
        Removal, Provide, Tell, Clear, Unbox, Retire, Purging
  <2>8. Unboxes'
    BY <2>1, HasTypes
    DEF ForgeInv, LedgerInv, Unboxes, SameRows, SameForks, SameTokens,
        SameNotes, RowsOf, Live, RowsIn, Attached, Stands, Clean, Bare,
        Removal, Provide, Tell, Clear, Unbox, Retire, Purging
  <2>9. Destroys'
    BY <2>1, HasTypes
    DEF ForgeInv, LedgerInv, Destroys, SameRows, SameForks, SameTokens,
        SameNotes, RowsOf, Live, RowsIn, Attached, Stands, Clean, Bare,
        Removal, Provide, Tell, Clear, Unbox, Retire, Purging
  <2>10. ForksOwned'
    BY <2>1, HasTypes
    DEF ForgeInv, LedgerInv, SameRows, SameForks, SameTokens, SameNotes,
        ForksOwned, Bare
  <2>13. OthersGood'
    <3>1. ASSUME NEW a \in Accounts \ (torn' \cup Hand'), a # x
          PROVE  Good(a)'
      <4>1. Good(a)
        BY <3>1, <2>1 DEF ForgeInv, LedgerInv, OthersGood, Hand
      <4> QED
        BY <3>1, <4>1, <2>1, HasTypes
        DEF Good, Clean, RowsOf, Stands, RowWorks, Live, SameRows, SameTokens,
            SameNotes
    <3>2. ASSUME x \in Accounts \ (torn' \cup Hand')
          PROVE  Good(x)'
      <4>1. Good(x)
        BY <3>2, <2>1 DEF ForgeInv, LedgerInv, OthersGood, Hand
      <4>2. RowsOf(x)' = {} /\ Clean(x)'
        BY <4>1, <2>1 DEF Good, Clean, RowsOf, SameRows, SameTokens
      <4> QED
        BY <4>2 DEF Good
    <3> QED
      BY <3>1, <3>2, GoodFrame
  <2> QED
    BY ONLY <2>1, <2>2, <2>3, <2>4, <2>5, <2>6, <2>7, <2>8, <2>9, <2>10,
       <2>13, PairsInv', ForgeInv, Frames
    DEF LedgerInv, PairsInv, Removal, Provide, Tell, Clear, Unbox, Retire, Purging
<1>8. ASSUME BoxRuns
      PROVE  LedgerInv'
  <2>1. /\ cmd.verb \in {"box", "notes"}
        /\ cmd.pc \in {"bx_run", "bx_note", "bx_bare"} /\ cmd.todo = {}
        /\ cmd' = Idle /\ cmd'.pc = "idle" /\ cmd'.verb = "none"
        /\ cmd'.who = Nobody /\ cmd'.todo = {} /\ torn' = torn \ Healed
        /\ C \in Accounts /\ IsBox(C) /\ ~Stands(C)
        /\ place'.up = place.up /\ place'.staged = place.staged
        /\ place'.box[C] # "none"
        /\ \A a \in Accounts \ {C} : IsBox(a) => place'.box[a] = place.box[a]
        /\ SameRows /\ SameTokens /\ SameForks /\ SameNotes /\ aim' = aim
    <3>1. /\ cmd.verb \in {"box", "notes"} /\ C \in Accounts /\ ~Stands(C)
          /\ cmd.pc \in {"bx_run", "bx_note", "bx_bare"}
          /\ cmd' = Idle /\ torn' = torn \ Healed /\ aim' = aim
      BY <1>8, HasNames, VerbOf DEF BoxRuns
    <3>2. IsBox(C) /\ cmd.todo = {}
      <4>1. CASE cmd.pc = "bx_run"
        BY <3>1, <4>1, VerbOf DEF ForgeInv, LedgerInv, Provisions
      <4>2. CASE cmd.pc \in {"bx_note", "bx_bare"}
        BY <3>1, <4>2, VerbOf DEF ForgeInv, LedgerInv, Chronicles
      <4> QED
        BY <3>1, <4>1, <4>2
    <3>3. PICK kind \in {"dev", "notes", "plain"} :
            place' = [place EXCEPT !.box[C] = kind]
      BY <1>8, <3>1 DEF BoxRuns
    <3>4. C \in Boxed
      BY <3>1, <3>2 DEF Boxed
    <3>5. /\ place'.up = place.up /\ place'.staged = place.staged
          /\ place'.box = [place.box EXCEPT ![C] = kind]
      BY <3>3, HasTypes
    <3>6. /\ place'.box[C] # "none"
          /\ \A a \in Accounts \ {C} : IsBox(a) => place'.box[a] = place.box[a]
      BY <3>4, <3>5, HasTypes DEF Boxed
    <3>7. SameRows /\ SameTokens /\ SameForks /\ SameNotes
      BY <1>8 DEF BoxRuns, SameRows, SameTokens, SameForks, SameNotes
    <3>8. /\ cmd'.pc = "idle" /\ cmd'.verb = "none" /\ cmd'.who = Nobody
          /\ cmd'.todo = {}
      BY <3>1 DEF Idle
    <3> QED
      BY <3>1, <3>2, <3>5, <3>6, <3>7, <3>8
  <2>2. Begun'
    BY <2>1, HealedIs DEF ForgeInv, LedgerInv, Begun, StepsOf
  <2>3. DeadTold'
    BY <2>1, HasTypes
    DEF ForgeInv, LedgerInv, SameRows, SameForks, SameTokens, SameNotes,
        DeadTold, Clear
  <2>4. OthersGood'
    <3>1. ASSUME NEW a \in Accounts \ (torn' \cup Hand'), a # C
          PROVE  Good(a)'
      <4>1. a \notin torn /\ a \notin Hand
        BY <3>1, <2>1, HealedIs DEF Hand
      <4>2. Good(a)
        BY <4>1 DEF ForgeInv, LedgerInv, OthersGood
      <4> QED
        BY <3>1, <4>2, <2>1, HasTypes
        DEF SameRows, SameForks, SameTokens, SameNotes, Good, Clean, RowsOf,
            Stands, RowWorks, Live, IsBox
    <3>2. ASSUME NEW a \in Accounts \ (torn' \cup Hand'), a = C
          PROVE  Good(a)'
      <4>1. Stands(a)'
        BY <2>1, <3>2 DEF Stands, IsBox
      <4>2. a \in torn => \E row \in host.rows : RowsOf(a) = {row}
        BY <2>1, <3>2, HealedIs
      <4>3. CASE cmd.pc = "bx_run"
        <5>1. /\ a \in forge.users /\ forge.fork[a][R] = "live"
              /\ host.token[a] # "none" /\ Row(a, R) \in RowsOf(a)
          BY <2>1, <3>2, <4>3
          DEF ForgeInv, LedgerInv, Provisions, Provide, RowsOf, Row
        <5>2. a \in torn \/ RowsOf(a) \subseteq {Row(a, R)}
          BY <2>1, <3>2, <4>3 DEF ForgeInv, LedgerInv, Provisions
        <5>3. RowsOf(a) = {Row(a, R)}
          BY <4>2, <5>1, <5>2
        <5>7. Tale(a) \notin host.rows
          <6>1. Row(a, R) # Tale(a)
            BY <4>3, HasNames DEF Row, Tale
          <6> QED
            BY <5>3, <6>1 DEF RowsOf, Tale
        <5>8. host.token[a] = "good"
          BY <4>3, <5>1, <5>7, HasTypes
          DEF ForgeInv, LedgerInv, DeadTold, Clear
        <5>4. PICK row \in {Row(a, R)} : RowsOf(a)' = {row}
          BY <2>1, <5>3 DEF RowsOf, SameRows
        <5>5. R \in Repos
          BY <4>3, HasNames
        <5>6. RowWorks(row)'
          BY <2>1, <5>1, <5>4, <5>5, <5>8, HasTypes
          DEF RowWorks, Row, Live, SameForks, SameTokens
        <5> QED
          BY <4>1, <5>4, <5>6 DEF Good
      <4>4. CASE cmd.pc = "bx_note"
        <5>1. /\ a \in forge.users /\ forge.notes[a] = "live"
              /\ host.token[a] = "good" /\ Tale(a) \in RowsOf(a) /\ Bare(a)
          BY <2>1, <3>2, <4>4
          DEF ForgeInv, LedgerInv, Chronicles, Tell, RowsOf, Tale
        <5>2. RowsOf(a) = {Tale(a)}
          BY <2>1, <5>1, BareRows DEF Wiped
        <5>3. PICK row \in {Tale(a)} : RowsOf(a)' = {row}
          BY <2>1, <5>2 DEF RowsOf, SameRows
        <5>4. RowWorks(row)'
          BY <2>1, <5>1, <5>3, HasTypes
          DEF RowWorks, Tale, SameForks, SameNotes, SameTokens
        <5> QED
          BY <4>1, <5>3, <5>4 DEF Good
      <4>5. CASE cmd.pc = "bx_bare"
        <5>1. Clean(a) /\ RowsOf(a) = {}
          BY <2>1, <3>2, <4>5 DEF ForgeInv, LedgerInv, Chronicles
        <5>2. Clean(a)' /\ RowsOf(a)' = {}
          BY <2>1, <5>1 DEF Clean, RowsOf, SameRows, SameTokens
        <5> QED
          BY <5>2 DEF Good
      <4> QED
        BY <2>1, <4>3, <4>4, <4>5
    <3> QED
      BY <3>1, <3>2, GoodFrame
  <2> QED
    BY ONLY <2>1, <2>2, <2>3, <2>4, PairsInv', ForgeInv, Frames
    DEF LedgerInv, PairsInv, Removal, Provide, Tell, Clear, Unbox, Retire,
        Purging
<1> QED
  BY <1>1, <1>2, <1>3, <1>4, <1>5, <1>6, <1>7, <1>8 DEF RestStep

-----------------------------------------------------------------------------
(* A detach.  No row is left of those detached, but the history row of a   *)
(* torn one: only such an account has both.                                *)
LEMMA DetachKeeps ==
    ASSUME ForgeInv, PairsInv', DetachStep
    PROVE  LedgerInv'
<1> USE ForgeAssumption DEF C, R
<1>1. ASSUME NEW p \in Projects, NEW all \in BOOLEAN, Detach(p, all)
      PROVE  LedgerInv'
  <2>1. /\ cmd = Idle /\ cmd.pc = "idle" /\ cmd.verb = "none"
        /\ cmd'.pc = "dt_archive" /\ cmd'.verb = "detach"
        /\ cmd'.who = Nobody /\ host'.rows \subseteq host.rows
        /\ \A row \in host.rows \ host'.rows :
              row.repo # NoRepo /\ row.who \in cmd'.todo
        /\ \A row \in host'.rows : row.who \in cmd'.todo => row.who \in torn
        /\ SameTokens /\ SameForks /\ SameNotes /\ place' = place
        /\ torn' = torn /\ aim' = aim
    <3> DEFINE gone == {row \in Dev(RowsIn(p)) : all \/ row.who = <<p, Own>>}
    <3>1. /\ Begin("detach", "dt_archive", Nobody, NoRepo,
                   {row.who : row \in gone})
          /\ host' = [host EXCEPT !.rows = host.rows \ gone]
          /\ place' = place /\ torn' = torn /\ aim' = aim
          /\ SameForks /\ SameNotes
      BY <1>1 DEF Detach, SameForks, SameNotes
    <3>2. /\ cmd = Idle /\ cmd'.pc = "dt_archive" /\ cmd'.verb = "detach"
          /\ cmd'.who = Nobody /\ cmd'.todo = {row.who : row \in gone}
      BY <3>1 DEF Begin
    <3>3. cmd.pc = "idle" /\ cmd.verb = "none"
      BY <3>2 DEF Idle
    <3>4. host'.rows = host.rows \ gone /\ SameTokens
      BY <3>1, HasTypes DEF SameTokens
    <3>5. \A row \in gone : /\ row \in host.rows /\ row.repo # NoRepo
                           /\ Home(row.who) = p
      BY DEF Dev, RowsIn
    <3>7. \A row \in gone : all \/ row.who = <<p, Own>>
      OBVIOUS
    <3>6. ASSUME NEW row \in host'.rows, row.who \in cmd'.todo
          PROVE  row.who \in torn
      <4>1. PICK own \in gone : own.who = row.who
        BY <3>2, <3>6
      <4>2. row \in host.rows /\ row \notin gone
        BY <3>4, <3>6
      <4>3. Home(row.who) = p
        BY <3>5, <4>1
      <4>8. all \/ row.who = <<p, Own>>
        BY <3>7, <4>1, Zenon
      <4>4. row.repo = NoRepo
        <5>1. row \in Dev(RowsIn(p)) => row \in gone
          BY <4>8
        <5> QED
          BY <4>2, <4>3, <5>1 DEF Dev, RowsIn
      <4>5. Tale(row.who) \in host.rows
        BY <4>2, <4>4, RowIs
      <4>6. row.who \in Accounts
        BY <4>2, RowIs
      <4>7. own \in host.rows /\ own.repo # NoRepo
        BY <3>5, <4>1
      <4>9. own = Row(row.who, own.repo) /\ own.repo \in Repos
        BY <4>1, <4>7, RowIs
      <4>10. Paired(row.who) /\ ~Doubling(row.who)
        BY <3>3, <4>6 DEF ForgeInv, LedgerInv, RowsPaired, Doubling
      <4> QED
        BY <4>5, <4>7, <4>9, <4>10 DEF Paired
    <3> HIDE DEF gone
    <3>8. /\ host'.rows \subseteq host.rows
          /\ \A row \in host.rows \ host'.rows :
                row.repo # NoRepo /\ row.who \in cmd'.todo
      BY <3>2, <3>4, <3>5
    <3> QED
      BY <3>1, <3>2, <3>3, <3>4, <3>6, <3>8
  <2>2. Begun'
    BY <2>1, VerbOf
    DEF ForgeInv, LedgerInv, Begun, StepsOf, Idle, Removal, Provide, Tell,
        Clear, Unbox, Retire, Purging
  <2>3. Detaches'
    BY <2>1 DEF Detaches, RowsOf
  <2>4. FiniteRows'
    BY <2>1, FS_Subset DEF ForgeInv, LedgerInv, FiniteRows
  <2>6. DeadTold'
    BY <2>1, HasTypes
    DEF ForgeInv, LedgerInv, SameRows, SameForks, SameTokens, SameNotes,
        DeadTold, Tale, Clear
  <2>7. OthersGood'
    <3>1. ASSUME NEW a \in Accounts \ (torn' \cup Hand')
          PROVE  Good(a)'
      <4>1. a \notin torn /\ a \notin Hand /\ a \notin cmd'.todo
        BY <3>1, <2>1 DEF Hand
      <4>2. Good(a) /\ RowsOf(a)' = RowsOf(a)
        BY <4>1, <2>1 DEF ForgeInv, LedgerInv, OthersGood, RowsOf
      <4>3. SameFor(a)
        BY <4>2, <2>1 DEF SameFor, SameTokens, SameForks, SameNotes, Stands
      <4> QED
        BY <4>2, <4>3, GoodSame
    <3> QED
      BY <3>1, GoodFrame
  <2> QED
    BY ONLY <2>1, <2>2, <2>3, <2>4, <2>6, <2>7, PairsInv', ForgeInv, Frames
    DEF LedgerInv, PairsInv, Removal, Provide, Tell, Clear, Unbox, Retire,
        Purging
<1>2. ASSUME DetachArchive
      PROVE  LedgerInv'
  <2>1. /\ cmd.verb = "detach" /\ cmd.pc = "dt_archive"
        /\ cmd'.pc = "dt_token" /\ cmd'.verb = cmd.verb
        /\ cmd'.who = cmd.who /\ cmd'.repo = cmd.repo
        /\ cmd'.todo = cmd.todo /\ forge'.users = forge.users
        /\ \A a \in Accounts, r \in Repos :
              /\ (forge'.fork[a][r] = "none" <=> forge.fork[a][r] = "none")
              /\ (a \notin cmd.todo => forge'.fork[a][r] = forge.fork[a][r])
        /\ SameRows /\ SameTokens /\ SameNotes /\ place' = place
        /\ torn' = torn /\ aim' = aim
    <3>1. /\ cmd.verb = "detach" /\ cmd.pc = "dt_archive"
          /\ forge' = Shelved(cmd.todo, Repos)
          /\ place' = place /\ torn' = torn /\ aim' = aim
          /\ SameRows /\ SameTokens
      BY <1>2, VerbOf DEF DetachArchive, Go, SameRows, SameTokens
    <3>2. /\ cmd'.pc = "dt_token" /\ cmd'.verb = cmd.verb
          /\ cmd'.who = cmd.who /\ cmd'.repo = cmd.repo
          /\ cmd'.todo = cmd.todo
      BY <1>2, HasTypes DEF DetachArchive, Go
    <3> QED
      BY <3>1, <3>2, ShelvedIs DEF SameNotes
  <2>2. Begun'
    BY <2>1, VerbOf
    DEF ForgeInv, LedgerInv, Begun, StepsOf, Idle, Removal, Provide, Tell,
        Clear, Unbox, Retire, Purging
  <2>3. Detaches'
    BY <2>1 DEF ForgeInv, LedgerInv, Detaches, RowsOf, SameRows
  <2>4. ForksOwned'
    BY <2>1, HasTypes
    DEF ForgeInv, LedgerInv, SameRows, SameForks, SameTokens, SameNotes,
        ForksOwned, Bare
  <2>6. OthersGood'
    <3>1. ASSUME NEW a \in Accounts \ (torn' \cup Hand')
          PROVE  Good(a)'
      <4>1. a \notin torn /\ a \notin Hand /\ a \notin cmd.todo
        BY <3>1, <2>1 DEF Hand
      <4>2. Good(a)
        BY <4>1 DEF ForgeInv, LedgerInv, OthersGood
      <4> QED
        BY <3>1, <4>1, <4>2, <2>1, HasTypes
        DEF SameRows, SameForks, SameTokens, SameNotes, Good, Clean, RowsOf,
            Stands, RowWorks, Live, IsBox, Home
    <3> QED
      BY <3>1, GoodFrame
  <2> QED
    BY ONLY <2>1, <2>2, <2>3, <2>4, <2>6, PairsInv', ForgeInv, Frames
    DEF LedgerInv, PairsInv, Removal, Provide, Tell, Clear, Unbox, Retire,
        Purging
<1>3. ASSUME DetachToken
      PROVE  LedgerInv'
  <2>1. /\ cmd.verb = "detach" /\ cmd.pc = "dt_token"
        /\ cmd'.pc = "dt_stage" /\ cmd'.verb = cmd.verb
        /\ cmd'.who = cmd.who /\ cmd'.repo = cmd.repo
        /\ cmd'.todo = cmd.todo
        /\ \A a \in Accounts :
              host'.token[a] = IF a \in cmd.todo THEN "none" ELSE host.token[a]
        /\ SameRows /\ SameForks /\ SameNotes /\ place' = place
        /\ torn' = torn /\ aim' = aim
    BY <1>3, HasTypes, VerbOf
    DEF DetachToken, Go, Untoken, SameRows, SameForks, SameNotes
  <2>2. Begun'
    BY <2>1, VerbOf
    DEF ForgeInv, LedgerInv, Begun, StepsOf, Idle, Removal, Provide, Tell,
        Clear, Unbox, Retire, Purging
  <2>3. Detaches'
    BY <2>1, HasTypes DEF ForgeInv, LedgerInv, Detaches, RowsOf, SameRows
  <2>4. DeadTold'
    BY <2>1, HasTypes
    DEF ForgeInv, LedgerInv, SameRows, SameForks, SameTokens, SameNotes,
        DeadTold, Clear
  <2>5. OthersGood'
    <3>1. ASSUME NEW a \in Accounts \ (torn' \cup Hand')
          PROVE  Good(a)'
      <4>1. a \notin torn /\ a \notin Hand /\ a \notin cmd.todo
        BY <3>1, <2>1 DEF Hand
      <4>2. Good(a)
        BY <4>1 DEF ForgeInv, LedgerInv, OthersGood
      <4> QED
        BY <3>1, <4>1, <4>2, <2>1, HasTypes
        DEF SameRows, SameForks, SameTokens, SameNotes, Good, Clean, RowsOf,
            Stands, RowWorks, Live, IsBox, Home
    <3> QED
      BY <3>1, GoodFrame
  <2> QED
    BY ONLY <2>1, <2>2, <2>3, <2>4, <2>5, PairsInv', ForgeInv, Frames
    DEF LedgerInv, PairsInv, Removal, Provide, Tell, Clear, Unbox, Retire,
        Purging
<1>4. ASSUME DetachStage
      PROVE  LedgerInv'
  <2>1. /\ cmd.verb = "detach" /\ cmd.pc = "dt_stage" /\ cmd' = Idle
        /\ cmd'.pc = "idle" /\ cmd'.verb = "none" /\ cmd'.who = Nobody
        /\ cmd'.todo = {} /\ place'.up = place.up /\ place'.box = place.box
        /\ place'.staged = place.staged \ cmd.todo /\ SameRows /\ SameTokens
        /\ SameForks /\ SameNotes /\ torn' = torn /\ aim' = aim
    <3>1. Unstaged(cmd.todo)
      BY <1>4 DEF DetachStage
    <3>2. /\ place'.up = place.up /\ place'.box = place.box
          /\ place'.staged = place.staged \ cmd.todo
      BY <3>1, UnstagedIs
    <3> QED
      BY <1>4, <3>2, HasTypes, VerbOf
      DEF DetachStage, End, SameRows, SameTokens, SameForks, SameNotes, Idle
  <2>2. Begun'
    BY <2>1 DEF ForgeInv, LedgerInv, Begun, StepsOf
  <2>3. DeadTold'
    BY <2>1, HasTypes
    DEF ForgeInv, LedgerInv, SameRows, SameForks, SameTokens, SameNotes,
        DeadTold, Clear
  <2>4. OthersGood'
    <3>1. ASSUME NEW a \in Accounts \ (torn' \cup Hand'), ~(a \in cmd.todo)
          PROVE  Good(a)'
      <4>1. a \notin torn /\ a \notin Hand
        BY <3>1, <2>1 DEF ForgeInv, LedgerInv, Detaches, Hand
      <4>2. Good(a)
        BY <4>1 DEF ForgeInv, LedgerInv, OthersGood
      <4> QED
        BY <3>1, <4>1, <4>2, <2>1, HasTypes
        DEF SameRows, SameForks, SameTokens, SameNotes, Good, Clean, RowsOf,
            Stands, RowWorks, Live, IsBox, Home
    <3>2. ASSUME NEW a \in Accounts \ (torn' \cup Hand'), a \in cmd.todo
          PROVE  Good(a)'
      <4>1. RowsOf(a) = {} /\ host.token[a] = "none"
        BY <2>1, <3>2 DEF ForgeInv, LedgerInv, Detaches
      <4>2. RowsOf(a)' = {} /\ Clean(a)'
        BY <2>1, <3>2, <4>1 DEF RowsOf, Clean, SameRows, SameTokens
      <4> QED
        BY <4>2 DEF Good
    <3> QED
      BY <3>1, <3>2, GoodFrame
  <2> QED
    BY ONLY <2>1, <2>2, <2>3, <2>4, PairsInv', ForgeInv, Frames
    DEF LedgerInv, PairsInv, Removal, Provide, Tell, Clear, Unbox, Retire,
        Purging
<1> QED
  BY <1>1, <1>2, <1>3, <1>4 DEF DetachStep

(* A box removal, up to the history rows.                                  *)
LEMMA UnboxKeeps ==
    ASSUME ForgeInv, PairsInv', UnboxStep
    PROVE  LedgerInv'
<1> USE ForgeAssumption DEF C, R
<1>1. ASSUME NEW x \in DOMAIN place.box, BoxRemove(x)
      PROVE  LedgerInv'
  <2>1. /\ cmd = Idle /\ cmd.pc = "idle" /\ cmd.verb = "none"
        /\ cmd'.verb = "unbox" /\ cmd'.who = x /\ cmd'.todo = {}
        /\ x \in Accounts /\ IsBox(x) /\ Stands(x)
        /\ place'.up = place.up /\ place'.staged = place.staged
        /\ place'.box[x] = "none"
        /\ \A a \in Accounts \ {x} : IsBox(a) => place'.box[a] = place.box[a]
        /\ \/ Works(x) = {} /\ cmd'.pc = "rt_next" /\ cmd'.repo = NoRepo
           \/ cmd'.pc = "br_archive" /\ cmd'.repo \in Works(x)
        /\ SameRows /\ SameTokens /\ SameForks /\ SameNotes /\ torn' = torn
        /\ aim' = aim
    <3>1. x \in Boxed /\ x \in Accounts /\ IsBox(x)
      BY HasTypes DEF Boxed
    <3>2. /\ Stands(x) /\ place' = [place EXCEPT !.box[x] = "none"]
          /\ torn' = torn /\ aim' = aim
          /\ SameRows /\ SameTokens /\ SameForks /\ SameNotes
      BY <1>1 DEF BoxRemove, SameRows, SameTokens, SameForks, SameNotes
    <3>3. /\ place'.up = place.up /\ place'.staged = place.staged
          /\ place'.box = [place.box EXCEPT ![x] = "none"]
      BY <3>2, HasTypes
    <3>4. /\ place'.box[x] = "none"
          /\ \A a \in Accounts \ {x} : IsBox(a) => place'.box[a] = place.box[a]
      BY <3>1, <3>3, HasTypes DEF Boxed
    <3>5. \/ Works(x) = {} /\ Begin("unbox", "rt_next", x, NoRepo, {})
          \/ \E r \in Works(x) : Begin("unbox", "br_archive", x, r, {})
      BY <1>1 DEF BoxRemove
    <3>6. /\ cmd = Idle /\ cmd'.verb = "unbox" /\ cmd'.who = x
          /\ cmd'.todo = {}
          /\ \/ Works(x) = {} /\ cmd'.pc = "rt_next" /\ cmd'.repo = NoRepo
             \/ cmd'.pc = "br_archive" /\ cmd'.repo \in Works(x)
      BY <3>5 DEF Begin
    <3>7. cmd.pc = "idle" /\ cmd.verb = "none"
      BY <3>6 DEF Idle
    <3> QED
      BY <3>1, <3>2, <3>3, <3>4, <3>6, <3>7
  <2>2. Begun'
    BY <2>1, VerbOf
    DEF ForgeInv, LedgerInv, Begun, StepsOf, Idle, Removal, Provide, Tell,
        Clear, Unbox, Retire, Purging
  <2>3. Unboxes'
    <3>1. CASE cmd'.pc = "br_archive" /\ cmd'.repo \in Works(x)
      <4>1. PICK row \in host.rows : row.who = x /\ row.repo = cmd'.repo
                                    /\ row.repo # NoRepo
        BY <3>1 DEF Works, Dev, RowsOf
      <4>2. row = Row(x, row.repo) /\ row.repo \in Repos
        BY <4>1, RowIs
      <4>3. Tale(x) \in host.rows => \A r \in Repos :
              Row(x, r) \in host.rows => r = row.repo
        <5>1. Paired(x) /\ ~Doubling(x)
          BY <2>1 DEF ForgeInv, LedgerInv, RowsPaired, Doubling
        <5> QED
          BY <4>2, <5>1 DEF Paired
      <4> QED
        BY <2>1, <3>1, <4>1, <4>2, <4>3 DEF Unboxes, Unbox, Retire, SameRows
    <3>2. CASE Works(x) = {} /\ cmd'.pc = "rt_next" /\ cmd'.repo = NoRepo
      <4>1. ASSUME NEW row \in RowsOf(x)
            PROVE  row = Tale(x)
        <5>1. row \in host.rows /\ row.who = x
          BY DEF RowsOf
        <5>2. row.repo = NoRepo
          BY <3>2 DEF Works, Dev
        <5> QED
          BY <5>1, <5>2, RowIs
      <4>2. x \in torn \/ Clean(x) \/ Tale(x) \in host.rows
        <5>1. x \in torn \/ Good(x)
          BY <2>1 DEF ForgeInv, LedgerInv, OthersGood, Hand
        <5> QED
          BY <4>1, <5>1 DEF Good, RowsOf
      <4>3. \A r \in Repos : Row(x, r) \notin host.rows
        BY <4>1 DEF RowsOf, Row, Tale
      <4>4. Clean(x)' <=> Clean(x)
        BY <2>1 DEF Clean, SameTokens
      <4> QED
        BY <2>1, <3>2, <4>2, <4>3, <4>4 DEF Unboxes, Unbox, Retire, SameRows
    <3> QED
      BY <2>1, <3>1, <3>2
  <2>4. OthersGood'
    <3>1. ASSUME NEW a \in Accounts \ (torn' \cup Hand')
          PROVE  a \notin torn \cup Hand /\ SameFor(a)
      <4>1. a # x /\ a \notin torn \cup Hand
        BY <3>1, <2>1 DEF Hand
      <4> QED
        BY <4>1, <2>1
        DEF SameFor, RowsOf, Stands, SameRows, SameTokens, SameForks,
            SameNotes
    <3> QED
      BY <3>1, GoodFrame
  <2> QED
    BY ONLY <2>1, <2>2, <2>3, <2>4, PairsInv', ForgeInv, Frames
    DEF LedgerInv, PairsInv, Removal, Provide, Tell, Clear, Unbox, Retire,
        Purging
<1>2. ASSUME BoxArchive
      PROVE  LedgerInv'
  <2>1. /\ cmd.verb = "unbox" /\ cmd.pc = "br_archive"
        /\ cmd'.pc = "br_token" /\ cmd'.verb = cmd.verb
        /\ cmd'.who = cmd.who /\ cmd'.repo = cmd.repo
        /\ cmd'.todo = cmd.todo /\ C \in Accounts
        /\ forge'.users = forge.users
        /\ \A a \in Accounts, r \in Repos :
              /\ (forge'.fork[a][r] = "none" <=> forge.fork[a][r] = "none")
              /\ (a \notin {C} => forge'.fork[a][r] = forge.fork[a][r])
        /\ SameRows /\ SameTokens /\ SameNotes /\ place' = place
        /\ torn' = torn /\ aim' = aim
    <3>1. /\ cmd.verb = "unbox" /\ cmd.pc = "br_archive" /\ C \in Accounts
          /\ forge' = Shelved({C}, {R})
          /\ place' = place /\ torn' = torn /\ aim' = aim
          /\ SameRows /\ SameTokens
      BY <1>2, VerbOf, HasNames
      DEF BoxArchive, Go, SameRows, SameTokens, Unbox
    <3>2. /\ cmd'.pc = "br_token" /\ cmd'.verb = cmd.verb
          /\ cmd'.who = cmd.who /\ cmd'.repo = cmd.repo
          /\ cmd'.todo = cmd.todo
      BY <1>2, HasTypes DEF BoxArchive, Go
    <3> DEFINE mine == {C}
               this == {R}
    <3>4. forge' = Shelved(mine, this)
      BY <3>1
    <3> HIDE DEF mine, this
    <3>3. /\ forge'.users = forge.users /\ SameNotes
          /\ \A a \in Accounts, r \in Repos :
                /\ forge'.fork[a][r] = "none" <=> forge.fork[a][r] = "none"
                /\ a \notin mine => forge'.fork[a][r] = forge.fork[a][r]
      BY <3>4, ShelvedIs DEF SameNotes
    <3> USE DEF mine
    <3> QED
      BY <3>1, <3>2, <3>3
  <2>2. Begun'
    BY <2>1, VerbOf
    DEF ForgeInv, LedgerInv, Begun, StepsOf, Idle, Removal, Provide, Tell,
        Clear, Unbox, Retire, Purging
  <2>3. Unboxes'
    BY <2>1, HasTypes
    DEF ForgeInv, LedgerInv, Unboxes, Unbox, Retire, SameRows, SameForks,
        SameTokens, SameNotes, Clean, RowsOf, IsBox
  <2>4. ForksOwned'
    BY <2>1, HasTypes
    DEF ForgeInv, LedgerInv, SameRows, SameForks, SameTokens, SameNotes,
        ForksOwned, Bare
  <2>6. OthersGood'
    <3>1. ASSUME NEW a \in Accounts \ (torn' \cup Hand')
          PROVE  Good(a)'
      <4>1. a \notin torn /\ a \notin Hand /\ a # C
        BY <3>1, <2>1 DEF Hand
      <4>2. Good(a)
        BY <4>1 DEF ForgeInv, LedgerInv, OthersGood
      <4> QED
        BY <3>1, <4>1, <4>2, <2>1, HasTypes
        DEF SameRows, SameForks, SameTokens, SameNotes, Good, Clean, RowsOf,
            Stands, RowWorks, Live, IsBox, Home
    <3> QED
      BY <3>1, GoodFrame
  <2> QED
    BY ONLY <2>1, <2>2, <2>3, <2>4, <2>6, PairsInv', ForgeInv, Frames
    DEF LedgerInv, PairsInv, Removal, Provide, Tell, Clear, Unbox, Retire,
        Purging
<1>3. ASSUME BoxToken
      PROVE  LedgerInv'
  <2>1. /\ cmd.verb = "unbox" /\ cmd.pc = "br_token" /\ cmd'.pc = "br_prune"
        /\ cmd'.verb = cmd.verb /\ cmd'.who = cmd.who
        /\ cmd'.repo = cmd.repo /\ cmd'.todo = cmd.todo /\ C \in Accounts
        /\ host'.token[C] = "none"
        /\ \A a \in Accounts \ {C} : host'.token[a] = host.token[a]
        /\ place'.up = place.up /\ place'.box = place.box
        /\ place'.staged = place.staged \ {C} /\ SameRows /\ SameForks
        /\ SameNotes /\ torn' = torn /\ aim' = aim
    <3>1. Unstaged({C})
      BY <1>3 DEF BoxToken
    <3>2. /\ place'.up = place.up /\ place'.box = place.box
          /\ place'.staged = place.staged \ {C}
      BY <3>1, UnstagedIs
    <3> QED
      BY <1>3, <3>2, HasTypes, HasNames, VerbOf
      DEF BoxToken, Go, Untoken, SameRows, SameForks, SameNotes, Unbox
  <2>2. Begun'
    BY <2>1, VerbOf
    DEF ForgeInv, LedgerInv, Begun, StepsOf, Idle, Removal, Provide, Tell,
        Clear, Unbox, Retire, Purging
  <2>3. Unboxes'
    BY <2>1, HasTypes
    DEF ForgeInv, LedgerInv, Unboxes, Unbox, Retire, SameRows, SameForks,
        SameTokens, SameNotes, Clean, RowsOf, IsBox
  <2>4. DeadTold'
    BY <2>1, HasTypes
    DEF ForgeInv, LedgerInv, SameRows, SameForks, SameTokens, SameNotes,
        DeadTold, Clear
  <2>5. OthersGood'
    <3>1. ASSUME NEW a \in Accounts \ (torn' \cup Hand')
          PROVE  Good(a)'
      <4>1. a \notin torn /\ a \notin Hand /\ a # C
        BY <3>1, <2>1 DEF Hand
      <4>2. Good(a)
        BY <4>1 DEF ForgeInv, LedgerInv, OthersGood
      <4> QED
        BY <3>1, <4>1, <4>2, <2>1, HasTypes
        DEF SameRows, SameForks, SameTokens, SameNotes, Good, Clean, RowsOf,
            Stands, RowWorks, Live, IsBox, Home
    <3> QED
      BY <3>1, GoodFrame
  <2> QED
    BY ONLY <2>1, <2>2, <2>3, <2>4, <2>5, PairsInv', ForgeInv, Frames
    DEF LedgerInv, PairsInv, Removal, Provide, Tell, Clear, Unbox, Retire,
        Purging
<1>4. ASSUME BoxPrune
      PROVE  LedgerInv'
  <2>1. /\ cmd.verb = "unbox" /\ cmd.pc = "br_prune" /\ cmd'.pc = "rt_next"
        /\ cmd'.verb = cmd.verb /\ cmd'.who = cmd.who
        /\ cmd'.repo = cmd.repo /\ cmd'.todo = cmd.todo
        /\ C \in Accounts /\ R \in Repos
        /\ host'.rows = host.rows \ {Row(C, R)} /\ SameTokens /\ SameForks
        /\ SameNotes /\ place' = place /\ torn' = torn /\ aim' = aim
    BY <1>4, HasTypes, HasNames, VerbOf
    DEF BoxPrune, Go, SameTokens, SameForks, SameNotes, Unbox
  <2>2. Begun'
    BY <2>1, VerbOf
    DEF ForgeInv, LedgerInv, Begun, StepsOf, Idle, Removal, Provide, Tell,
        Clear, Unbox, Retire, Purging
  <2>3. Unboxes'
    BY <2>1, HasTypes
    DEF ForgeInv, LedgerInv, Unboxes, Unbox, Retire, SameRows, SameForks,
        SameTokens, SameNotes, Clean, RowsOf, IsBox, Row, Tale
  <2>4. FiniteRows'
    BY <2>1, FS_Subset DEF ForgeInv, LedgerInv, FiniteRows
  <2>6. DeadTold'
    BY <2>1, HasTypes
    DEF ForgeInv, LedgerInv, SameRows, SameForks, SameTokens, SameNotes,
        DeadTold, Clear, Row, Tale
  <2>7. OthersGood'
    <3>1. ASSUME NEW a \in Accounts \ (torn' \cup Hand')
          PROVE  Good(a)'
      <4>1. a \notin torn /\ a \notin Hand /\ a # C
        BY <3>1, <2>1 DEF Hand
      <4>2. Good(a)
        BY <4>1 DEF ForgeInv, LedgerInv, OthersGood
      <4> QED
        BY <3>1, <4>1, <4>2, <2>1, HasTypes
        DEF SameRows, SameForks, SameTokens, SameNotes, Good, Clean, RowsOf,
            Stands, RowWorks, Live, IsBox, Home, Row
    <3> QED
      BY <3>1, GoodFrame
  <2> QED
    BY ONLY <2>1, <2>2, <2>3, <2>4, <2>6, <2>7, PairsInv', ForgeInv, Frames
    DEF LedgerInv, PairsInv, Removal, Provide, Tell, Clear, Unbox, Retire,
        Purging
<1> QED
  BY <1>1, <1>2, <1>3, <1>4 DEF UnboxStep

(* A destroy, up to the history rows.  Every row in the project is of an   *)
(* account in hand, and the others were clean before.                      *)
LEMMA DestroyKeeps ==
    ASSUME ForgeInv, PairsInv', DestroyStep
    PROVE  LedgerInv'
<1> USE ForgeAssumption DEF C, R
<1>1. ASSUME NEW p \in Projects, Destroy(p)
      PROVE  LedgerInv'
  <2>1. /\ cmd = Idle /\ cmd.pc = "idle" /\ cmd.verb = "none"
        /\ cmd'.pc = "de_archive" /\ cmd'.verb = "destroy"
        /\ cmd'.who = <<p, Own>> /\ cmd'.repo = NoRepo
        /\ cmd'.todo = {row.who : row \in RowsIn(p)}
        /\ <<p, Own>> \in Accounts /\ place'.up = place.up \ {p}
        /\ \A a \in Accounts : IsBox(a) =>
              place'.box[a] = IF Home(a) = p THEN "none" ELSE place.box[a]
        /\ \A a \in Accounts :
              a \in place'.staged <=> a \in place.staged /\ Home(a) # p
        /\ SameRows /\ SameTokens /\ SameForks /\ SameNotes /\ torn' = torn
        /\ aim' = aim
    <3>1. /\ Begin("destroy", "de_archive", <<p, Own>>, NoRepo,
                   {row.who : row \in RowsIn(p)})
          /\ torn' = torn /\ aim' = aim
          /\ SameRows /\ SameTokens /\ SameForks /\ SameNotes
      BY <1>1 DEF Destroy, SameRows, SameTokens, SameForks, SameNotes
    <3>2. /\ cmd = Idle /\ cmd'.pc = "de_archive" /\ cmd'.verb = "destroy"
          /\ cmd'.who = <<p, Own>> /\ cmd'.repo = NoRepo
          /\ cmd'.todo = {row.who : row \in RowsIn(p)}
      BY <3>1 DEF Begin
    <3>3. cmd.pc = "idle" /\ cmd.verb = "none" /\ <<p, Own>> \in Accounts
      BY <3>2 DEF Idle, Accounts
    <3>4. /\ place'.up = place.up \ {p}
          /\ \A a \in Accounts : IsBox(a) =>
                place'.box[a] = IF Home(a) = p THEN "none" ELSE place.box[a]
          /\ \A a \in Accounts :
                a \in place'.staged <=> a \in place.staged /\ Home(a) # p
      <4>1. PICK left \in SUBSET Accounts :
              place' = [up |-> place.up \ {p},
                        box |-> [a \in DOMAIN place.box |->
                                   IF Home(a) = p THEN "none"
                                                  ELSE place.box[a]],
                        staged |-> place.staged \
                                     {a \in place.staged : Home(a) = p},
                        left |-> left]
        BY <1>1, HasTypes DEF Destroy
      <4> QED
        BY <4>1, HasTypes DEF Boxed
    <3> QED
      BY <3>1, <3>2, <3>3, <3>4
  <2>2. Begun'
    BY <2>1, VerbOf
    DEF ForgeInv, LedgerInv, Begun, StepsOf, Idle, Removal, Provide, Tell,
        Clear, Unbox, Retire, Purging
  <2>3. Destroys'
    <3>1. ASSUME NEW a \in Accounts, Home(a) = p
          PROVE  /\ a \notin place'.staged /\ ~Stands(a)'
                 /\ a \in torn \/ host.token[a] = "none" \/ RowsOf(a) # {}
      <4>1. a \notin place'.staged /\ ~Stands(a)'
        BY <3>1, <2>1 DEF Stands, Home, IsBox
      <4>2. a \in torn \/ Good(a)
        BY <2>1 DEF ForgeInv, LedgerInv, OthersGood, Hand
      <4> QED
        BY <4>1, <4>2 DEF Good, Clean
    <3>2. \A row \in RowsIn(p) : row.who \in cmd'.todo
      BY <2>1
    <3>3. \A a \in cmd'.todo : Home(a) = p
      BY <2>1 DEF RowsIn
    <3>4. Home(<<p, Own>>) = p
      BY DEF Home
    <3>5. RowsIn(p)' = RowsIn(p)
      BY <2>1 DEF RowsIn, SameRows
    <3>6. \A a \in Accounts : RowsOf(a)' = RowsOf(a)
      BY <2>1 DEF RowsOf, SameRows
    <3> QED
      BY <2>1, <3>1, <3>2, <3>3, <3>4, <3>5, <3>6
      DEF Destroys, Retire, SameTokens
  <2>4. OthersGood'
    <3>1. ASSUME NEW a \in Accounts \ (torn' \cup Hand'), Home(a) # p
          PROVE  a \notin torn \cup Hand /\ SameFor(a)
      <4>1. a \notin torn \cup Hand
        BY <3>1, <2>1 DEF Hand
      <4> QED
        BY <3>1, <4>1, <2>1
        DEF SameFor, RowsOf, Stands, SameRows, SameTokens, SameForks,
            SameNotes
    <3>2. ASSUME NEW a \in Accounts \ (torn' \cup Hand'), Home(a) = p
          PROVE  Good(a)'
      <4>1. a \notin cmd'.todo /\ a \notin torn
        BY <3>2, <2>1 DEF Hand
      <4>2. RowsOf(a) = {}
        BY <3>2, <4>1, <2>1 DEF RowsOf, RowsIn
      <4>3. Good(a)
        BY <4>1, <2>1 DEF ForgeInv, LedgerInv, OthersGood, Hand
      <4>4. RowsOf(a)' = {} /\ Clean(a)'
        BY <4>2, <4>3, <2>1 DEF Good, Clean, RowsOf, SameRows, SameTokens
      <4> QED
        BY <4>4 DEF Good
    <3> QED
      BY <3>1, <3>2, GoodFrame
  <2> QED
    BY ONLY <2>1, <2>2, <2>3, <2>4, PairsInv', ForgeInv, Frames
    DEF LedgerInv, PairsInv, Removal, Provide, Tell, Clear, Unbox, Retire,
        Purging
<1>2. ASSUME DestroyArchive
      PROVE  LedgerInv'
  <2>1. /\ cmd.verb = "destroy" /\ cmd.pc = "de_archive"
        /\ cmd'.pc = "de_token" /\ cmd'.verb = cmd.verb
        /\ cmd'.who = cmd.who /\ cmd'.repo = cmd.repo
        /\ cmd'.todo = cmd.todo /\ C \in Accounts
        /\ forge'.users = forge.users
        /\ \A a \in Accounts, r \in Repos :
              /\ (forge'.fork[a][r] = "none" <=> forge.fork[a][r] = "none")
              /\ (a \notin cmd.todo => forge'.fork[a][r] = forge.fork[a][r])
        /\ SameRows /\ SameTokens /\ SameNotes /\ place' = place
        /\ torn' = torn /\ aim' = aim
    <3>1. /\ cmd.verb = "destroy" /\ cmd.pc = "de_archive" /\ C \in Accounts
          /\ place' = place /\ torn' = torn /\ aim' = aim
          /\ SameRows /\ SameTokens
      BY <1>2, VerbOf, HasNames DEF DestroyArchive, Go, SameRows, SameTokens
    <3>2. /\ cmd'.pc = "de_token" /\ cmd'.verb = cmd.verb
          /\ cmd'.who = cmd.who /\ cmd'.repo = cmd.repo
          /\ cmd'.todo = cmd.todo
      BY <1>2, HasTypes DEF DestroyArchive, Go
    <3> DEFINE gone == {row.who : row \in Dev(RowsIn(Home(C)))}
    <3>4. gone \subseteq cmd.todo /\ \A row \in host.rows :
            Home(row.who) = Home(C) /\ row.repo # NoRepo => row.who \in gone
      BY <3>1 DEF ForgeInv, LedgerInv, Destroys, Dev, RowsIn
    <3>5. forge' = Shelved(gone, Repos)
      BY <1>2 DEF DestroyArchive
    <3> HIDE DEF gone
    <3>6. /\ forge'.users = forge.users /\ SameNotes
          /\ \A a \in Accounts, r \in Repos :
                /\ forge'.fork[a][r] = "none" <=> forge.fork[a][r] = "none"
                /\ a \notin gone => forge'.fork[a][r] = forge.fork[a][r]
      BY <3>5, ShelvedIs DEF SameNotes
    <3> QED
      BY <3>1, <3>2, <3>4, <3>6
  <2>2. Begun'
    BY <2>1, VerbOf
    DEF ForgeInv, LedgerInv, Begun, StepsOf, Idle, Removal, Provide, Tell,
        Clear, Unbox, Retire, Purging
  <2>3. Destroys'
    BY <2>1, HasTypes
    DEF ForgeInv, LedgerInv, Destroys, Retire, SameRows, SameForks,
        SameTokens, SameNotes, RowsIn, RowsOf, Home, Stands, IsBox
  <2>4. ForksOwned'
    BY <2>1, HasTypes
    DEF ForgeInv, LedgerInv, SameRows, SameForks, SameTokens, SameNotes,
        ForksOwned, Bare
  <2>6. OthersGood'
    <3>1. ASSUME NEW a \in Accounts \ (torn' \cup Hand')
          PROVE  Good(a)'
      <4>1. a \notin torn /\ a \notin Hand /\ a \notin cmd.todo
        BY <3>1, <2>1 DEF Hand
      <4>2. Good(a)
        BY <4>1 DEF ForgeInv, LedgerInv, OthersGood
      <4> QED
        BY <3>1, <4>1, <4>2, <2>1, HasTypes
        DEF SameRows, SameForks, SameTokens, SameNotes, Good, Clean, RowsOf,
            Stands, RowWorks, Live, IsBox, Home
    <3> QED
      BY <3>1, GoodFrame
  <2> QED
    BY ONLY <2>1, <2>2, <2>3, <2>4, <2>6, PairsInv', ForgeInv, Frames
    DEF LedgerInv, PairsInv, Removal, Provide, Tell, Clear, Unbox, Retire,
        Purging
<1>3. ASSUME DestroyTokens
      PROVE  LedgerInv'
  <2>1. /\ cmd.verb = "destroy" /\ cmd.pc = "de_token"
        /\ cmd'.pc = "rt_next" /\ cmd'.verb = cmd.verb /\ cmd'.who = cmd.who
        /\ cmd'.repo = cmd.repo /\ cmd'.todo = cmd.todo /\ C \in Accounts
        /\ \A a \in Accounts : host'.token[a] \in {host.token[a], "none"}
        /\ \A a \in Accounts \ cmd.todo : host'.token[a] = host.token[a]
        /\ \A row \in host.rows :
              Home(row.who) = Home(C) /\ row.repo # NoRepo
                => host'.token[row.who] = "none"
        /\ SameRows /\ SameForks /\ SameNotes /\ place' = place
        /\ torn' = torn /\ aim' = aim
    <3>1. /\ cmd.verb = "destroy" /\ cmd.pc = "de_token" /\ C \in Accounts
          /\ place' = place /\ torn' = torn /\ aim' = aim
          /\ SameForks /\ SameNotes
      BY <1>3, VerbOf, HasNames DEF DestroyTokens, Go, SameForks, SameNotes
    <3>2. /\ cmd'.pc = "rt_next" /\ cmd'.verb = cmd.verb
          /\ cmd'.who = cmd.who /\ cmd'.repo = cmd.repo
          /\ cmd'.todo = cmd.todo
      BY <1>3, HasTypes DEF DestroyTokens, Go
    <3> DEFINE gone == {row.who : row \in Dev(RowsIn(Home(C)))}
    <3>4. gone \subseteq cmd.todo /\ \A row \in host.rows :
            Home(row.who) = Home(C) /\ row.repo # NoRepo => row.who \in gone
      BY <3>1 DEF ForgeInv, LedgerInv, Destroys, Dev, RowsIn
    <3>5. host' = Untoken(host, gone)
      BY <1>3 DEF DestroyTokens
    <3> HIDE DEF gone
    <3>6. /\ SameRows
          /\ \A a \in Accounts :
                host'.token[a] = IF a \in gone THEN "none" ELSE host.token[a]
      BY <3>5, HasTypes DEF Untoken, SameRows
    <3>7. \A row \in host.rows : row.who \in Accounts
      BY HasTypes
    <3> QED
      BY <3>1, <3>2, <3>4, <3>6, <3>7
  <2>2. Begun'
    BY <2>1, VerbOf
    DEF ForgeInv, LedgerInv, Begun, StepsOf, Idle, Removal, Provide, Tell,
        Clear, Unbox, Retire, Purging
  <2>3. Destroys'
    <3>1. ASSUME NEW a \in Accounts, Home(a) = Home(C)
          PROVE  /\ a \in torn \/ host'.token[a] = "none"
                    \/ Tale(a) \in host.rows
                 /\ a \in torn \/ host'.token[a] = "none" \/ RowsOf(a) # {}
      <4>1. CASE a \in torn \/ host.token[a] = "none"
        BY <4>1, <2>1
      <4>2. CASE a \notin torn /\ host.token[a] # "none"
        <5>1. PICK row \in host.rows : row.who = a
          BY <3>1, <4>2, <2>1 DEF ForgeInv, LedgerInv, Destroys, RowsOf
        <5>2. CASE row.repo = NoRepo
          BY <5>1, <5>2, RowIs DEF RowsOf
        <5>3. CASE row.repo # NoRepo
          BY <3>1, <5>1, <5>3, <2>1
        <5> QED
          BY <5>2, <5>3
      <4> QED
        BY <4>1, <4>2
    <3>2. /\ \A a \in Accounts : RowsOf(a)' = RowsOf(a)
          /\ \A q : RowsIn(q)' = RowsIn(q)
          /\ \A a \in Accounts : Stands(a)' <=> Stands(a)
      BY <2>1 DEF RowsOf, RowsIn, Stands, SameRows
    <3> QED
      BY <2>1, <3>1, <3>2 DEF ForgeInv, LedgerInv, Destroys, Retire, SameRows
  <2>4. DeadTold'
    BY <2>1, HasTypes
    DEF ForgeInv, LedgerInv, SameRows, SameForks, SameTokens, SameNotes,
        DeadTold, Clear
  <2>5. OthersGood'
    <3>1. ASSUME NEW a \in Accounts \ (torn' \cup Hand')
          PROVE  Good(a)'
      <4>1. a \notin torn /\ a \notin Hand /\ a \notin cmd.todo
        BY <3>1, <2>1 DEF Hand
      <4>2. Good(a)
        BY <4>1 DEF ForgeInv, LedgerInv, OthersGood
      <4> QED
        BY <3>1, <4>1, <4>2, <2>1, HasTypes
        DEF SameRows, SameForks, SameTokens, SameNotes, Good, Clean, RowsOf,
            Stands, RowWorks, Live, IsBox, Home
    <3> QED
      BY <3>1, GoodFrame
  <2> QED
    BY ONLY <2>1, <2>2, <2>3, <2>4, <2>5, PairsInv', ForgeInv, Frames
    DEF LedgerInv, PairsInv, Removal, Provide, Tell, Clear, Unbox, Retire,
        Purging
<1> QED
  BY <1>1, <1>2, <1>3 DEF DestroyStep

-----------------------------------------------------------------------------
(* The history rows, one by one, and the end of box removal and destroy.   *)
LEMMA RetireKeeps ==
    ASSUME ForgeInv, PairsInv', RetireStep
    PROVE  LedgerInv'
<1> USE ForgeAssumption DEF C, R
<1>1. ASSUME RetireArchive
      PROVE  LedgerInv'
  <2>1. /\ cmd.verb \in {"unbox", "destroy"} /\ cmd.pc = "rt_next"
        /\ cmd'.pc = "rt_user" /\ cmd'.verb = cmd.verb
        /\ cmd'.repo = cmd.repo /\ cmd'.todo = cmd.todo /\ C \in Accounts
        /\ cmd'.who \in Accounts /\ Tale(cmd'.who) \in host.rows
        /\ (IF cmd.verb = "destroy" THEN Home(cmd'.who) = Home(C)
                                    ELSE cmd'.who = C)
        /\ \A a \in Accounts : a # cmd'.who => forge'.notes[a] = forge.notes[a]
        /\ SameRows /\ SameTokens /\ SameForks /\ place' = place
        /\ torn' = torn /\ aim' = aim
    <3>1. /\ cmd.verb \in {"unbox", "destroy"} /\ cmd.pc = "rt_next"
          /\ C \in Accounts /\ torn' = torn /\ aim' = aim /\ place' = place
          /\ SameRows /\ SameTokens
      BY <1>1, VerbOf, HasNames
      DEF RetireArchive, Retire, SameRows, SameTokens
    <3>2. PICK row \in Tales, up \in {forge.up, TRUE} :
            /\ cmd' = [cmd EXCEPT !.pc = "rt_user", !.who = row.who]
            /\ forge' = [forge EXCEPT !.up = up, !.notes[row.who] =
                           IF up /\ @ = "live" THEN "archived" ELSE @]
      BY <1>1 DEF RetireArchive
    <3>3. /\ cmd'.pc = "rt_user" /\ cmd'.verb = cmd.verb
          /\ cmd'.who = row.who /\ cmd'.repo = cmd.repo
          /\ cmd'.todo = cmd.todo
      BY <3>2, HasTypes
    <3>4. /\ row \in host.rows /\ row.repo = NoRepo
          /\ IF cmd.verb = "destroy" THEN Home(row.who) = Home(C)
                                     ELSE row.who = C
      BY DEF Tales
    <3>5. row.who \in Accounts /\ Tale(row.who) \in host.rows
      BY <3>4, RowIs
    <3>6. /\ SameForks
          /\ \A a \in Accounts : a # row.who => forge'.notes[a] = forge.notes[a]
      <4> DEFINE new == [forge.notes EXCEPT ![row.who] =
                           IF up /\ @ = "live" THEN "archived" ELSE @]
      <4>1. forge' = [forge EXCEPT !.up = up, !.notes = new]
        BY <3>2
      <4>2. \A a \in Accounts : a # row.who => new[a] = forge.notes[a]
        BY HasTypes
      <4> HIDE DEF new
      <4>3. /\ forge'.notes = new /\ forge'.users = forge.users
            /\ forge'.fork = forge.fork
        BY <4>1, HasTypes
      <4> QED
        BY <4>2, <4>3 DEF SameForks
    <3> QED
      BY <3>1, <3>3, <3>4, <3>5, <3>6
  <2>2. Begun'
    BY <2>1, VerbOf
    DEF ForgeInv, LedgerInv, Begun, StepsOf, Idle, Removal, Provide, Tell,
        Clear, Unbox, Retire, Purging
  <2>3. Unboxes' /\ Destroys'
    <3>1. CASE cmd.verb = "unbox"
      BY <3>1, <2>1, HasTypes
      DEF ForgeInv, LedgerInv, Unboxes, Unbox, Retire, SameRows, SameForks,
          SameTokens, SameNotes, Clean, RowsOf, IsBox, Destroys, Tale, Bare
    <3>2. CASE cmd.verb = "destroy"
      BY <3>2, <2>1, HasTypes
      DEF ForgeInv, LedgerInv, Destroys, Retire, SameRows, SameForks,
          SameTokens, SameNotes, RowsIn, RowsOf, Home, Unboxes, Stands, IsBox,
          Tale, Bare
    <3> QED
      BY <2>1, <3>1, <3>2
  <2>4. OthersGood'
    <3>1. ASSUME NEW a \in Accounts \ (torn' \cup Hand'), a # C
          PROVE  Good(a)'
      <4>1. a \notin torn /\ a \notin Hand /\ a # cmd'.who
        BY <3>1, <2>1 DEF Hand
      <4>2. Good(a)
        BY <4>1 DEF ForgeInv, LedgerInv, OthersGood
      <4> QED
        BY <3>1, <4>1, <4>2, <2>1, HasTypes
        DEF Good, Clean, RowsOf, Stands, RowWorks, Live, SameRows, SameTokens,
            SameForks
    <3>2. ASSUME NEW a \in Accounts \ (torn' \cup Hand'), a = C
          PROVE  Good(a)'
      <4>1. a # cmd'.who /\ a \notin cmd.todo /\ a \notin torn
        BY <3>2, <2>1 DEF Hand
      <4>2. cmd.verb = "destroy"
        BY <3>2, <4>1, <2>1
      <4>3. RowsOf(a) = {}
        BY <3>2, <4>1, <4>2 DEF ForgeInv, LedgerInv, Destroys, RowsOf, RowsIn
      <4>4. Clean(a)
        BY <3>2, <4>1, <4>2, <4>3 DEF ForgeInv, LedgerInv, Destroys, Clean
      <4>5. RowsOf(a)' = {} /\ Clean(a)'
        BY <2>1, <4>3, <4>4 DEF RowsOf, Clean, SameRows, SameTokens
      <4> QED
        BY <4>5 DEF Good
    <3> QED
      BY <3>1, <3>2, GoodFrame
  <2> QED
    BY ONLY <2>1, <2>2, <2>3, <2>4, PairsInv', ForgeInv, Frames
    DEF LedgerInv, PairsInv, Removal, Provide, Tell, Clear, Unbox, Retire,
        Purging
<1>2. ASSUME RetireUser
      PROVE  LedgerInv'
  <2>1. /\ cmd.verb \in {"unbox", "destroy"} /\ cmd.pc = "rt_user"
        /\ cmd'.pc = "rt_token" /\ cmd'.verb = cmd.verb
        /\ cmd'.who = cmd.who /\ cmd'.repo = cmd.repo
        /\ cmd'.todo = cmd.todo
        /\ C \in Accounts /\ Tale(C) \in host.rows
        /\ SameForks \/ \A r \in Repos : forge'.fork[C][r] = "none"
        /\ \A a \in Accounts \ {C} : (a \in forge'.users <=> a \in forge.users)
        /\ \A a \in Accounts \ {C}, r \in Repos :
              forge'.fork[a][r] = forge.fork[a][r]
        /\ (host.token[C] = "none" => host'.token[C] = "none")
        /\ \A a \in Accounts \ {C} : host'.token[a] = host.token[a]
        /\ SameRows /\ SameNotes /\ place' = place /\ torn' = torn
        /\ aim' = aim
    <3>1. /\ cmd.verb \in {"unbox", "destroy"} /\ cmd.pc = "rt_user"
          /\ C \in Accounts /\ torn' = torn /\ aim' = aim /\ place' = place
      BY <1>2, VerbOf, HasNames DEF RetireUser, Go, Retire
    <3>2. /\ cmd'.pc = "rt_token" /\ cmd'.verb = cmd.verb
          /\ cmd'.who = cmd.who /\ cmd'.repo = cmd.repo
          /\ cmd'.todo = cmd.todo
      BY <1>2, HasTypes DEF RetireUser, Go
    <3>3. Tale(C) \in host.rows
      BY <3>1 DEF ForgeInv, LedgerInv, Unboxes, Destroys
    <3>5. /\ forge'.notes = forge.notes
          /\ SameForks \/ \A r \in Repos : forge'.fork[C][r] = "none"
          /\ \A a \in Accounts \ {C} :
                (a \in forge'.users <=> a \in forge.users)
          /\ \A a \in Accounts \ {C}, r \in Repos :
                forge'.fork[a][r] = forge.fork[a][r]
      <4>1. CASE forge' = Unuser(forge, C)
        BY <3>1, <4>1, UnuserIs
      <4>2. CASE forge' = forge
        BY <4>2 DEF SameForks
      <4> QED
        BY <1>2, <4>1, <4>2 DEF RetireUser
    <3>6. /\ host'.rows = host.rows
          /\ host.token[C] = "none" => host'.token[C] = "none"
          /\ \A a \in Accounts \ {C} : host'.token[a] = host.token[a]
      <4>1. CASE host' = Stale(host, C)
        BY <3>1, <4>1, HasTypes DEF Stale
      <4>2. CASE host' = host
        BY <4>2
      <4> QED
        BY <1>2, <4>1, <4>2 DEF RetireUser
    <3> QED
      BY <3>1, <3>2, <3>3, <3>5, <3>6 DEF SameRows, SameNotes
  <2>2. Begun'
    BY <2>1, VerbOf
    DEF ForgeInv, LedgerInv, Begun, StepsOf, Idle, Removal, Provide, Tell,
        Clear, Unbox, Retire, Purging
  <2>3. Unboxes' /\ Destroys'
    <3>1. CASE cmd.verb = "unbox"
      BY <3>1, <2>1, HasTypes
      DEF ForgeInv, LedgerInv, Unboxes, Unbox, Retire, SameRows, SameForks,
          SameTokens, SameNotes, Clean, RowsOf, IsBox, Destroys, Tale, Bare
    <3>2. CASE cmd.verb = "destroy"
      BY <3>2, <2>1, HasTypes
      DEF ForgeInv, LedgerInv, Destroys, Retire, SameRows, SameForks,
          SameTokens, SameNotes, RowsIn, RowsOf, Home, Unboxes, Stands, IsBox,
          Tale, Bare
    <3> QED
      BY <2>1, <3>1, <3>2
  <2>4. ForksOwned'
    BY <2>1, HasTypes
    DEF ForgeInv, LedgerInv, SameRows, SameForks, SameTokens, SameNotes,
        ForksOwned, Bare
  <2>6. DeadTold'
    BY <2>1, HasTypes DEF ForgeInv, LedgerInv, DeadTold, Clear, SameRows
  <2>7. OthersGood'
    <3>1. ASSUME NEW a \in Accounts \ (torn' \cup Hand')
          PROVE  Good(a)'
      <4>1. a \notin torn /\ a \notin Hand /\ a # C
        BY <3>1, <2>1 DEF Hand
      <4>2. Good(a)
        BY <4>1 DEF ForgeInv, LedgerInv, OthersGood
      <4> QED
        BY <3>1, <4>1, <4>2, <2>1, HasTypes
        DEF SameRows, SameForks, SameTokens, SameNotes, Good, Clean, RowsOf,
            Stands, RowWorks, Live, IsBox, Home
    <3> QED
      BY <3>1, GoodFrame
  <2> QED
    BY ONLY <2>1, <2>2, <2>3, <2>4, <2>6, <2>7, PairsInv', ForgeInv, Frames
    DEF LedgerInv, PairsInv, Removal, Provide, Tell, Clear, Unbox, Retire,
        Purging
<1>3. ASSUME RetireToken
      PROVE  LedgerInv'
  <2>1. /\ cmd.verb \in {"unbox", "destroy"} /\ cmd.pc = "rt_token"
        /\ cmd'.pc = "rt_prune" /\ cmd'.verb = cmd.verb
        /\ cmd'.who = cmd.who /\ cmd'.repo = cmd.repo
        /\ cmd'.todo = cmd.todo /\ C \in Accounts /\ host'.token[C] = "none"
        /\ \A a \in Accounts \ {C} : host'.token[a] = host.token[a]
        /\ SameRows /\ SameForks /\ SameNotes /\ place' = place
        /\ torn' = torn /\ aim' = aim
    BY <1>3, HasTypes, HasNames, VerbOf, VerbOf
    DEF RetireToken, Go, Untoken, SameRows, SameForks, SameNotes, Retire
  <2>2. Begun'
    BY <2>1, VerbOf
    DEF ForgeInv, LedgerInv, Begun, StepsOf, Idle, Removal, Provide, Tell,
        Clear, Unbox, Retire, Purging
  <2>3. Unboxes' /\ Destroys'
    <3>1. CASE cmd.verb = "unbox"
      BY <3>1, <2>1, HasTypes
      DEF ForgeInv, LedgerInv, Unboxes, Unbox, Retire, SameRows, SameForks,
          SameTokens, SameNotes, Clean, RowsOf, IsBox, Destroys, Tale, Bare
    <3>2. CASE cmd.verb = "destroy"
      BY <3>2, <2>1, HasTypes
      DEF ForgeInv, LedgerInv, Destroys, Retire, SameRows, SameForks,
          SameTokens, SameNotes, RowsIn, RowsOf, Home, Unboxes, Stands, IsBox,
          Tale, Bare
    <3> QED
      BY <2>1, <3>1, <3>2
  <2>4. DeadTold'
    BY <2>1, HasTypes
    DEF ForgeInv, LedgerInv, SameRows, SameForks, SameTokens, SameNotes,
        DeadTold, Clear
  <2>5. OthersGood'
    <3>1. ASSUME NEW a \in Accounts \ (torn' \cup Hand')
          PROVE  Good(a)'
      <4>1. a \notin torn /\ a \notin Hand /\ a # C
        BY <3>1, <2>1 DEF Hand
      <4>2. Good(a)
        BY <4>1 DEF ForgeInv, LedgerInv, OthersGood
      <4> QED
        BY <3>1, <4>1, <4>2, <2>1, HasTypes
        DEF SameRows, SameForks, SameTokens, SameNotes, Good, Clean, RowsOf,
            Stands, RowWorks, Live, IsBox, Home
    <3> QED
      BY <3>1, GoodFrame
  <2> QED
    BY ONLY <2>1, <2>2, <2>3, <2>4, <2>5, PairsInv', ForgeInv, Frames
    DEF LedgerInv, PairsInv, Removal, Provide, Tell, Clear, Unbox, Retire,
        Purging
<1>4. ASSUME RetirePrune
      PROVE  LedgerInv'
  <2>1. /\ cmd.verb \in {"unbox", "destroy"} /\ cmd.pc = "rt_prune"
        /\ cmd'.pc = "rt_next" /\ cmd'.verb = cmd.verb /\ cmd'.who = cmd.who
        /\ cmd'.repo = cmd.repo /\ cmd'.todo = cmd.todo /\ C \in Accounts
        /\ host'.rows = host.rows \ {Tale(C)}
        /\ place'.up = place.up /\ place'.box = place.box
        /\ place'.staged = place.staged \ {C} /\ SameTokens /\ SameForks
        /\ SameNotes /\ torn' = torn /\ aim' = aim
    <3>1. Unstaged({C})
      BY <1>4 DEF RetirePrune
    <3>2. /\ place'.up = place.up /\ place'.box = place.box
          /\ place'.staged = place.staged \ {C}
      BY <3>1, UnstagedIs
    <3> QED
      BY <1>4, <3>2, HasTypes, HasNames, VerbOf
      DEF RetirePrune, Go, SameTokens, SameForks, SameNotes, Retire
  <2>2. Begun'
    BY <2>1, VerbOf
    DEF ForgeInv, LedgerInv, Begun, StepsOf, Idle, Removal, Provide, Tell,
        Clear, Unbox, Retire, Purging
  <2>3. host.token[C] = "none"
    BY <2>1 DEF ForgeInv, LedgerInv, Unboxes, Destroys
  <2>4. Unboxes' /\ Destroys'
    <3>1. CASE cmd.verb = "unbox"
      BY <3>1, <2>3, <2>1, HasTypes
      DEF ForgeInv, LedgerInv, Unboxes, Unbox, Retire, SameRows, SameForks,
          SameTokens, SameNotes, Clean, RowsOf, IsBox, Destroys, Tale, Row
    <3>2. CASE cmd.verb = "destroy"
      <4>1. ASSUME NEW a \in Accounts, Home(a) = Home(C)
            PROVE  /\ a \notin place'.staged /\ ~Stands(a)'
                   /\ a \in torn' \/ host'.token[a] = "none"
                      \/ RowsOf(a)' # {}
                   /\ a \in torn' \/ host'.token[a] = "none"
                      \/ Tale(a) \in host'.rows
        <5>1. /\ a \notin place.staged /\ ~Stands(a)
              /\ a \in torn \/ host.token[a] = "none" \/ Tale(a) \in host.rows
          BY <3>2, <4>1, <2>1 DEF ForgeInv, LedgerInv, Destroys, Retire
        <5>2. a \notin place'.staged /\ ~Stands(a)'
          BY <5>1, <2>1 DEF Stands
        <5>3. a = C => host'.token[a] = "none"
          BY <2>3, <2>1 DEF SameTokens
        <5>4. a # C => Tale(a) # Tale(C)
          BY DEF Tale
        <5>5. a \in torn' \/ host'.token[a] = "none" \/ Tale(a) \in host'.rows
          BY <5>1, <5>3, <5>4, <2>1 DEF SameTokens
        <5>6. Tale(a) \in host'.rows => RowsOf(a)' # {}
          BY DEF RowsOf, Tale
        <5> QED
          BY <5>2, <5>5, <5>6
      <4>2. \A row \in RowsIn(Home(C))' : row \in RowsIn(Home(C))
        BY <2>1 DEF RowsIn
      <4> QED
        BY <3>2, <4>1, <4>2, <2>1 DEF ForgeInv, LedgerInv, Destroys, Unboxes
    <3> QED
      BY <2>1, <3>1, <3>2
  <2>5. FiniteRows'
    BY <2>1, FS_Subset DEF ForgeInv, LedgerInv, FiniteRows
  <2>7. DeadTold'
    BY <2>3, <2>1, HasTypes
    DEF ForgeInv, LedgerInv, DeadTold, Clear, SameTokens, Tale
  <2>8. OthersGood'
    <3>1. ASSUME NEW a \in Accounts \ (torn' \cup Hand')
          PROVE  Good(a)'
      <4>1. a \notin torn /\ a \notin Hand /\ a # C
        BY <3>1, <2>1 DEF Hand
      <4>2. Good(a)
        BY <4>1 DEF ForgeInv, LedgerInv, OthersGood
      <4> QED
        BY <3>1, <4>1, <4>2, <2>1, HasTypes
        DEF SameRows, SameForks, SameTokens, SameNotes, Good, Clean, RowsOf,
            Stands, RowWorks, Live, IsBox, Home, Tale
    <3> QED
      BY <3>1, GoodFrame
  <2> QED
    BY ONLY <2>1, <2>2, <2>3, <2>4, <2>5, <2>7, <2>8, PairsInv', ForgeInv,
       Frames
    DEF LedgerInv, PairsInv, Removal, Provide, Tell, Clear, Unbox, Retire,
        Purging
<1>5. ASSUME RetireEnds
      PROVE  LedgerInv'
  <2>1. /\ cmd.verb \in {"unbox", "destroy"} /\ cmd.pc = "rt_next"
        /\ cmd' = Idle /\ cmd'.pc = "idle" /\ cmd'.verb = "none"
        /\ cmd'.who = Nobody /\ cmd'.todo = {} /\ Tales = {}
        /\ C \in Accounts
        /\ torn' = torn \ (IF R \in Repos THEN {C} ELSE {})
        /\ host'.rows = IF cmd.verb = "destroy" THEN host.rows \ RowsIn(Home(C))
                          ELSE host.rows
        /\ SameTokens /\ SameForks /\ SameNotes /\ place' = place
        /\ aim' = aim
    <3>1. /\ cmd.verb \in {"unbox", "destroy"} /\ cmd.pc = "rt_next"
          /\ C \in Accounts /\ place' = place /\ aim' = aim /\ Tales = {}
          /\ cmd' = Idle /\ SameForks /\ SameNotes
          /\ torn' = torn \ (IF R \in Repos THEN {C} ELSE {})
      BY <1>5, VerbOf, HasNames
      DEF RetireEnds, End, Retire, SameForks, SameNotes
    <3>2. /\ cmd'.pc = "idle" /\ cmd'.verb = "none" /\ cmd'.who = Nobody
          /\ cmd'.todo = {}
      BY <3>1 DEF Idle
    <3>3. /\ SameTokens
          /\ host'.rows = IF cmd.verb = "destroy"
                          THEN host.rows \ RowsIn(Home(C)) ELSE host.rows
      BY <1>5, HasTypes DEF RetireEnds, SameTokens
    <3> QED
      BY <3>1, <3>2, <3>3
  <2>2. Begun'
    BY <2>1 DEF ForgeInv, LedgerInv, Begun, StepsOf
  <2>3. \A a \in Accounts : Tale(a) \in host.rows =>
           IF cmd.verb = "destroy" THEN Home(a) # Home(C) ELSE a # C
    BY <2>1 DEF Tales, Tale
  <2>4. FiniteRows'
    BY <2>1, FS_Subset DEF ForgeInv, LedgerInv, FiniteRows
  <2>6. DeadTold'
    BY <2>3, <2>1, HasTypes
    DEF ForgeInv, LedgerInv, DeadTold, Clear, SameTokens, RowsIn, Tale
  <2>7. OthersGood'
    <3>1. CASE cmd.verb = "unbox"
      <4>1. ASSUME NEW a \in Accounts \ (torn' \cup Hand'), a # C
            PROVE  a \notin torn \cup Hand /\ SameFor(a)
        <5>1. a \notin torn
          BY <4>1, <2>1
        <5>2. a \notin Hand
          BY <3>1, <4>1, <2>1 DEF ForgeInv, LedgerInv, Unboxes, Hand
        <5> QED
          BY <3>1, <5>1, <5>2, <2>1
          DEF SameFor, RowsOf, Stands, SameTokens, SameForks, SameNotes
      <4>2. ASSUME NEW a \in Accounts \ (torn' \cup Hand'), a = C
            PROVE  Good(a)'
        <5>1. Clean(a) /\ IsBox(a) /\ ~Stands(a)
          BY <3>1, <4>2, <2>3, <2>1, HasTypes
          DEF ForgeInv, LedgerInv, Unboxes, Retire, Stands
        <5>2. Clean(a)' /\ ~Stands(a)' /\ Tale(a) \notin host'.rows
          BY <3>1, <4>2, <5>1, <2>1, <2>3 DEF Clean, Stands, SameTokens
        <5> QED
          BY <5>1, <5>2 DEF Good, Tale, IsBox
      <4> QED
        BY <4>1, <4>2, GoodFrame
    <3>2. CASE cmd.verb = "destroy"
      <4>1. ASSUME NEW a \in Accounts \ (torn' \cup Hand'),
                   Home(a) # Home(C)
            PROVE  a \notin torn \cup Hand /\ SameFor(a)
        <5>1. a \notin torn
          BY <4>1, <3>2, <2>1 DEF ForgeInv, LedgerInv, Destroys
        <5>2. a \notin Hand
          BY <3>2, <4>1, <2>1 DEF ForgeInv, LedgerInv, Destroys, Hand
        <5>3. RowsOf(a)' = RowsOf(a)
          BY <3>2, <4>1, <2>1 DEF RowsOf, RowsIn
        <5> QED
          BY <3>2, <5>1, <5>2, <5>3, <2>1
          DEF SameFor, Stands, SameTokens, SameForks, SameNotes
      <4>2. ASSUME NEW a \in Accounts \ (torn' \cup Hand'),
                   Home(a) = Home(C)
            PROVE  Good(a)'
        <5>1. a \notin torn
          BY <4>2, <3>2, <2>1 DEF ForgeInv, LedgerInv, Destroys
        <5>2. Clean(a)
          BY <3>2, <4>2, <5>1, <2>3, <2>1
          DEF ForgeInv, LedgerInv, Destroys, Retire, Clean
        <5>3. RowsOf(a)' = {} /\ Clean(a)'
          BY <3>2, <4>2, <5>2, <2>1 DEF RowsOf, RowsIn, Clean, SameTokens
        <5> QED
          BY <5>3 DEF Good
      <4> QED
        BY <4>1, <4>2, GoodFrame
    <3> QED
      BY <2>1, <3>1, <3>2
  <2> QED
    BY ONLY <2>1, <2>2, <2>3, <2>4, <2>6, <2>7, PairsInv', ForgeInv, Frames
    DEF LedgerInv, PairsInv, Removal, Provide, Tell, Clear, Unbox, Retire,
        Purging
<1> QED
  BY <1>1, <1>2, <1>3, <1>4, <1>5 DEF RetireStep

-----------------------------------------------------------------------------
(* Every step belongs to one of these families.                            *)
LEMMA ForgeCases ==
    ASSUME Next
    PROVE  \/ MirrorStep \/ OutageStep \/ ProvisionStep \/ HistoryStep
           \/ RestStep \/ DetachStep \/ UnboxStep \/ DestroyStep \/ RetireStep
<1>1. CASE \/ CommandDies \/ BoxRuns \/ PurgeUser \/ PurgeAnswerLost
           \/ PurgeToken
           \/ (\E p \in Projects : Rewire(p))
           \/ (\E x \in Accounts : Purge(x) \/ OperatorTidies(x))
  BY <1>1 DEF RestStep
<1>2. CASE ForgeStops \/ ForgeStarts
  BY <1>2 DEF OutageStep
<1>3. CASE \/ (\E r \in Repos :
                  RepoAdd(r) \/ RepoRemove(r) \/ SetFetchEnabled(r))
           \/ (\E x \in Accounts, r \in Repos : SetActiveFork(x, r))
           \/ Migrate \/ MigrateFails \/ Stamp
           \/ RemoveGate \/ RemoveList \/ (\E x \in Accounts : RemoveFork(x))
           \/ RemoveToken("rr_token", "rr_owner")
           \/ RemoveToken("rr_last", "rr_next")
           \/ RemoveOwner \/ RemoveMirror \/ RemoveHost
  BY <1>3 DEF MirrorStep
<1>4. CASE \/ (\E p \in Projects, r \in Repos : DevCreate(p, r) \/ Attach(p, r))
           \/ (\E x \in Accounts, r \in Repos : DevBoxAdd(x, r))
           \/ (\E p \in Projects : PlainCreate(p))
           \/ ProvisionUser \/ ProvisionFork \/ ProvisionToken
           \/ ProvisionRecord \/ ProvisionStage
  BY <1>4 DEF ProvisionStep
<1>5. CASE \/ (\E p \in Projects : NotesCreate(p))
           \/ (\E x \in Accounts : NotesBoxAdd(x))
           \/ HistoryRepo \/ HistoryUser \/ HistoryToken \/ HistoryRecord
           \/ HistoryStage \/ HistoryFails \/ NotesBoxFails \/ CleanRow
           \/ CleanToken
  BY <1>5 DEF HistoryStep
<1>6. CASE \/ (\E p \in Projects, all \in BOOLEAN : Detach(p, all))
           \/ DetachArchive \/ DetachToken \/ DetachStage
  BY <1>6 DEF DetachStep
<1>7. CASE \/ (\E x \in DOMAIN place.box : BoxRemove(x))
           \/ BoxArchive \/ BoxToken \/ BoxPrune
  BY <1>7 DEF UnboxStep
<1>8. CASE \/ (\E p \in Projects : Destroy(p))
           \/ DestroyArchive \/ DestroyTokens
  BY <1>8 DEF DestroyStep
<1>9. CASE \/ RetireArchive \/ RetireUser \/ RetireToken \/ RetirePrune
           \/ RetireEnds
  BY <1>9 DEF RetireStep
<1> QED
  BY ONLY Next, <1>1, <1>2, <1>3, <1>4, <1>5, <1>6, <1>7, <1>8, <1>9, Zenon
     DEF Next

(* A step that changes nothing keeps the invariant.                        *)
LEMMA LedgerStutters ==
    ASSUME ForgeInv, UNCHANGED vars
    PROVE  LedgerInv'
BY DEF vars, ForgeInv, LedgerInv, FiniteRows, ForksOwned, RowsForked,
   TalesBare, RowsPaired, Paired, Doubling, Adopting, Wiped, DeadTold,
   OthersGood, Begun, Removes, Purges, Provisions, Chronicles, Detaches,
   Unboxes, Destroys, C, R, Bare, Hand, Good, Clean, RowsOf, RowsIn, Stands,
   RowWorks, Live, Attached, Idle

(* It holds at first: nothing stands and Gitea is empty.                   *)
LEMMA LedgerBegins ==
    ASSUME Init
    PROVE  ForgeInv
<1> USE ForgeAssumption
<1>1. /\ forge = [up |-> FALSE, users |-> {}, minted |-> {},
                  fork |-> [a \in Accounts |-> [r \in Repos |-> "none"]],
                  mirror |-> [r \in Repos |-> "none"],
                  notes |-> [a \in Accounts |-> "none"]]
      /\ host = [stamp |-> {}, token |-> [a \in Accounts |-> "none"],
                 rows |-> {}, active |-> [r \in Repos |-> Nobody],
                 hidden |-> {}]
      /\ place = [up |-> {},
                  box |-> [a \in Boxed |-> "none"], staged |-> {},
                  left |-> {}]
      /\ cmd = Idle /\ torn = {} /\ aim \in Aims
  BY DEF Init, Boxed
<1>2. ForgeTypes
  <2>1. forge \in GiteaType
    BY <1>1 DEF GiteaType
  <2>2. host \in HostType
    BY <1>1 DEF HostType
  <2>3. place \in PlaceType
    BY <1>1 DEF PlaceType
  <2> QED
    BY <1>1, <2>1, <2>2, <2>3, IdleTyped DEF ForgeTypes
<1>3. /\ host.rows = {} /\ \A a \in Accounts : Bare(a) /\ Clean(a)
      /\ \A a \in Accounts : RowsOf(a) = {} /\ host.token[a] = "none"
  BY <1>1 DEF Bare, Clean, RowsOf
<1>4. cmd.pc = "idle" /\ cmd.verb = "none"
  BY <1>1 DEF Idle
<1>5. /\ FiniteRows /\ ForksOwned /\ RowsForked /\ TalesBare /\ RowsPaired
      /\ DeadTold
  BY <1>3, FS_EmptySet
  DEF FiniteRows, ForksOwned, RowsForked, TalesBare, RowsPaired, Paired,
      DeadTold
<1>6. OthersGood
  BY <1>3 DEF OthersGood, Good
<1>7. Begun
  BY <1>1, <1>4 DEF Begun, StepsOf
<1>8. /\ Removes /\ Purges /\ Provisions /\ Chronicles /\ Detaches
      /\ Unboxes /\ Destroys
  BY <1>4 DEF Removes, Purges, Provisions, Chronicles, Detaches, Unboxes,
     Destroys, Removal, Purging, Provide, Tell, Clear
<1> QED
  BY <1>2, <1>5, <1>6, <1>7, <1>8 DEF ForgeInv, LedgerInv

(* Every step of DevForge keeps the invariant.                             *)
LEMMA LedgerKept ==
    ASSUME ForgeInv, Next
    PROVE  LedgerInv'
<1>0. PairsInv'
  BY PairsKept
<1>1. CASE MirrorStep
  BY <1>0, <1>1, MirrorKeeps
<1>2. CASE OutageStep
  BY <1>0, <1>2, OutageKeeps
<1>3. CASE ProvisionStep
  BY <1>0, <1>3, ProvisionKeeps
<1>4. CASE HistoryStep
  BY <1>0, <1>4, HistoryKeeps
<1>5. CASE RestStep
  BY <1>0, <1>5, RestKeeps
<1>6. CASE DetachStep
  BY <1>0, <1>6, DetachKeeps
<1>7. CASE UnboxStep
  BY <1>0, <1>7, UnboxKeeps
<1>8. CASE DestroyStep
  BY <1>0, <1>8, DestroyKeeps
<1>9. CASE RetireStep
  BY <1>0, <1>9, RetireKeeps
<1> QED
  BY <1>1, <1>2, <1>3, <1>4, <1>5, <1>6, <1>7, <1>8, <1>9, ForgeCases

(* The invariant holds throughout, for any projects, boxes and repos.      *)
THEOREM ForgeInvariant == Spec => []ForgeInv
<1>1. ForgeInv /\ [Next]_vars => ForgeInv'
  <2> SUFFICES ASSUME ForgeInv, [Next]_vars
               PROVE  ForgeInv'
    OBVIOUS
  <2>1. ForgeTypes'
    BY TypesKept
  <2>2. LedgerInv'
    BY LedgerKept, LedgerStutters
  <2> QED
    BY <2>1, <2>2 DEF ForgeInv
<1> QED
  BY <1>1, LedgerBegins, PTL DEF Spec

(* A behaviour of the composition is one of DevForge for its variables.    *)
LEMMA BothForge == BothSpec => Spec
<1>1. BothInit => Init
  BY DEF BothInit
<1>2. [BothNext]_bothVars => [Next]_vars
  BY DEF BothNext, WireStep, ForgeStep, bothVars
<1> QED
  BY <1>1, <1>2, PTL DEF BothSpec, Spec

(* What attachments.json says works, between commands, of everybody that   *)
(* stands and that no command died on (provision, retire and purge in      *)
(* cli/gitea.py, in the order of their calls).                             *)
THEOREM ForgeRowsWork == BothSpec => []RowsWork
<1>1. ASSUME ForgeInv
      PROVE  RowsWork
  <2> SUFFICES ASSUME NEW row \in host.rows, AtRest(row.who), Stands(row.who)
               PROVE  RowWorks(row)
    BY DEF RowsWork, RowWorks
  <2>1. row.who \in Accounts /\ row \in RowsOf(row.who)
    BY <1>1, HasTypes DEF RowsOf
  <2>2. row.who \notin torn \cup Hand
    BY DEF AtRest, Hand, Idle
  <2> QED
    BY <1>1, <2>1, <2>2 DEF ForgeInv, LedgerInv, OthersGood, Good
<1> QED
  BY <1>1, ForgeInvariant, BothForge, PTL

(* No token of a dev or history account, on the host or in a container,    *)
(* outlives its row (the token files of gitea.py and _stage_dev_gitea).    *)
THEOREM ForgeTokensRecorded == BothSpec => []TokensRecorded
<1>1. ASSUME ForgeInv
      PROVE  TokensRecorded
  <2> SUFFICES ASSUME NEW a \in Accounts, AtRest(a),
                      host.token[a] # "none" \/ a \in place.staged
               PROVE  RowsOf(a) # {}
    BY DEF TokensRecorded
  <2>1. a \notin torn \cup Hand
    BY DEF AtRest, Hand, Idle
  <2> QED
    BY <1>1, <2>1 DEF ForgeInv, LedgerInv, OthersGood, Good, Clean
<1> QED
  BY <1>1, ForgeInvariant, BothForge, PTL

(* Every step keeps the live forks, and where one deletes a fork or a user *)
(* the invariant says that it is not live.                                 *)
LEMMA ForksKept ==
    ASSUME ForgeInv, [Next]_vars
    PROVE  ForksStay
<1> USE DEF C, R
<1>1. ASSUME CommandDies
      PROVE  ForksStay
  BY <1>1 DEF CommandDies, ForksStay, Live
<1>2. ASSUME ForgeStops
      PROVE  ForksStay
  BY <1>2, HasTypes DEF ForgeStops, ForksStay, Live
<1>3. ASSUME ForgeStarts
      PROVE  ForksStay
  BY <1>3, HasTypes DEF ForgeStarts, Resume, ForksStay, Live
<1>4. ASSUME NEW r \in Repos, RepoAdd(r)
      PROVE  ForksStay
  BY <1>4, HasTypes DEF RepoAdd, Resume, ForksStay, Live
<1>5. ASSUME NEW r \in Repos, RepoRemove(r)
      PROVE  ForksStay
  BY <1>5, HasTypes DEF RepoRemove, Resume, ForksStay, Live
<1>6. ASSUME NEW r \in Repos, SetFetchEnabled(r)
      PROVE  ForksStay
  BY <1>6 DEF SetFetchEnabled, ForksStay, Live
<1>7. ASSUME Migrate
      PROVE  ForksStay
  BY <1>7, HasTypes DEF Migrate, ForksStay, Live
<1>8. ASSUME MigrateFails
      PROVE  ForksStay
  BY <1>8, HasTypes DEF MigrateFails, ForksStay, Live
<1>9. ASSUME Stamp
      PROVE  ForksStay
  BY <1>9 DEF Stamp, ForksStay, Live
<1>10. ASSUME RemoveGate
      PROVE  ForksStay
  BY <1>10 DEF RemoveGate, ForksStay, Live
<1>11. ASSUME RemoveList
      PROVE  ForksStay
  BY <1>11 DEF RemoveList, ForksStay, Live
<1>12. ASSUME NEW x \in Accounts, RemoveFork(x)
      PROVE  ForksStay
  <2>1. \A a \in Accounts : R \notin Live(a)
    BY <1>12 DEF RemoveFork, ForgeInv, LedgerInv, Removes, Removal
  <2> QED
    BY <1>12, <2>1, HasTypes DEF RemoveFork, ForksStay, Live
<1>13. ASSUME RemoveToken("rr_token", "rr_owner")
      PROVE  ForksStay
  BY <1>13 DEF RemoveToken, ForksStay, Live
<1>14. ASSUME RemoveToken("rr_last", "rr_next")
      PROVE  ForksStay
  BY <1>14 DEF RemoveToken, ForksStay, Live
<1>15. ASSUME RemoveOwner
      PROVE  ForksStay
  <2>1. C \in Accounts
    BY <1>15, HasNames DEF RemoveOwner, Go
  <2>2. CASE forge' = Unuser(forge, C) /\ Live(C) = {}
    BY <2>1, <2>2, UnuserIs DEF ForksStay, Live
  <2>3. CASE forge' = forge
    BY <2>3 DEF ForksStay, Live
  <2> QED
    BY <1>15, <2>2, <2>3 DEF RemoveOwner
<1>16. ASSUME RemoveMirror
      PROVE  ForksStay
  BY <1>16, HasTypes DEF RemoveMirror, ForksStay, Live
<1>17. ASSUME RemoveHost
      PROVE  ForksStay
  BY <1>17 DEF RemoveHost, ForksStay, Live
<1>18. ASSUME NEW p \in Projects, NEW r \in Repos, DevCreate(p, r)
      PROVE  ForksStay
  BY <1>18, HasTypes DEF DevCreate, Resume, ForksStay, Live
<1>19. ASSUME NEW p \in Projects, NEW r \in Repos, Attach(p, r)
      PROVE  ForksStay
  BY <1>19, HasTypes DEF Attach, Resume, ForksStay, Live
<1>20. ASSUME NEW x \in Accounts, NEW r \in Repos, DevBoxAdd(x, r)
      PROVE  ForksStay
  BY <1>20, HasTypes DEF DevBoxAdd, Resume, ForksStay, Live
<1>21. ASSUME NEW x \in Accounts, NEW r \in Repos, SetActiveFork(x, r)
      PROVE  ForksStay
  BY <1>21 DEF SetActiveFork, ForksStay, Live
<1>22. ASSUME ProvisionUser
      PROVE  ForksStay
  BY <1>22, HasTypes DEF ProvisionUser, ForksStay, Live
<1>23. ASSUME ProvisionFork
      PROVE  ForksStay
  <2>1. C \in Accounts /\ R \in Repos
    BY <1>23, HasNames DEF ProvisionFork, Ask, Go, Provide
  <2> QED
    BY <1>23, <2>1, HasTypes DEF ProvisionFork, ForksStay, Live
<1>24. ASSUME ProvisionToken
      PROVE  ForksStay
  BY <1>24, HasTypes DEF ProvisionToken, ForksStay, Live
<1>25. ASSUME ProvisionRecord
      PROVE  ForksStay
  BY <1>25 DEF ProvisionRecord, ForksStay, Live
<1>26. ASSUME ProvisionStage
      PROVE  ForksStay
  BY <1>26 DEF ProvisionStage, ForksStay, Live
<1>27. ASSUME BoxRuns
      PROVE  ForksStay
  BY <1>27 DEF BoxRuns, ForksStay, Live
<1>28. ASSUME NEW p \in Projects, PlainCreate(p)
      PROVE  ForksStay
  BY <1>28 DEF PlainCreate, ForksStay, Live
<1>29. ASSUME NEW p \in Projects, NotesCreate(p)
      PROVE  ForksStay
  BY <1>29, HasTypes DEF NotesCreate, Resume, ForksStay, Live
<1>30. ASSUME NEW p \in Projects, Destroy(p)
      PROVE  ForksStay
  BY <1>30 DEF Destroy, ForksStay, Live
<1>31. ASSUME NEW p \in Projects, Rewire(p)
      PROVE  ForksStay
  BY <1>31 DEF Rewire, ForksStay, Live
<1>32. ASSUME NEW x \in Accounts, NotesBoxAdd(x)
      PROVE  ForksStay
  BY <1>32, HasTypes DEF NotesBoxAdd, Resume, ForksStay, Live
<1>33. ASSUME NEW x \in Accounts, Purge(x)
      PROVE  ForksStay
  BY <1>33, HasTypes DEF Purge, Resume, ForksStay, Live
<1>34. ASSUME NEW x \in Accounts, OperatorTidies(x)
      PROVE  ForksStay
  <2>1. CASE forge' = Shelved({x}, Repos)
    BY <2>1, ShelvedIs DEF ForksStay, Live
  <2>2. CASE forge' = Unuser(forge, x) /\ Live(x) = {}
    BY <2>2, UnuserIs DEF ForksStay, Live
  <2>3. CASE forge' = forge
    BY <2>3 DEF ForksStay, Live
  <2> QED
    BY <1>34, <2>1, <2>2, <2>3 DEF OperatorTidies
<1>35. ASSUME HistoryRepo
      PROVE  ForksStay
  BY <1>35, HasTypes DEF HistoryRepo, ForksStay, Live
<1>36. ASSUME HistoryUser
      PROVE  ForksStay
  <2>1. C \in Accounts /\ Bare(C)
    BY <1>36 DEF HistoryUser, Ask, Go, ForgeInv, LedgerInv, Chronicles, Tell
  <2>2. forge' = [Unuser(forge, C) EXCEPT !.users = @ \cup {C}]
    BY <1>36 DEF HistoryUser
  <2>3. forge'.fork = [forge.fork EXCEPT ![C] = [r \in Repos |-> "none"]]
    BY <2>2, HasTypes DEF Unuser
  <2> QED
    BY <2>1, <2>3, HasTypes DEF ForksStay, Live, Bare
<1>37. ASSUME HistoryToken
      PROVE  ForksStay
  BY <1>37, HasTypes DEF HistoryToken, ForksStay, Live
<1>38. ASSUME HistoryRecord
      PROVE  ForksStay
  BY <1>38 DEF HistoryRecord, ForksStay, Live
<1>39. ASSUME HistoryStage
      PROVE  ForksStay
  BY <1>39 DEF HistoryStage, ForksStay, Live
<1>40. ASSUME HistoryFails
      PROVE  ForksStay
  BY <1>40 DEF HistoryFails, ForksStay, Live
<1>41. ASSUME NotesBoxFails
      PROVE  ForksStay
  BY <1>41 DEF NotesBoxFails, ForksStay, Live
<1>42. ASSUME CleanRow
      PROVE  ForksStay
  BY <1>42 DEF CleanRow, ForksStay, Live
<1>43. ASSUME CleanToken
      PROVE  ForksStay
  BY <1>43 DEF CleanToken, ForksStay, Live
<1>44. ASSUME NEW p \in Projects, NEW all \in BOOLEAN, Detach(p, all)
      PROVE  ForksStay
  BY <1>44, HasTypes DEF Detach, ForksStay, Live
<1>45. ASSUME DetachArchive
      PROVE  ForksStay
  <2>1. forge' = Shelved(cmd.todo, Repos)
    BY <1>45 DEF DetachArchive
  <2> QED
    BY <2>1, ShelvedIs DEF ForksStay, Live
<1>46. ASSUME DetachToken
      PROVE  ForksStay
  BY <1>46 DEF DetachToken, ForksStay, Live
<1>47. ASSUME DetachStage
      PROVE  ForksStay
  BY <1>47 DEF DetachStage, ForksStay, Live
<1>48. ASSUME NEW x \in DOMAIN place.box, BoxRemove(x)
      PROVE  ForksStay
  BY <1>48 DEF BoxRemove, ForksStay, Live
<1>49. ASSUME BoxArchive
      PROVE  ForksStay
  <2> DEFINE mine == {C}
             this == {R}
  <2>1. forge' = Shelved(mine, this)
    BY <1>49 DEF BoxArchive
  <2> HIDE DEF mine, this
  <2> QED
    BY <2>1, ShelvedIs DEF ForksStay, Live
<1>50. ASSUME BoxToken
      PROVE  ForksStay
  BY <1>50 DEF BoxToken, ForksStay, Live
<1>51. ASSUME BoxPrune
      PROVE  ForksStay
  BY <1>51 DEF BoxPrune, ForksStay, Live
<1>52. ASSUME DestroyArchive
      PROVE  ForksStay
  <2> DEFINE gone == {row.who : row \in Dev(RowsIn(Home(C)))}
  <2>1. forge' = Shelved(gone, Repos)
    BY <1>52 DEF DestroyArchive
  <2> HIDE DEF gone
  <2> QED
    BY <2>1, ShelvedIs DEF ForksStay, Live
<1>53. ASSUME DestroyTokens
      PROVE  ForksStay
  BY <1>53 DEF DestroyTokens, ForksStay, Live
<1>54. ASSUME RetireArchive
      PROVE  ForksStay
  BY <1>54, HasTypes DEF RetireArchive, ForksStay, Live
<1>55. ASSUME RetireUser
      PROVE  ForksStay
  <2>1. C \in Accounts /\ Tale(C) \in host.rows
    <3>1. /\ C \in Accounts /\ cmd.pc = "rt_user"
          /\ cmd.verb \in {"unbox", "destroy"}
      BY <1>55, HasNames, VerbOf DEF RetireUser, Go, Retire
    <3> QED
      BY <3>1 DEF ForgeInv, LedgerInv, Unboxes, Destroys
  <2>2. CASE forge' = Unuser(forge, C)
    BY <2>1, <2>2, UnuserIs DEF ForksStay, Live
  <2>3. CASE forge' = forge
    BY <2>3 DEF ForksStay, Live
  <2> QED
    BY <1>55, <2>2, <2>3 DEF RetireUser
<1>56. ASSUME RetireToken
      PROVE  ForksStay
  BY <1>56 DEF RetireToken, ForksStay, Live
<1>57. ASSUME RetirePrune
      PROVE  ForksStay
  BY <1>57 DEF RetirePrune, ForksStay, Live
<1>58. ASSUME RetireEnds
      PROVE  ForksStay
  BY <1>58 DEF RetireEnds, ForksStay, Live
<1>59. ASSUME PurgeUser
      PROVE  ForksStay
  <2>1. /\ C \in Accounts /\ Live(C) = {}
        /\ forge' = Unuser(forge, C)
    BY <1>59 DEF PurgeUser, Ask, Go, ForgeInv, LedgerInv, Purges, Purging
  <2> QED
    BY <2>1, UnuserIs DEF ForksStay, Live
<1>60. ASSUME PurgeAnswerLost
      PROVE  ForksStay
  <2>1. /\ C \in Accounts /\ Live(C) = {}
        /\ forge' = Unuser(forge, C)
    BY <1>60
    DEF PurgeAnswerLost, Ask, Go, ForgeInv, LedgerInv, Purges, Purging
  <2> QED
    BY <2>1, UnuserIs DEF ForksStay, Live
<1>61. ASSUME PurgeToken
      PROVE  ForksStay
  BY <1>61 DEF PurgeToken, ForksStay, Live
<1>62. ASSUME UNCHANGED vars
      PROVE  ForksStay
  BY <1>62 DEF vars, ForksStay, Live
<1> QED
  BY <1>1, <1>2, <1>3, <1>4, <1>5, <1>6, <1>7, <1>8, <1>9, <1>10, <1>11,
     <1>12, <1>13, <1>14, <1>15, <1>16, <1>17, <1>18, <1>19, <1>20, <1>21,
     <1>22, <1>23, <1>24, <1>25, <1>26, <1>27, <1>28, <1>29, <1>30, <1>31,
     <1>32, <1>33, <1>34, <1>35, <1>36, <1>37, <1>38, <1>39, <1>40, <1>41,
     <1>42, <1>43, <1>44, <1>45, <1>46, <1>47, <1>48, <1>49, <1>50, <1>51,
     <1>52, <1>53, <1>54, <1>55, <1>56, <1>57, <1>58, <1>59, <1>60, <1>61,
     <1>62
  DEF Next

(* No command deletes a fork that is live: retire_history, purge_account,  *)
(* repo_remove and the operator delete what is archived or gone            *)
(* (cli/gitea.py).                                                         *)
THEOREM ForgeForksStay == BothSpec => LiveForksStay
<1>1. ForgeInv /\ [Next]_vars => [ForksStay]_vars
  BY ForksKept
<1> QED
  BY <1>1, ForgeInvariant, BothForge, PTL DEF Spec, LiveForksStay, ForksStay
=============================================================================
