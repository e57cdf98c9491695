------------------------------ MODULE RoleWiring ------------------------------
(***************************************************************************)
(* What connects one project to MCP services: the registry of services of  *)
(* the host (mcps.json) and their shared containers, the holes of the      *)
(* router, the project's allowlist (mcp-allow.json), the routes of the     *)
(* proxy in its supervisor, and the role-MCP containers (workers) listed   *)
(* in role-mcps.json, each told at its boot which services it may use.     *)
(*                                                                         *)
(* One permission is written in up to five places, one after the other.    *)
(* A command on the project dies between any two; the registry is edited   *)
(* under a lock of its own, in one step, while a command runs.  Steps      *)
(* whose result the code does not look at, or only warns of, may fail: the *)
(* histories stray and cut then hold what they left.                       *)
(*                                                                         *)
(* A definition Bad... is a faulty variant of the one after it.            *)
(***************************************************************************)
EXTENDS Naturals, FiniteSets

CONSTANTS
    Mcps,       \* names of services
    Shared,     \* those that run in a container here, the others elsewhere
    Roles,      \* roles a worker service can have
    NoMcp, NoRole,
    LastIp,     \* BOUND: a shared container gets an address in 0..LastIp
    WireAims    \* BOUND: features, services, roles a behaviour combines

WireFeatures == {"allow", "sync", "edit", "move", "down", "pin",
                 "park", "models", "recreate", "keeps", "fails", "dies"}

ASSUME WiringAssumption ==
    /\ Shared \subseteq Mcps
    /\ Mcps \cap Roles = {}             \* one name tells which it is
    /\ "routes" \notin Mcps \cup Roles
    /\ NoMcp \notin Mcps /\ NoRole \notin Roles
    /\ LastIp \in Nat
    /\ WireAims \subseteq SUBSET (WireFeatures \cup Mcps \cup Roles)

VARIABLES
    reg,        \* mcps.json: of each service [known, on, roles]
    svc,        \* of each service: is it reachable, and at which address
    router,     \* is rs-router running; its rules outlive a restart
    holes,      \* the addresses it lets the project's network reach
    allow,      \* mcp-allow.json: the address noted for an allowed service
    route,      \* the proxy: [mcp, role], what it answers for
    sup,        \* is the supervisor running
    roles,      \* role-mcps.json: of each role its entry, or NoEntry
    box,        \* the role containers of the inner docker
    calls,      \* a send_job call: none, live, or a file nobody works on
    model,      \* the role model in the project's marker
    act,        \* the command on the project
    stray,      \* history: holes that a step left behind
    cut,        \* history: what a command or a failed step left half done
    wireAim     \* the features that this behaviour combines

wireVars == <<reg, svc, router, holes, allow, route, sup, roles, box, calls,
              model, act, stray, cut, wireAim>>
hist == <<stray, cut, wireAim>>

-----------------------------------------------------------------------------
Ips   == 0 .. LastIp
None  == LastIp + 1                  \* no address

NoEntry == [src |-> "absent", up |-> {}, stopped |-> FALSE]
Gone    == [st |-> "none", tools |-> {}, env |-> 0]
NoRoute == [mcp |-> [m \in Mcps |-> None], role |-> {}]

NoVerb == [verb |-> "none", pc |-> "idle", mcp |-> NoMcp, ip |-> None,
           role |-> NoRole, add |-> {}, drop |-> {}, roles |-> {},
           done |-> FALSE, force |-> FALSE, on |-> {}, failed |-> {},
           quiet |-> TRUE]

InUse(S)   == S \cap wireAim
Listed(r)  == roles[r] # NoEntry
Allowed    == {m \in Mcps : allow[m] # None}
Enabled    == {m \in Mcps : reg[m].known /\ reg[m].on}
At(pc)     == act.pc = pc
To(pc)     == act' = [act EXCEPT !.pc = pc]
Finish     == act' = NoVerb
Fails      == "fails" \in wireAim   \* BOUND: a step of it may go wrong
Keeps      == "keeps" \in wireAim   \* the inner docker is on a volume

WireInit ==
    /\ wireAim \in WireAims
    /\ reg = [m \in Mcps |-> [known |-> m \in wireAim, on |-> m \in wireAim,
                              roles |-> InUse(Roles)]]
    /\ svc = [m \in Mcps |-> [st |-> "up", ip |-> 0]]
    /\ router = TRUE
    /\ holes = {} /\ stray = {} /\ cut = {}
    /\ allow = [m \in Mcps |-> None]
    /\ route = NoRoute
    /\ sup = TRUE
    /\ roles = [r \in Roles |-> NoEntry]
    /\ box = [r \in Roles |-> Gone]
    /\ calls = [r \in Roles |-> "none"]
    /\ model = 0
    /\ act = NoVerb

-----------------------------------------------------------------------------
(* The registry and the shared containers, edited while a command runs     *)

(* Any edit while a command runs may take effect before or after it.       *)
Noticed == act' = [act EXCEPT !.quiet = @ /\ act.verb # "sync"]

Rewrite(m, entry) ==
    /\ "edit" \in wireAim /\ m \in wireAim
    /\ reg' = [reg EXCEPT ![m] = entry]
    /\ Noticed
    /\ UNCHANGED <<router, holes, allow, route, sup, roles, box, calls,
                   model, hist>>

(* A new entry is not enabled and claims the roles given.                  *)
AddMcp(m, rs) ==
    /\ ~reg[m].known
    /\ Rewrite(m, [known |-> TRUE, on |-> FALSE, roles |-> rs])
    /\ UNCHANGED svc

EnableMcp(m) ==
    /\ reg[m].known /\ ~reg[m].on
    /\ Rewrite(m, [reg[m] EXCEPT !.on = TRUE])
    /\ UNCHANGED svc

SetRoles(m, rs) ==
    /\ reg[m].known /\ rs # reg[m].roles
    /\ Rewrite(m, [reg[m] EXCEPT !.roles = rs])
    /\ UNCHANGED svc

(* Refused while a project allows the service, but for --force.            *)
RemoveMcp(m, force) ==
    /\ reg[m].known
    /\ m \in Allowed => force
    /\ Rewrite(m, [known |-> FALSE, on |-> FALSE, roles |-> {}])
    /\ \/ m \in Shared /\ svc' = [svc EXCEPT ![m].st = "down"]
       \/ (m \notin Shared \/ Fails) /\ UNCHANGED svc

ServiceKeeps == UNCHANGED <<reg, holes, allow, route, sup, roles, box,
                            calls, model, hist>>

(* A container that is run again may get another address.                  *)
StartMcp(m, ip) ==
    /\ "move" \in wireAim /\ m \in Shared \cap wireAim
    /\ reg[m].known /\ svc[m].st = "down"
    /\ svc' = [svc EXCEPT ![m] = [st |-> "up", ip |-> ip]]
    /\ router' = TRUE
    /\ Noticed
    /\ ServiceKeeps

StopMcp(m) ==
    /\ "move" \in wireAim /\ m \in Shared \cap wireAim
    /\ reg[m].known /\ svc[m].st # "down"
    /\ svc' = [svc EXCEPT ![m].st = "down"]
    /\ Noticed
    /\ UNCHANGED router
    /\ ServiceKeeps

(* It restarts again and again: running, but without an address.           *)
LoopMcp(m) ==
    /\ "move" \in wireAim /\ m \in Shared \cap wireAim
    /\ svc[m].st = "up"
    /\ svc' = [svc EXCEPT ![m].st = "loops"]
    /\ Noticed
    /\ UNCHANGED router
    /\ ServiceKeeps

(* `research stop` and `research start`: every shared container, then the  *)
(* router; and back, the enabled ones only.  One that will not is warned   *)
(* of.                                                                     *)
FleetDown ==
    /\ "down" \in wireAim /\ router
    /\ router' = FALSE
    /\ \E survivors \in SUBSET (IF Fails THEN Shared ELSE {}) :
         svc' = [m \in Mcps |->
                   IF m \in Shared \ survivors
                   THEN [svc[m] EXCEPT !.st = "down"] ELSE svc[m]]
    /\ Noticed
    /\ ServiceKeeps

FleetUp ==
    /\ "down" \in wireAim /\ ~router
    /\ router' = TRUE
    /\ svc' \in [Mcps -> [st : {"up", "down"}, ip : Ips]]
    /\ \A m \in Mcps : IF m \in Shared \cap Enabled
                       THEN svc'[m].st = "up" \/ Fails
                       ELSE svc'[m] = svc[m]
    /\ Noticed
    /\ ServiceKeeps

-----------------------------------------------------------------------------
(* Commands on the project                                                 *)

(* A command that names roles or services is given ones of the behaviour.  *)
Starts(command) == act = NoVerb /\ act' = command
World   == <<reg, svc, router, sup, model>>
Wires   == <<holes, allow, route>>
Workers == <<roles, box, calls>>
Rest    == <<World, Wires, Workers, hist>>

BeginAllow(ms) ==
    /\ "allow" \in wireAim /\ ms # {} /\ router
    /\ Starts([NoVerb EXCEPT !.verb = "allow", !.pc = "add", !.add = ms])
    /\ UNCHANGED Rest

BeginDeny(ms) ==
    /\ "allow" \in wireAim /\ ms # {}
    /\ Starts([NoVerb EXCEPT !.verb = "deny", !.pc = "drop", !.drop = ms])
    /\ UNCHANGED Rest

(* Phase 1 and 2 are fixed by one reading of the registry.                 *)
BeginSync ==
    /\ "sync" \in wireAim
    /\ Starts([NoVerb EXCEPT !.verb = "sync", !.pc = "add", !.on = Enabled,
              !.add = Enabled \ Allowed, !.drop = Allowed \ Enabled])
    /\ UNCHANGED Rest

(* `mcp disable`: the projects deny it first, unless they are to keep it.  *)
BeginDisable(m, keep) ==
    /\ "edit" \in wireAim /\ m \in wireAim
    /\ Starts([NoVerb EXCEPT !.verb = "disable", !.mcp = m,
              !.pc = IF m \in Allowed /\ ~keep THEN "drop" ELSE "off",
              !.drop = {m}])
    /\ UNCHANGED Rest

-----------------------------------------------------------------------------
(* Allowing: the hole, then the entry.  A service that cannot be allowed   *)
(* is skipped; one that runs without an address ends the whole command.    *)

Allowable(m) == router /\ m \in Enabled /\ svc[m].st # "down"

AllowPick(m) ==
    /\ At("add") /\ m \in act.add
    /\ Allowable(m) /\ svc[m].st = "up"
    /\ act' = [act EXCEPT !.pc = "hole", !.mcp = m, !.ip = svc[m].ip]
    /\ UNCHANGED Rest

Skipped(m) == [act EXCEPT !.pc = "add", !.mcp = NoMcp, !.ip = None,
                          !.add = @ \ {m},
                          !.failed = @ \cup (act.on \cap {m})]

AllowSkip(m) ==
    /\ At("add") /\ m \in act.add /\ ~Allowable(m)
    /\ act' = Skipped(m)
    /\ UNCHANGED Rest

(* What earlier services of the batch were given is not rendered.          *)
AllowDies(m) ==
    /\ At("add") /\ m \in act.add
    /\ Allowable(m) /\ svc[m].st = "loops"
    /\ cut' = cut \cup (IF act.done THEN {"routes"} ELSE {})
    /\ Finish
    /\ UNCHANGED <<World, Wires, Workers, stray, wireAim>>

OpenHole ==
    /\ At("hole")
    /\ \/ /\ router
          /\ holes' = holes \cup {<<act.mcp, act.ip>>}
          /\ To("save")
       \/ /\ ~router \/ Fails
          /\ act' = Skipped(act.mcp)
          /\ UNCHANGED holes
    /\ UNCHANGED <<World, allow, route, Workers, hist>>

(* A hole of the address that the entry named before stays open.           *)
SaveAllowed ==
    /\ At("save")
    /\ allow' = [allow EXCEPT ![act.mcp] = act.ip]
    /\ stray' = (stray \cup (IF allow[act.mcp] # None
                             THEN {<<act.mcp, allow[act.mcp]>>} ELSE {}))
                \ {<<act.mcp, act.ip>>}
    /\ cut' = cut \ {act.mcp}
    /\ act' = [act EXCEPT !.pc = "add", !.mcp = NoMcp, !.ip = None,
                          !.add = @ \ {act.mcp}, !.done = TRUE]
    /\ UNCHANGED <<World, holes, route, Workers, wireAim>>

AddsDone ==
    /\ At("add") /\ act.add = {}
    /\ IF act.verb = "sync" THEN To("drop")
       ELSE IF act.done THEN To("reload") ELSE Finish
    /\ UNCHANGED Rest

-----------------------------------------------------------------------------
(* Denying: the hole of the noted address, then the entry.  A router that  *)
(* is down keeps the rule and applies it again when it starts; whether one *)
(* that runs did close the hole is not looked at.                          *)

DenySkip(m) ==
    /\ At("drop") /\ m \in act.drop \ Allowed
    /\ act' = [act EXCEPT !.drop = @ \ {m}]
    /\ UNCHANGED Rest

BadCloseHole(m) ==
    /\ At("drop") /\ m \in act.drop \cap Allowed
    /\ UNCHANGED <<holes, stray>>
    /\ act' = [act EXCEPT !.pc = "dsave", !.mcp = m]
    /\ UNCHANGED <<World, allow, route, Workers, cut, wireAim>>

CloseHole(m) ==
    /\ At("drop") /\ m \in act.drop \cap Allowed
    /\ LET addr == <<m, allow[m]>> IN
       \/ router /\ holes' = holes \ {addr} /\ stray' = stray \ {addr}
       \/ /\ ~router \/ Fails
          /\ stray' = stray \cup {addr} /\ UNCHANGED holes
    /\ act' = [act EXCEPT !.pc = "dsave", !.mcp = m]
    /\ UNCHANGED <<World, allow, route, Workers, cut, wireAim>>

(* `mcp disable` renders after every project, the others once at the end.  *)
SaveDenied ==
    /\ At("dsave")
    /\ allow' = [allow EXCEPT ![act.mcp] = None]
    /\ cut' = cut \ {act.mcp}
    /\ act' = [act EXCEPT !.drop = @ \ {act.mcp}, !.done = TRUE,
                 !.pc = IF act.verb = "disable" THEN "reload" ELSE "drop",
                 !.mcp = IF act.verb = "disable" THEN @ ELSE NoMcp]
    /\ UNCHANGED <<World, holes, route, Workers, stray, wireAim>>

DropsDone ==
    /\ At("drop") /\ act.drop = {}
    /\ IF act.done THEN To("reload")
       ELSE IF act.verb = "sync"
       THEN act' = [act EXCEPT !.pc = "derive", !.roles = InUse(Roles)]
       ELSE Finish
    /\ UNCHANGED Rest

(* mcp-reload renders both files and the proxy takes the result, unless it *)
(* fails, which is warned of, or skips the proxy, which is not.            *)
Rendered == [mcp |-> allow, role |-> {r \in Roles : Listed(r)}]

Reload ==
    /\ At("reload")
    /\ \/ /\ route' = IF sup THEN Rendered ELSE route
          /\ cut' = cut \ {"routes"}
       \/ /\ sup /\ Fails
          /\ cut' = cut \cup {"routes"} /\ UNCHANGED route
    /\ IF act.verb = "disable" THEN To("off")
       ELSE IF act.verb = "sync" /\ act.done
       THEN act' = [act EXCEPT !.pc = "derive", !.done = FALSE,
                               !.roles = InUse(Roles)]
       ELSE Finish
    /\ UNCHANGED <<World, holes, allow, Workers, stray, wireAim>>

(* The last steps of `mcp disable`: the registry, then the container.      *)
SwitchOff ==
    /\ At("off")
    /\ IF reg[act.mcp].known
       THEN /\ reg' = [reg EXCEPT ![act.mcp].on = FALSE]
            /\ To("halt")
       ELSE Finish /\ UNCHANGED reg
    /\ UNCHANGED <<svc, router, sup, model, Wires, Workers, hist>>

HaltService ==
    /\ At("halt")
    /\ svc' = IF act.mcp \in Shared THEN [svc EXCEPT ![act.mcp].st = "down"]
                                    ELSE svc
    /\ Finish
    /\ UNCHANGED <<reg, router, sup, model, Wires, Workers, hist>>

-----------------------------------------------------------------------------
(* Worker services                                                         *)

(* The allowed services that claim the role.                               *)
BadDerived(r) == {m \in Mcps : reg[m].known /\ r \in reg[m].roles}

Derived(r) == {m \in Allowed : reg[m].known /\ r \in reg[m].roles}

(* --upstream pins services, --auto derives; without either a first enable *)
(* derives and a later one keeps what the entry says.  All must be allowed.*)
NewEntry(r, how, pins) ==
    CASE how = "pin" -> [src |-> "explicit", up |-> pins]
      [] how = "auto" \/ ~Listed(r) -> [src |-> "auto", up |-> Derived(r)]
      [] OTHER -> [src |-> roles[r].src, up |-> roles[r].up]

(* A parked worker's entry is renewed and it stays parked.                 *)
EnableRole(r, how, pins) ==
    LET new == NewEntry(r, how, pins) IN
    /\ r \in wireAim /\ sup
    /\ how = "pin" => "pin" \in wireAim
    /\ new.up \subseteq Allowed
    /\ Starts(IF roles[r].stopped THEN NoVerb
              ELSE [NoVerb EXCEPT !.verb = "enable", !.pc = "rm", !.role = r])
    /\ roles' = [roles EXCEPT ![r] = [src |-> new.src, up |-> new.up,
                                      stopped |-> @.stopped]]
    /\ UNCHANGED <<World, Wires, box, calls, hist>>

(* `docker rm -f` in the supervisor: nobody looks whether it did, and one  *)
(* that is down keeps what it has.                                         *)
RemoveBox(r) ==
    \/ /\ sup
       /\ box' = [box EXCEPT ![r] = Gone]
       /\ calls' = [calls EXCEPT ![r] = IF @ = "live" THEN "file" ELSE @]
    \/ (~sup \/ Fails) /\ UNCHANGED <<box, calls>>

BeginDisableRole(r) ==
    /\ r \in wireAim /\ Listed(r)
    /\ Starts([NoVerb EXCEPT !.verb = "unlist", !.pc = "unlist", !.role = r])
    /\ RemoveBox(r)
    /\ UNCHANGED <<World, Wires, roles, hist>>

(* A container that is still there has no entry any more.                  *)
UnlistRole ==
    /\ At("unlist")
    /\ roles' = [roles EXCEPT ![act.role] = NoEntry]
    /\ cut' = IF box[act.role] = Gone THEN cut \ {act.role}
                                      ELSE cut \cup {act.role}
    /\ To("reload")
    /\ UNCHANGED <<World, Wires, box, calls, stray, wireAim>>

(* `worker stop`: refused while a call's file says it runs, then docker    *)
(* stop, then the flag; a worker that is not running is only flagged.      *)
BeginStop(r, force) ==
    /\ "park" \in wireAim /\ r \in wireAim /\ Listed(r)
    /\ IF sup /\ box[r].st = "up"
       THEN /\ calls[r] # "none" => force
            /\ Starts([NoVerb EXCEPT !.verb = "stop", !.pc = "park",
                                     !.role = r])
       ELSE Starts([NoVerb EXCEPT !.verb = "stop", !.pc = "flag", !.role = r])
    /\ UNCHANGED Rest

Park ==
    /\ At("park")
    /\ \/ /\ box' = [box EXCEPT ![act.role].st =
                       IF @ = "up" THEN "exited" ELSE @]
          /\ calls' = [calls EXCEPT ![act.role] =
                         IF @ = "live" THEN "file" ELSE @]
       \/ Fails /\ UNCHANGED <<box, calls>>
    /\ To("flag")
    /\ UNCHANGED <<World, Wires, roles, hist>>

BeginStart(r) ==
    /\ "park" \in wireAim /\ r \in wireAim /\ sup /\ Listed(r)
    /\ Starts([NoVerb EXCEPT !.verb = "start", !.pc = "rm", !.role = r])
    /\ UNCHANGED Rest

(* The last step of both verbs.                                            *)
Flag ==
    /\ At("flag")
    /\ roles' = [roles EXCEPT ![act.role].stopped = act.verb = "stop"]
    /\ cut' = IF act.verb = "stop" THEN cut \ {act.role} ELSE cut
    /\ Finish
    /\ UNCHANGED <<World, Wires, box, calls, stray, wireAim>>

DeriveRole(r) ==
    /\ At("derive") /\ r \in act.roles
    /\ IF roles[r].src = "auto" /\ Derived(r) # roles[r].up
       THEN /\ roles' = [roles EXCEPT ![r].up = Derived(r)]
            /\ act' = [act EXCEPT !.roles = @ \ {r}, !.force = TRUE,
                                  !.pc = "rm", !.role = r]
       ELSE /\ act' = [act EXCEPT !.roles = @ \ {r}]
            /\ UNCHANGED roles
    /\ UNCHANGED <<World, Wires, box, calls, hist>>

SyncDone ==
    /\ At("derive") /\ act.roles = {}
    /\ IF act.force THEN To("reload") ELSE Finish
    /\ UNCHANGED Rest

(* `project update --role-model`: the marker first, then the gate over all *)
(* roles, then one after the other is run again, parked or not.            *)
BeginModels(v) ==
    /\ "models" \in wireAim /\ v # model /\ router
    /\ model' = v
    /\ Starts([NoVerb EXCEPT !.verb = "models", !.pc = "gate"])
    /\ UNCHANGED <<reg, svc, router, sup, Wires, Workers, hist>>

(* The same flags again after a refusal.                                   *)
RetryModels ==
    /\ "models" \in wireAim /\ router
    /\ \E r \in Roles : Listed(r) /\ r \in cut
    /\ Starts([NoVerb EXCEPT !.verb = "models", !.pc = "gate"])
    /\ UNCHANGED Rest

Members == {r \in Roles : Listed(r)}

Gate ==
    /\ At("gate")
    /\ IF \E r \in Members : calls[r] # "none"
       THEN cut' = cut \cup Members /\ Finish
       ELSE /\ act' = [act EXCEPT !.pc = "each", !.roles = Members]
            /\ UNCHANGED cut
    /\ UNCHANGED <<World, Wires, Workers, stray, wireAim>>

(* `project stop`, and the recreate of start and update.  The inner docker *)
(* of the new supervisor is empty under sysbox; where it is on a volume it *)
(* runs again what ran when the old one went.                              *)
CallsLost == [r \in Roles |-> IF calls[r] = "live" THEN "file" ELSE calls[r]]

StopProject ==
    /\ "recreate" \in wireAim /\ sup /\ act = NoVerb
    /\ sup' = FALSE
    /\ calls' = CallsLost
    /\ UNCHANGED <<reg, svc, router, model, Wires, roles, box, act, hist>>

(* A worker's entrypoint offers what the entry names and the project       *)
(* allows, and the daemon closes the calls of a predecessor.               *)
Booted(r, env) == [st |-> "up", tools |-> roles[r].up \cap Allowed,
                   env |-> env]

Resumed(r) == Keeps /\ box[r].st = "up"

BeginRecreate ==
    /\ "recreate" \in wireAim /\ router
    /\ Starts([NoVerb EXCEPT !.verb = "recreate", !.pc = "render"])
    /\ sup' = TRUE
    /\ box' = [r \in Roles |-> IF Resumed(r) THEN Booted(r, box[r].env)
                               ELSE IF Keeps THEN box[r] ELSE Gone]
    /\ calls' = [r \in Roles |-> IF Resumed(r) THEN "none"
                                 ELSE CallsLost[r]]
    /\ cut' = IF Keeps THEN cut ELSE cut \ {r \in Roles : ~Listed(r)}
    /\ UNCHANGED <<reg, svc, router, model, Wires, roles, stray, wireAim>>

BadRenderNew ==
    /\ At("render")
    /\ route' = Rendered
    /\ cut' = cut \ {"routes"}
    /\ act' = [act EXCEPT !.pc = "each", !.roles = Members]
    /\ UNCHANGED <<World, holes, allow, Workers, stray, wireAim>>

(* The old proxy is removed first, if it can be, and no failure is seen.   *)
RenderNew ==
    /\ At("render")
    /\ \/ route' = Rendered /\ cut' = cut \ {"routes"}
       \/ /\ Fails /\ cut' = cut \cup {"routes"}
          /\ route' = NoRoute \/ UNCHANGED route
    /\ act' = [act EXCEPT !.pc = "each",
                          !.roles = {r \in Members : ~roles[r].stopped}]
    /\ UNCHANGED <<World, holes, allow, Workers, stray, wireAim>>

EachRole(r) ==
    /\ At("each") /\ r \in act.roles
    /\ act' = [act EXCEPT !.pc = "rm", !.role = r, !.roles = @ \ {r}]
    /\ UNCHANGED Rest

EachDone ==
    /\ At("each") /\ act.roles = {}
    /\ Finish
    /\ UNCHANGED Rest

-----------------------------------------------------------------------------
(* _role_mcp_start: the old container goes, live call or not; its state    *)
(* and the login are staged, and a new one runs.                           *)

RemoveOld ==
    /\ At("rm")
    /\ RemoveBox(act.role)
    /\ To("run")
    /\ UNCHANGED <<World, Wires, roles, hist>>

After ==
    CASE act.verb = "enable" -> [act EXCEPT !.pc = "reload"]
      [] act.verb = "start"  -> [act EXCEPT !.pc = "flag"]
      [] act.verb = "sync"   -> [act EXCEPT !.pc = "derive", !.role = NoRole]
      [] OTHER               -> [act EXCEPT !.pc = "each", !.role = NoRole]

RunNew ==
    /\ At("run") /\ sup /\ box[act.role] = Gone
    /\ box' = [box EXCEPT ![act.role] = Booted(act.role, model)]
    /\ calls' = [calls EXCEPT ![act.role] = "none"]
    /\ cut' = cut \ {act.role}
    /\ act' = After
    /\ UNCHANGED <<World, Wires, roles, stray, wireAim>>

(* A container that was made but could not be started.                     *)
Husk == [Gone EXCEPT !.st = "exited"]

(* The container cannot be run, for one because the name is still taken.  A *)
(* failure ends the command, but a recreate warns and goes on.             *)
RunFails ==
    /\ At("run")
    /\ \/ ~sup \/ box[act.role] # Gone
       \/ "dies" \in wireAim /\ cut = {}
    /\ \/ UNCHANGED box
       \/ sup /\ box[act.role] = Gone /\ box' = [box EXCEPT ![act.role] = Husk]
    /\ cut' = cut \cup {act.role}
                    \cup (IF act.verb = "models" THEN act.roles ELSE {})
                    \cup (IF act.verb = "enable" THEN {"routes"} ELSE {})
    /\ IF act.verb = "recreate" THEN act' = After ELSE Finish
    /\ UNCHANGED <<World, Wires, roles, calls, stray, wireAim>>

-----------------------------------------------------------------------------
(* The worker itself, and the end of a command before its time             *)

CallBegins(r) ==
    /\ "park" \in wireAim \/ "models" \in wireAim
    /\ sup /\ box[r].st = "up" /\ calls[r] = "none"
    /\ calls' = [calls EXCEPT ![r] = "live"]
    /\ UNCHANGED <<World, Wires, roles, box, act, hist>>

CallEnds(r) ==
    /\ calls[r] = "live"
    /\ calls' = [calls EXCEPT ![r] = "none"]
    /\ UNCHANGED <<World, Wires, roles, box, act, hist>>

(* The daemon dies and its container's policy starts it again.             *)
Restarts(r) ==
    /\ "move" \in wireAim \/ "models" \in wireAim
    /\ sup /\ box[r].st = "up"
    /\ box' = [box EXCEPT ![r] = Booted(r, @.env)]
    /\ calls' = [calls EXCEPT ![r] = "none"]
    /\ UNCHANGED <<World, Wires, roles, act, hist>>

(* What is left half done when the command ends here.                      *)
Scar ==
    (IF At("dsave") THEN {act.mcp} ELSE {})
    \cup (IF \/ act.done \/ act.force \/ At("reload") \/ At("render")
             \/ act.verb \in {"enable", "unlist"}
          THEN {"routes"} ELSE {})
    \cup (IF act.role # NoRole THEN {act.role} ELSE {})
    \cup (IF act.verb \in {"models", "recreate"}
          THEN (IF At("gate") \/ At("render") THEN Members ELSE act.roles)
          ELSE {})

(* BOUND: none dies while something is cut.                               *)
WiringDies ==
    /\ act # NoVerb /\ "dies" \in wireAim /\ cut = {}
    /\ cut' = Scar
    /\ stray' = IF At("save") /\ allow[act.mcp] # act.ip
                THEN stray \cup {<<act.mcp, act.ip>>} ELSE stray
    /\ Finish
    /\ UNCHANGED <<World, Wires, Workers, wireAim>>

-----------------------------------------------------------------------------
WireNext ==
    \/ \E m \in Mcps :
         \/ EnableMcp(m) \/ StopMcp(m) \/ LoopMcp(m)
         \/ \E rs \in SUBSET InUse(Roles) : AddMcp(m, rs) \/ SetRoles(m, rs)
         \/ \E f \in BOOLEAN : RemoveMcp(m, f) \/ BeginDisable(m, f)
         \/ \E ip \in Ips : StartMcp(m, ip)
         \/ AllowPick(m) \/ AllowSkip(m) \/ AllowDies(m)
         \/ DenySkip(m) \/ CloseHole(m)
    \/ FleetDown \/ FleetUp
    \/ \E ms \in SUBSET InUse(Mcps) : BeginAllow(ms) \/ BeginDeny(ms)
    \/ BeginSync \/ OpenHole \/ SaveAllowed \/ AddsDone
    \/ SaveDenied \/ DropsDone \/ Reload \/ SwitchOff \/ HaltService
    \/ \E r \in Roles :
         \/ \E how \in {"auto", "again"} : EnableRole(r, how, {})
         \/ \E pins \in SUBSET InUse(Mcps) : EnableRole(r, "pin", pins)
         \/ BeginDisableRole(r) \/ BeginStart(r)
         \/ \E f \in BOOLEAN : BeginStop(r, f)
         \/ DeriveRole(r) \/ EachRole(r)
         \/ CallBegins(r) \/ CallEnds(r) \/ Restarts(r)
    \/ UnlistRole \/ Park \/ Flag \/ SyncDone
    \/ \E v \in 0..1 : BeginModels(v)
    \/ RetryModels \/ Gate
    \/ StopProject \/ BeginRecreate \/ RenderNew \/ EachDone
    \/ RemoveOld \/ RunNew \/ RunFails
    \/ WiringDies

WireSpec == WireInit /\ [][WireNext]_wireVars

-----------------------------------------------------------------------------
(* An allowed service is reached the whole way between commands: the       *)
(* address its entry notes is open in the router and is the one the proxy  *)
(* forwards to, the proxy knows every listed worker and nothing else, and  *)
(* no hole is open but for an entry (allow and deny, and every path that   *)
(* runs them).  Left out are what a killed command left until a later one  *)
(* mends it, a hole the router did not close when told to (mcp-deny's      *)
(* result is discarded), and the routes of a proxy whose last reload       *)
(* failed or was skipped, until one goes through.                          *)
AllowedReaches ==
    act = NoVerb =>
      /\ \A m \in Allowed \ cut : <<m, allow[m]>> \in holes
      /\ \A a \in holes \ stray : a[1] \notin cut => allow[a[1]] = a[2]
      /\ sup /\ "routes" \notin cut => route = Rendered

(* Between commands a listed worker that is not parked runs, with the role *)
(* model of the marker, offers no service its entry does not name, and a   *)
(* role that is not listed has no container.  Left out are the worker a    *)
(* command left half done and the one whose container `docker rm` did not  *)
(* remove (nobody looks), until it is run again.                           *)
ServedAsWritten ==
    act = NoVerb /\ sup =>
      \A r \in Roles \ cut :
        /\ ~Listed(r) => box[r] = Gone
        /\ Listed(r) /\ ~roles[r].stopped =>
             /\ box[r].st = "up" /\ box[r].env = model
             /\ box[r].tools \subseteq roles[r].up

(* Both: what the files say of services and workers is what there is.      *)
WiredAsWritten == AllowedReaches /\ ServedAsWritten

SyncEnds ==
    /\ act.verb = "sync" /\ act' = NoVerb /\ cut' \subseteq cut
    /\ \/ At("derive") /\ act.roles = {} /\ ~act.force
       \/ At("reload") /\ ~act.done

(* When a sync has gone through, the project allows what the registry it   *)
(* read enables, but for what could not be allowed, and nothing else; no   *)
(* derived worker names a service that is not allowed, and unless the      *)
(* registry was edited meanwhile it names all that claim its role.         *)
SyncSettles ==
    [][SyncEnds =>
       /\ Allowed' \subseteq act.on /\ act.on \subseteq Allowed' \cup act.failed
       /\ \A r \in InUse(Roles) : roles'[r].src = "auto" =>
            /\ roles'[r].up \subseteq Allowed'
            /\ act.quiet => roles'[r].up = Derived(r)']_wireVars

(* A worker that was stopped is not run again by enabling it, by a         *)
(* recreate or by its restart policy; a sync that changes its services and *)
(* a new role model do run it again.  One that was only flagged, because   *)
(* docker did not stop it or its supervisor was down, still counts as up:  *)
(* an inner docker on a volume runs it again.                              *)
ParkedStays ==
    [][\A r \in Roles :
         roles[r].stopped /\ box[r].st # "up" /\ box'[r].st = "up"
           => act.verb \in {"start", "sync", "models"}]_wireVars
=============================================================================
