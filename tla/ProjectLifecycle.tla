-------------------------- MODULE ProjectLifecycle --------------------------
(***************************************************************************)
(* What create, destroy, start, stop and update do to a project            *)
(* (cli/rscore.py): its container, the marker and the override file in its *)
(* workspace, the SSH port it owns, the logins and keys that a recreate    *)
(* carries from one container to the next through a stash.  A command is a *)
(* step per docker call or file, and dies between any two: by die(), by an *)
(* exception or by a kill.                                                 *)
(*                                                                         *)
(* The broker runs one of these commands at a time (LifecycleLane); so     *)
(* does this module.  Of the services only the editor is kept (the reader  *)
(* is its twin), of the models the supervisor's and the worker's, of the   *)
(* agents one that may be added.                                           *)
(*                                                                         *)
(* A definition Bad... is a faulty variant of the one after it.  Nothing   *)
(* uses it; it is there to show that a property can fail.                  *)
(***************************************************************************)
EXTENDS Naturals

CONSTANTS
    Projects,
    Ports,          \* the block of SSH ports, without the reserved ones
    Nobody,         \* no project
    NoPort,         \* no port
    Aims            \* BOUND: which features a behaviour may combine

ASSUME ProjectAssumption ==
    /\ Nobody \notin Projects /\ NoPort \notin Ports
    /\ Aims \subseteq SUBSET {"company", "creds", "editor", "agents", "models",
                              "strays", "remains"}

VARIABLES
    con,        \* per project: its container
    ws,         \* per project: what its workspace directory holds
    net,        \* the projects that have a docker network
    job,        \* the command that runs: its step, its project, its locals
    ghost,      \* history, per project: what was given, chosen and done,
                \* what nobody noticed go astray or stay behind
    aim         \* the features that this behaviour combines

projectVars == <<con, ws, net, job, ghost, aim>>

-----------------------------------------------------------------------------
Items == {"login", "key"}   \* the agent's login, the git key and identity

NoCtr == [state |-> "none", boot |-> FALSE, dind |-> FALSE,
          bind |-> NoPort, label |-> FALSE, env |-> 0, wired |-> FALSE,
          editor |-> FALSE, route |-> FALSE, home |-> {}]
NoWs  == [mark |-> "none", port |-> NoPort, model |-> 0, agent |-> FALSE,
          over |-> "none", stash |-> {}]
NoText == [port |-> NoPort, model |-> 0, agent |-> FALSE]
NoOld  == [dind |-> FALSE, bind |-> NoPort, label |-> FALSE, wired |-> FALSE]
NoJob   == [pc |-> "idle", live |-> FALSE, project |-> Nobody, svc |-> "none",
           models |-> {}, agent |-> FALSE, adds |-> FALSE, text |-> NoText,
           old |-> NoOld]

Exists(p) == con[p].state # "none"
Up(p)     == con[p].state = "up"

(* The marker's readers take a torn file for one without the key.          *)
MarkerPort(p)  == IF ws[p].mark = "ok" THEN ws[p].port ELSE NoPort
MarkerModel(p) == IF ws[p].mark = "ok" THEN ws[p].model ELSE 0
MarkerAgent(p) == ws[p].mark = "ok" /\ ws[p].agent

(* The label's flag overlaid with the live choice.                         *)
Overlaid(label, over) == IF over = "none" THEN label ELSE over = "on"

ProjectInit ==
    /\ con = [p \in Projects |-> NoCtr]
    /\ ws = [p \in Projects |-> NoWs]
    /\ net = {}
    /\ job = NoJob
    /\ ghost = [p \in Projects |->
                  [given |-> {}, port |-> NoPort, choice |-> "open",
                   done |-> "none", strayed |-> {}, left |-> {}]]
    /\ aim \in Aims

-----------------------------------------------------------------------------
(* Commands in general                                                     *)

P == job.project

(* The entrypoint has put back what it finds in the stash.                 *)
Booted(p) == Up(p) => ~con[p].boot

(* Nothing makes a command wait for the last boot.                         *)
MayBegin(p) == job.pc = "idle" /\ ("strays" \in aim \/ Booted(p))

Alone(p) == \A q \in Projects \ {p} : con[q] = NoCtr /\ ws[q] = NoWs

Locals(p, pc) == [NoJob EXCEPT !.pc = pc, !.project = p]

(* What a command that begins makes uncertain: the choice it is to replace.*)
Forget(p, flips, live) ==
    ghost' = [ghost EXCEPT ![p].done = IF live /\ @ = "up" THEN @ ELSE "none",
                           ![p].choice = IF flips THEN "open" ELSE @]

Go(from, to) == job.pc = from /\ job' = [job EXCEPT !.pc = to]

(* The command reports success.  What was done in the live container makes *)
(* a project no more whole than it was.                                    *)
Finish(from, done) ==
    /\ job.pc = from
    /\ job' = NoJob
    /\ ghost' = [ghost EXCEPT ![P].done = IF job.live THEN @ ELSE done,
                   ![P].choice = IF job.svc = "none" THEN @ ELSE job.svc]

CommandDies ==
    /\ job.pc # "idle"
    /\ job' = NoJob
    /\ ghost' = [ghost EXCEPT ![P].done = "none"]
    /\ UNCHANGED <<con, ws, net, aim>>

(* A docker project's entrypoint deploys the editor by itself; a dind one  *)
(* leaves it to the host.                                                  *)
Started(c) == [c EXCEPT !.state = "up", !.boot = TRUE,
                        !.editor = ~c.dind /\ c.label]
Stopped(c) == [c EXCEPT !.state = IF @ = "up" THEN "down" ELSE @,
                        !.boot = FALSE, !.editor = FALSE, !.route = FALSE]

StartContainer(from, to) ==
    /\ Go(from, to)
    /\ con' = [con EXCEPT ![P] = Started(@)]
    /\ UNCHANGED <<ws, net, ghost, aim>>

(* The default route by the router: it must be on the project's network.   *)
InjectRoute(from, to) ==
    /\ Go(from, to)
    /\ P \in net
    /\ con' = [con EXCEPT ![P].route = TRUE]
    /\ UNCHANGED <<ws, net, ghost, aim>>

(* write_text empties the marker, then fills it.                           *)
Marker(mark, text) ==
    [ws EXCEPT ![P].mark = mark, ![P].port = text.port,
               ![P].model = text.model, ![P].agent = text.agent]
OpenMarker(to, port, model, agent) ==
    /\ job' = [job EXCEPT !.pc = to,
                 !.text = [port |-> port, model |-> model, agent |-> agent]]
    /\ ws' = Marker("torn", NoText)
    /\ UNCHANGED <<con, net, ghost, aim>>
FillMarker(from, then) ==
    /\ job.pc = from
    /\ job' = [then EXCEPT !.text = NoText]
    /\ ws' = Marker("ok", job.text)
    /\ UNCHANGED <<con, net, ghost, aim>>

-----------------------------------------------------------------------------
(* create                                                                  *)

CreateBegin(p) ==
    /\ MayBegin(p)
    /\ ~Exists(p)
    /\ "company" \in aim \/ Alone(p)
    /\ \E svc \in {"on", "off"}, agent \in BOOLEAN, dind \in BOOLEAN :
          /\ svc = "on" => "editor" \in aim
          /\ agent => "agents" \in aim
          /\ job' = [Locals(p, "cr_port") EXCEPT
                       !.svc = svc, !.agent = agent, !.old.dind = dind]
    /\ ghost' = [ghost EXCEPT ![p].done = "none", ![p].choice = "open",
                              ![p].left = {}]
    /\ UNCHANGED <<con, ws, net, aim>>

(* Asks docker alone: a project without its container owns nothing.        *)
BadRecorded(q) == IF Exists(q) THEN {con[q].bind} ELSE {}

(* The ports a project owns, by its marker or its container's binding.     *)
Recorded(q) == {MarkerPort(q)} \cup (IF Exists(q) THEN {con[q].bind} ELSE {})
Taken(p)    == UNION {Recorded(q) : q \in Projects \ {p}}

(* The lowest that is free, or an explicit one.  The live probe may rule   *)
(* any of them out, so that any may be the lowest.                         *)
AllocatePort ==
    /\ job.pc = "cr_port"
    /\ \E port \in Ports \ Taken(P) :
          job' = [job EXCEPT !.pc = "cr_mark", !.text.port = port]
    /\ UNCHANGED <<con, ws, net, ghost, aim>>

(* The workspace is made, or the one that was left behind is adopted, with *)
(* its stash and its override file.                                        *)
CreateMarker ==
    /\ job.pc = "cr_mark"
    /\ OpenMarker("cr_fill", job.text.port, 1, job.agent)

CreateNetwork ==
    /\ Go("cr_net", "cr_make")
    /\ net' = net \cup {P}
    /\ UNCHANGED <<con, ws, ghost, aim>>

(* docker run creates, then starts: a busy port leaves the first half.     *)
(* The agents of a docker project are mounts.                              *)
CreateContainer ==
    /\ Go("cr_make", "cr_start")
    /\ con' = [con EXCEPT ![P] =
                 [NoCtr EXCEPT !.state = "down", !.dind = job.old.dind,
                    !.bind = MarkerPort(P), !.label = job.svc = "on", !.env = 1,
                    !.wired = ~job.old.dind /\ job.agent]]
    /\ ghost' = [ghost EXCEPT ![P].port = MarkerPort(P)]
    /\ UNCHANGED <<ws, net, aim>>

(* A dind supervisor is staged and wired once its dockerd answers, which   *)
(* its entrypoint starts after it restored the stash.                      *)
Deploy(from, to, agent, flag) ==
    /\ Go(from, to)
    /\ con[P].dind => Booted(P)
    /\ con' = [con EXCEPT ![P] =
                 IF @.dind THEN [@ EXCEPT !.wired = agent, !.editor = flag]
                 ELSE @]
    /\ UNCHANGED <<ws, net, ghost, aim>>

(* The git key and identity, if any were given.                            *)
CreateAuth ==
    /\ Go("cr_auth", "cr_ready")
    /\ \E items \in IF "creds" \in aim THEN {{}, {"key"}} ELSE {{}} :
          /\ con' = [con EXCEPT ![P].home = @ \cup items]
          /\ ghost' = [ghost EXCEPT ![P].given = @ \cup items]
    /\ UNCHANGED <<ws, net, aim>>

(* An override that was left behind will be put before the new label at    *)
(* the next start: the choice is then nobody's.                            *)
CreateReady ==
    /\ job.pc = "cr_ready"
    /\ job' = NoJob
    /\ ghost' = [ghost EXCEPT ![P].done = "up",
                   ![P].choice = IF ws[P].over = "none" THEN job.svc ELSE "open"]
    /\ UNCHANGED <<con, ws, net, aim>>

-----------------------------------------------------------------------------
(* destroy, stop                                                           *)

DestroyBegin(p) ==
    /\ MayBegin(p)
    /\ Exists(p)
    /\ job' = Locals(p, "de_rm")
    /\ ghost' = [ghost EXCEPT ![p].given = {}, ![p].strayed = {},
                              ![p].done = "none", ![p].choice = "open"]
    /\ UNCHANGED <<con, ws, net, aim>>

(* None of the three removals is looked at: what cannot be removed stays.  *)
Removes(what) == ghost' = [ghost EXCEPT ![P].left = @ \ {what}]
Leaves(what)  == ghost' = [ghost EXCEPT ![P].left = @ \cup {what}]

DestroyContainer ==
    /\ Go("de_rm", "de_tree")
    /\ \/ con' = [con EXCEPT ![P] = NoCtr] /\ Removes("container")
       \/ "remains" \in aim /\ UNCHANGED con /\ Leaves("container")
    /\ UNCHANGED <<ws, net, aim>>

(* Any part of the tree may stay, the marker as a whole or not at all.     *)
Remains(tree, marked, over) ==
    [IF marked THEN tree ELSE [NoWs EXCEPT !.stash = tree.stash]
        EXCEPT !.over = IF over THEN tree.over ELSE "none"]

DestroyTree ==
    /\ Go("de_tree", "de_net")
    /\ \/ ws' = [ws EXCEPT ![P] = NoWs] /\ Removes("tree")
       \/ /\ "remains" \in aim
          /\ \E marked, over \in BOOLEAN, stash \in SUBSET ws[P].stash :
                ws' = [ws EXCEPT ![P] = [Remains(ws[P], marked, over) EXCEPT
                                           !.stash = stash]]
          /\ Leaves("tree")
    /\ UNCHANGED <<con, net, aim>>

DestroyNetwork ==
    /\ job.pc = "de_net"
    /\ job' = NoJob
    /\ \E gone \in BOOLEAN :
          /\ ~gone => "remains" \in aim
          /\ net' = IF gone THEN net \ {P} ELSE net
          /\ ghost' = [ghost EXCEPT ![P].done = "gone",
                         ![P].left = IF gone THEN @ \ {"network"}
                                     ELSE @ \cup {"network"}]
    /\ UNCHANGED <<con, ws, aim>>

Stop(p) ==
    /\ MayBegin(p)
    /\ Exists(p)
    /\ con' = [con EXCEPT ![p] = Stopped(@)]
    /\ UNCHANGED <<ws, net, job, ghost, aim>>

-----------------------------------------------------------------------------
(* start: an absent or a running project is skipped; sysbox cannot start a *)
(* stopped container, so a dind project is recreated                       *)

StartBegin(p) ==
    /\ MayBegin(p)
    /\ Exists(p) /\ ~Up(p)
    /\ job' = Locals(p, IF con[p].dind THEN "re_login" ELSE "sd_start")
    /\ Forget(p, FALSE, FALSE)
    /\ UNCHANGED <<con, ws, net, aim>>

StartPlain ==
    \/ StartContainer("sd_start", "sd_route")
    \/ InjectRoute("sd_route", "done")

(* Forwarders, fetch wiring and the retried setup are not kept here.       *)
CommandDone ==
    /\ Finish("done", "up")
    /\ UNCHANGED <<con, ws, net, aim>>

-----------------------------------------------------------------------------
(* update                                                                  *)

(* Takes the fast path for every flip of the editor.                       *)
BadLiveToggle(svc, adds, models) == svc # "none" /\ ~adds

(* A flip of the editor and nothing else is done in the live container, as *)
(* are an agent more and another worker model alone.                       *)
LiveToggle(svc, adds, models) == svc # "none" /\ ~adds /\ models = {}
LiveAgents(svc, agent, models) == agent /\ svc = "none" /\ models = {}
WorkerOnly(svc, adds, models) == models = {"worker"} /\ svc = "none" /\ ~adds

(* Where it goes once the models are written: to the agents, then live or  *)
(* by a recreate.                                                          *)
Way(c) ==
    IF c.adds THEN [c EXCEPT !.pc = "up_agent"]
    ELSE [c EXCEPT !.models = {}, !.agent = FALSE,
            !.pc = IF ~c.live THEN "re_login"
                   ELSE IF c.svc # "none" THEN "up_live"
                   ELSE IF c.agent THEN "up_stage" ELSE "done"]

(* A docker project may have its editor toggled, nothing else.             *)
PlainAllows(svc, agent, models) == svc # "none" /\ models = {} /\ ~agent

UpdateBegin(p) ==
    /\ MayBegin(p)
    /\ Exists(p)
    /\ \E svc \in {"none", "on", "off"}, agent \in BOOLEAN,
         models \in {{}, {"supervisor"}, {"worker"}} :
         /\ svc # "none" \/ agent \/ models # {}
         /\ svc # "none" => "editor" \in aim
         /\ agent => "agents" \in aim
         /\ "supervisor" \in models => "models" \in aim
         /\ con[p].dind \/ PlainAllows(svc, agent, models)
         /\ agent => ws[p].mark # "none"
         /\ LET adds == agent /\ ~MarkerAgent(p)
                live == con[p].dind /\ (LiveToggle(svc, adds, models)
                           \/ LiveAgents(svc, agent, models)
                           \/ WorkerOnly(svc, adds, models))
                c    == [Locals(p, "idle") EXCEPT !.svc = svc, !.agent = agent,
                           !.adds = adds, !.models = models, !.live = live]
            IN /\ job' = IF ~con[p].dind THEN [c EXCEPT !.pc = "re_key"]
                         ELSE IF models # {} THEN [c EXCEPT !.pc = "up_model"]
                         ELSE Way(c)
               /\ Forget(p, svc # "none", live)
    /\ UNCHANGED <<con, ws, net, aim>>

(* The model pairs are merged into what could be read of the marker, with  *)
(* the defaults for what could not.                                        *)
UpdateModels ==
    /\ job.pc = "up_model"
    /\ OpenMarker("up_mfill", MarkerPort(P),
                  IF "supervisor" \in job.models THEN 2
                  ELSE IF MarkerModel(P) = 0 THEN 1 ELSE MarkerModel(P),
                  MarkerAgent(P))

(* The agent set refuses a marker it cannot read.                          *)
UpdateAgents ==
    /\ job.pc = "up_agent"
    /\ ws[P].mark = "ok"
    /\ OpenMarker("up_afill", MarkerPort(P), MarkerModel(P), TRUE)

(* The editor is deployed, or killed; a stopped container has none to kill.*)
LiveEditor ==
    /\ Go("up_live", "up_over")
    /\ job.svc = "on" => Up(P)
    /\ con' = [con EXCEPT ![P].editor = job.svc = "on"]
    /\ UNCHANGED <<ws, net, ghost, aim>>

WriteOverride ==
    /\ Go("up_over", "done")
    /\ ws' = [ws EXCEPT ![P].over = job.svc]
    /\ UNCHANGED <<con, net, ghost, aim>>

LiveStage ==
    /\ Go("up_stage", "done")
    /\ Up(P)
    /\ con' = [con EXCEPT ![P].wired = MarkerAgent(P)]
    /\ UNCHANGED <<ws, net, ghost, aim>>

-----------------------------------------------------------------------------
(* The recreate, on behalf of a start or an update                         *)

(* Moved out of a running container, copied out of a stopped one; a stash  *)
(* that is there already is left as it is.  Nobody looks whether it was    *)
(* done, or half done.                                                     *)
Stash(item) ==
    LET taken == IF item \in ws[P].stash THEN {} ELSE con[P].home \cap {item}
    IN \/ /\ ws' = [ws EXCEPT ![P].stash = @ \cup taken]
          /\ con' = [con EXCEPT ![P].home = IF Up(P) THEN @ \ taken ELSE @]
          /\ ghost' = [ghost EXCEPT ![P].strayed = @ \ taken]
       \/ /\ "strays" \in aim /\ taken # {}
          /\ \E half \in {{}, taken} :
                ws' = [ws EXCEPT ![P].stash = @ \cup half]
          /\ ghost' = [ghost EXCEPT ![P].strayed = @ \cup taken]
          /\ UNCHANGED con

(* Git auth after the stop, when nothing can be moved any more.            *)
BadStashKey ==
    /\ job.pc = "re_key"
    /\ job' = [job EXCEPT !.pc = "re_stop"]
    /\ UNCHANGED <<con, ws, net, ghost, aim>>

StashLogin ==
    /\ Go("re_login", "re_key")
    /\ Stash("login")
    /\ UNCHANGED <<net, aim>>
StashKey ==
    /\ job.pc = "re_key"
    /\ job' = [job EXCEPT !.pc = "re_stop"]
    /\ Stash("key")
    /\ UNCHANGED <<net, aim>>

(* What the new container is to be like is read from the old one, which is *)
(* then stopped.                                                           *)
StopOld ==
    /\ job.pc = "re_stop"
    /\ job' = [job EXCEPT !.pc = "re_rm",
                 !.old = [f \in DOMAIN NoOld |-> con[P][f]]]
    /\ con' = [con EXCEPT ![P] = Stopped(@)]
    /\ UNCHANGED <<ws, net, ghost, aim>>

(* A docker project's login is not carried: "re-auths in place".           *)
RemoveOld ==
    /\ Go("re_rm", "re_make")
    /\ con' = [con EXCEPT ![P] = NoCtr]
    /\ ghost' = [ghost EXCEPT ![P].given =
                               IF job.old.dind THEN @ ELSE @ \ {"login"}]
    /\ UNCHANGED <<ws, net, aim>>

Flag == IF job.svc # "none" THEN job.svc = "on"
        ELSE Overlaid(job.old.label, ws[P].over)

PortAgain == IF MarkerPort(P) # NoPort THEN MarkerPort(P) ELSE job.old.bind

Recreated ==
    [NoCtr EXCEPT !.state = "down", !.dind = TRUE, !.bind = PortAgain,
                  !.label = Flag, !.env = MarkerModel(P)]

(* A docker project's agents are in the mounts of its old container.       *)
RecreatedPlain == [Recreated EXCEPT !.dind = FALSE, !.wired = job.old.wired]

MakeNew ==
    /\ job.pc = "re_make"
    /\ job' = [job EXCEPT !.pc = "re_start", !.old = NoOld]
    /\ con' = [con EXCEPT ![P] =
                  IF job.old.dind THEN Recreated ELSE RecreatedPlain]
    /\ UNCHANGED <<ws, net, ghost, aim>>

(* The new label is the authority for a service that was asked for.        *)
ClearOverride ==
    /\ Go("re_clear", "done")
    /\ ws' = [ws EXCEPT ![P].over = IF job.svc = "none" \/ ~con[P].dind
                                    THEN @ ELSE "none"]
    /\ UNCHANGED <<con, net, ghost, aim>>

-----------------------------------------------------------------------------
(* Meanwhile: the entrypoint, and the researcher who logs in               *)

(* No command waits for the entrypoint: one that restores the stash after  *)
(* a recreate found it there puts it back into the old container.          *)
Boot(p) ==
    LET back == ws[p].stash \cap (IF con[p].dind THEN Items ELSE {"key"})
        late == P = p /\ job.pc \in {"re_key", "re_stop"}
    IN /\ ~Booted(p)
       /\ con' = [con EXCEPT ![p].boot = FALSE, ![p].home = @ \cup back]
       /\ ws' = [ws EXCEPT ![p].stash = @ \ back]
       /\ ghost' = [ghost EXCEPT ![p].strayed = IF late THEN @ \cup back
                                                 ELSE @]
       /\ UNCHANGED <<net, job, aim>>

Login(p) ==
    /\ "creds" \in aim
    /\ Up(p) /\ P # p /\ Booted(p)
    /\ con' = [con EXCEPT ![p].home = @ \cup {"login"}]
    /\ ghost' = [ghost EXCEPT ![p].given = @ \cup {"login"},
                              ![p].strayed = @ \ {"login"}]
    /\ UNCHANGED <<ws, net, job, aim>>

-----------------------------------------------------------------------------
ProjectNext ==
    \/ CommandDies
    \/ \E p \in Projects : CreateBegin(p) \/ DestroyBegin(p) \/ Stop(p)
                           \/ StartBegin(p) \/ UpdateBegin(p) \/ Boot(p)
                           \/ Login(p)
    \/ AllocatePort \/ CreateMarker
    \/ FillMarker("cr_fill", [job EXCEPT !.pc = "cr_net"])
    \/ CreateNetwork \/ CreateContainer
    \/ StartContainer("cr_start", "cr_route")
    \/ InjectRoute("cr_route", "cr_deploy")
    \/ Deploy("cr_deploy", "cr_auth", job.agent, job.svc = "on")
    \/ CreateAuth \/ CreateReady
    \/ DestroyContainer \/ DestroyTree \/ DestroyNetwork
    \/ StartPlain
    \/ UpdateModels \/ FillMarker("up_mfill", Way(job))
    \/ UpdateAgents \/ FillMarker("up_afill", Way([job EXCEPT !.adds = FALSE]))
    \/ LiveEditor \/ WriteOverride \/ LiveStage
    \/ StashLogin \/ StashKey \/ StopOld \/ RemoveOld \/ MakeNew
    \/ StartContainer("re_start", "re_route")
    \/ InjectRoute("re_route", "re_deploy")
    \/ Deploy("re_deploy", "re_clear", MarkerAgent(P), con[P].label)
    \/ ClearOverride \/ CommandDone

ProjectSpec == ProjectInit /\ [][ProjectNext]_projectVars

-----------------------------------------------------------------------------
(* Properties                                                              *)

(* "The SSH host port a new project owns until destroy": no other project  *)
(* has it on its container or in its marker, whatever commands died where, *)
(* and every container made for the project again is bound to it, though   *)
(* its marker be torn.                                                     *)
PortsOwned ==
    \A p \in Projects :
        /\ Exists(p) => con[p].bind = ghost[p].port
        /\ Exists(p) =>
             \A q \in Projects \ {p} :
                con[p].bind # con[q].bind /\ con[p].bind # ws[q].port

(* A login or a key that a project was given is in its container or in its *)
(* stash, however often it was recreated and whichever of these recreates  *)
(* died half-way, until somebody destroys it.  It may be lost where the    *)
(* copy to the stash failed, and where a boot put it back too late.        *)
CredsKept ==
    \A p \in Projects :
        ghost[p].given \ ghost[p].strayed \subseteq con[p].home \cup ws[p].stash

(* The container has the model and the agents of the marker.               *)
AsMarked(p) == /\ con[p].env \in {0, MarkerModel(p)}
               /\ con[p].wired = MarkerAgent(p)

(* What a command reported done has been done as a whole, and lasts: a     *)
(* project that came up runs the agents and the model of its marker (no    *)
(* model at all if it was made again while the marker could not be read),  *)
(* has its route, and has the editor or not as was last asked for, live or *)
(* by a recreate; one that was destroyed has left nothing behind but what  *)
(* a removal nobody looks at could not remove.  A container that was left  *)
(* behind has lost its marker.                                             *)
DoneMeansDone ==
    \A p \in Projects :
        CASE ghost[p].done = "gone" ->
               /\ con[p] = NoCtr \/ "container" \in ghost[p].left
               /\ ws[p] = NoWs \/ "tree" \in ghost[p].left
               /\ p \notin net \/ "network" \in ghost[p].left
          [] ghost[p].done = "up" /\ Up(p) /\ P # p ->
               /\ con[p].route
               /\ "container" \in ghost[p].left \/ AsMarked(p)
               /\ ghost[p].choice # "open" =>
                     con[p].editor = (ghost[p].choice = "on")
          [] OTHER -> TRUE
=============================================================================
