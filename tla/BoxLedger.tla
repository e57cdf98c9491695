------------------------------ MODULE BoxLedger ------------------------------
(***************************************************************************)
(* The sandbox boxes of one project: rs-sandbox (cli/rs_sandbox.py), which *)
(* runs inside the supervisor and keeps extensions.json, and the box and   *)
(* port verbs of cli/rscore.py that drive it and keep the registry of      *)
(* exported ports on the host.                                             *)
(*                                                                         *)
(* What a box is runs in four places: its ledger entry, its container,     *)
(* whose publishes, folder mounts and Gitea address are fixed when it is   *)
(* run, the forwarders executed in the container, and the tabs of the      *)
(* host's registry.  A command changes them one after the other and dies   *)
(* between any two; one command of the host and one typed inside run at a  *)
(* time.                                                                   *)
(*                                                                         *)
(* A definition Bad... is a faulty variant of the one after it.            *)
(***************************************************************************)
EXTENDS Naturals, FiniteSets

CONSTANTS
    Boxes,      \* names of boxes
    Slots,      \* addresses a box may be pinned to, lane by lane
    Pubs,       \* the supervisor's ports that publish a box's own port
    Apps,       \* ports that programs in a box listen on
    WebApp,     \* the one of them that a web box's own app listens on
    Folders,    \* top-level folders of the workspace
    NoBox,
    NoEntry,
    LastIp,     \* BOUND: Gitea addresses are 1..LastIp, 0 is none
    Aims        \* BOUND: which features a behaviour may combine

Kinds  == {"plain", "web", "dev", "fetch"}
Actors == {"host", "inside"}
Features == Kinds \cup {"inside", "dies", "port", "folders", "crash"}

ASSUME BoxAssumption ==
    /\ Slots \subseteq Nat /\ Pubs \subseteq Nat
    /\ WebApp \in Apps
    /\ NoBox \notin Boxes
    /\ "run" \notin Apps /\ "rm" \notin Apps
    /\ LastIp \in Nat \ {0}
    /\ Aims \subseteq SUBSET Features

VARIABLES
    ledger,     \* extensions.json: the entry of every box
    cont,       \* the box containers of the inner docker
    tabs,       \* the box rows of exported-ports.json
    world,      \* Gitea's address, the staged copy, the folders that exist
    cmd,        \* what each actor's command is doing
    moved,      \* history: boxes whose world changed since they were run
    torn,       \* history: what a command left half done, unhealed
    aim         \* the features that this behaviour combines

vars == <<ledger, cont, tabs, world, cmd, moved, torn, aim>>

-----------------------------------------------------------------------------
Publish == Apps \X Pubs
Entry == [kind : Kinds, slot : Slots, pubs : SUBSET Publish,
          folders : SUBSET Folders]

(* A box without an entry is told from every box with one.                 *)
ASSUME EntryAssumption == NoEntry \notin Entry

(* missed is history: what was tried in the container, and warned of at    *)
(* most when it failed: the forwarders of these ports, its removal.        *)
Gone == [state |-> "absent", pubs |-> {}, gitea |-> 0, folders |-> {},
         fwd |-> {}, missed |-> {}]
Idle == [verb |-> "none", pc |-> "idle", box |-> NoBox, app |-> WebApp,
         kind |-> "plain", set |-> {}, todo |-> {}]

Saved(b) == ledger[b] # NoEntry
Up(b)    == cont[b].state = "up"
Lane(k)  == IF k = "dev" THEN {"dev"} ELSE Kinds \ {"dev"}
NeedsGitea(b) == Saved(b) /\ ledger[b].kind \in {"dev", "fetch"}
AppsOf(pubs) == {p[1] : p \in pubs}
RowsOf(b) == {t \in tabs : t.box = b}

Init ==
    /\ ledger = [b \in Boxes |-> NoEntry]
    /\ cont = [b \in Boxes |-> Gone]
    /\ tabs = {}
    /\ world = [gitea |-> 1, staged |-> 0, folders |-> Folders]
    /\ cmd = [a \in Actors |-> Idle]
    /\ moved = {}
    /\ torn = {}
    /\ aim \in Aims

-----------------------------------------------------------------------------
(* Commands                                                                *)

Busy == {cmd[a].box : a \in Actors} \cup UNION {cmd[a].todo : a \in Actors}

At(a, pc) == cmd[a].pc = pc
Goto(a, pc) == cmd' = [cmd EXCEPT ![a].pc = pc]
Finish(a)   == cmd' = [cmd EXCEPT ![a] = Idle]

(* The broker serialises the host's verbs.  BOUND: the command typed       *)
(* inside names no box that the host's command works on.                   *)
Begin(a, verb, pc, b, app, kind, set) ==
    /\ cmd[a] = Idle
    /\ b \notin Busy
    /\ cmd' = [cmd EXCEPT ![a] = [verb |-> verb, pc |-> pc, box |-> b,
                                  app |-> app, kind |-> kind, set |-> set,
                                  todo |-> {}]]

(* After the container runs: the rest of the verb, none for most.          *)
After(verb, kind) ==
    CASE verb = "add" /\ kind = "web"        -> "tab"
      [] verb \in {"expose", "unexpose"}     -> "row"
      [] verb \in {"attach", "recreate"}     -> "loop"
      [] OTHER                               -> "done"

Resume(a) ==
    LET next == After(cmd[a].verb, cmd[a].kind)
    IN IF next = "done" THEN Finish(a)
       ELSE IF next = "loop"
       THEN cmd' = [cmd EXCEPT ![a].pc = "loop", ![a].box = NoBox]
       ELSE Goto(a, next)

(* What is left half done when actor a's command ends here.                *)
Scar(a) ==
    LET c == cmd[a] IN
    (IF c.pc \in {"rm", "run", "fwd"} THEN {<<c.box, "run">>} ELSE {})
    \cup (IF c.verb = "add" /\ c.kind = "web" /\ c.pc \in {"rm", "run", "fwd", "tab"}
          THEN {<<c.box, WebApp>>} ELSE {})
    \cup (IF c.verb = "unexpose" /\ c.pc \in {"rm", "run", "fwd", "row"}
          THEN {<<c.box, c.app>>} ELSE {})
    \cup (IF c.verb = "remove" /\ c.pc = "sweep"
          THEN {<<c.box, t.app>> : t \in RowsOf(c.box)} ELSE {})

(* A tear of a row is over once no other row shares its publish, and a     *)
(* web box's own only with its flag.                                       *)
Mended(b, app, rows) ==
    IF \/ \E t, u \in rows : t # u /\ t.pub = u.pub
       \/ /\ ledger[b].kind = "web" /\ app = WebApp
          /\ \A t \in rows : t.box = b /\ t.app = app => ~t.web
    THEN {} ELSE {<<b, app>>}

(* A kill, or die() elsewhere.  BOUND: none while something is torn.       *)
CommandDies(a) ==
    /\ cmd[a] # Idle
    /\ "dies" \in aim
    /\ torn = {}
    /\ torn' = Scar(a)
    /\ Finish(a)
    /\ UNCHANGED <<ledger, cont, tabs, world, moved, aim>>

-----------------------------------------------------------------------------
(* rs-sandbox: the ledger                                                  *)

FreeSlots(kind) ==
    Slots \ {ledger[b].slot : b \in {x \in Boxes :
                  Saved(x) /\ ledger[x].kind \in Lane(kind)}}

FreePubs == Pubs \ {p[2] : p \in UNION {ledger[b].pubs :
                                        b \in {x \in Boxes : Saved(x)}}}

Lowest(S) == CHOOSE n \in S : \A m \in S : n <= m

(* cmd_create saves the entry before it runs the box: a run that fails     *)
(* leaves an entry without a container.                                    *)
CreateSave(a) ==
    LET c == cmd[a] IN
    /\ At(a, "save") /\ c.verb = "add"
    /\ FreeSlots(c.kind) # {}
    /\ c.kind = "web" => FreePubs # {}
    /\ ledger' = [ledger EXCEPT ![c.box] =
            [kind |-> c.kind, slot |-> Lowest(FreeSlots(c.kind)),
             pubs |-> IF c.kind = "web" THEN {<<WebApp, Lowest(FreePubs)>>}
                      ELSE {},
             folders |-> c.set]]
    /\ Goto(a, "rm")
    /\ UNCHANGED <<cont, tabs, world, moved, torn, aim>>

(* A port already exposed is answered as it is, without a run.             *)
ExposeAgain(a) ==
    LET c == cmd[a] IN
    /\ At(a, "save") /\ c.verb = "expose"
    /\ c.app \in AppsOf(ledger[c.box].pubs)
    /\ Goto(a, "row")
    /\ UNCHANGED <<ledger, cont, tabs, world, moved, torn, aim>>

ExposeSave(a) ==
    LET c == cmd[a] IN
    /\ At(a, "save") /\ c.verb = "expose"
    /\ c.app \notin AppsOf(ledger[c.box].pubs)
    /\ FreePubs # {}
    /\ ledger' = [ledger EXCEPT ![c.box].pubs =
                      @ \cup {<<c.app, Lowest(FreePubs)>>}]
    /\ Goto(a, "rm")
    /\ UNCHANGED <<cont, tabs, world, moved, torn, aim>>

UnexposeSave(a) ==
    LET c == cmd[a]
        kept == {p \in ledger[c.box].pubs : p[1] # c.app}
    IN
    /\ At(a, "save") /\ c.verb = "unexpose"
    /\ ledger' = [ledger EXCEPT ![c.box].pubs = kept]
    /\ Goto(a, IF kept = ledger[c.box].pubs THEN "row" ELSE "rm")
    /\ UNCHANGED <<cont, tabs, world, moved, torn, aim>>

FoldersSame(a) ==
    LET c == cmd[a] IN
    /\ At(a, "save") /\ c.verb = "folders"
    /\ c.set = ledger[c.box].folders /\ Up(c.box)
    /\ Finish(a)
    /\ UNCHANGED <<ledger, cont, tabs, world, moved, torn, aim>>

FoldersSave(a) ==
    LET c == cmd[a] IN
    /\ At(a, "save") /\ c.verb = "folders"
    /\ ~(c.set = ledger[c.box].folders /\ Up(c.box))
    /\ ledger' = [ledger EXCEPT ![c.box].folders = c.set]
    /\ Goto(a, "rm")
    /\ UNCHANGED <<cont, tabs, world, moved, torn, aim>>

(* An exhausted pool.                                                      *)
PoolEmpty(a) ==
    LET c == cmd[a] IN
    /\ At(a, "save")
    /\ \/ c.verb = "add" /\ FreeSlots(c.kind) = {}
       \/ c.verb = "add" /\ c.kind = "web" /\ FreePubs = {}
       \/ /\ c.verb = "expose" /\ FreePubs = {}
          /\ c.app \notin AppsOf(ledger[c.box].pubs)
    /\ Finish(a)
    /\ UNCHANGED <<ledger, cont, tabs, world, moved, torn, aim>>

-----------------------------------------------------------------------------
(* rs-sandbox: _run_box, which every verb that re-runs a box goes through  *)

KeptFolders(b) == ledger[b].folders \cap world.folders

DropContainer(a) ==
    /\ At(a, "rm")
    /\ cont' = [cont EXCEPT ![cmd[a].box] = Gone]
    /\ Goto(a, "run")
    /\ UNCHANGED <<ledger, tabs, world, moved, torn, aim>>

(* What docker run fixes, from the entry and the world of this moment.     *)
Baked(b) ==
    [state |-> "up", pubs |-> ledger[b].pubs,
     gitea |-> IF NeedsGitea(b) THEN world.staged ELSE 0,
     folders |-> KeptFolders(b), fwd |-> {}, missed |-> {}]

RunBox(a) ==
    /\ At(a, "run")
    /\ cont' = [cont EXCEPT ![cmd[a].box] = Baked(cmd[a].box)]
    /\ moved' = moved \ {cmd[a].box}
    /\ Goto(a, "fwd")
    /\ UNCHANGED <<ledger, tabs, world, torn, aim>>

(* The command dies of it; the loops of the host go on.                    *)
Abandon(a) ==
    /\ "dies" \in aim
    /\ torn = {}
    /\ IF cmd[a].verb \in {"attach", "recreate"} THEN Resume(a) ELSE Finish(a)

(* docker rm fails, which is not looked at: docker run finds the name      *)
(* taken, and the container that was to go runs on.                        *)
DropFails(a) ==
    /\ At(a, "rm")
    /\ cont[cmd[a].box].state # "absent"
    /\ torn' = Scar(a)
    /\ Abandon(a)
    /\ UNCHANGED <<ledger, cont, tabs, world, moved, aim>>

(* docker create or run made no container, or the staging of the box's     *)
(* environment file or the start after it failed and removed what it made. *)
RunFails(a) ==
    /\ At(a, "run")
    /\ torn' = Scar(a) \ {<<cmd[a].box, "run">>}
    /\ Abandon(a)
    /\ UNCHANGED <<ledger, cont, tabs, world, moved, aim>>

(* docker run made a container and could not start it, or the removal of   *)
(* one that failed to start failed as well: it stays, not running.         *)
RunLeavesHusk(a) ==
    /\ At(a, "run")
    /\ cont' = [cont EXCEPT ![cmd[a].box] =
                    [Baked(cmd[a].box) EXCEPT !.state = "down"]]
    /\ moved' = moved \ {cmd[a].box}
    /\ torn' = Scar(a) \ {<<cmd[a].box, "run">>}
    /\ Abandon(a)
    /\ UNCHANGED <<ledger, tabs, world, aim>>

(* The forwarders that can be launched in a box; of another there is only  *)
(* a warning.  BOUND: all of them, unless docker fails in this behaviour.  *)
Launched(b) ==
    {set \in SUBSET AppsOf(ledger[b].pubs) :
        "crash" \in aim \/ set = AppsOf(ledger[b].pubs)}

Serving(c, pubs, set) ==
    [c EXCEPT !.state = "up", !.fwd = set, !.missed = AppsOf(pubs) \ set]

BadLaunchForwarders(a) ==
    /\ At(a, "fwd")
    /\ cont' = [cont EXCEPT ![cmd[a].box].fwd =
                    {app \in AppsOf(ledger[cmd[a].box].pubs) :
                        cmd[a].verb # "expose" \/ app = cmd[a].app}]
    /\ torn' = torn \ {<<cmd[a].box, "run">>}
    /\ Resume(a)
    /\ UNCHANGED <<ledger, tabs, world, moved, aim>>

LaunchForwarders(a) ==
    LET b == cmd[a].box IN
    /\ At(a, "fwd")
    /\ \E set \in Launched(b) :
          cont' = [cont EXCEPT ![b] = Serving(@, ledger[b].pubs, set)]
    /\ torn' = torn \ {<<b, "run">>}
    /\ Resume(a)
    /\ UNCHANGED <<ledger, tabs, world, moved, aim>>

-----------------------------------------------------------------------------
(* rs-sandbox: stop, start, restart, typed inside the supervisor           *)

Stop(b) ==
    /\ "inside" \in aim
    /\ cmd["inside"] = Idle /\ b \notin Busy
    /\ Saved(b) /\ Up(b)
    /\ cont' = [cont EXCEPT ![b].state = "down", ![b].fwd = {}]
    /\ UNCHANGED <<ledger, tabs, world, cmd, moved, torn, aim>>

Restart(b) ==
    /\ "inside" \in aim
    /\ Saved(b)
    /\ Begin("inside", "restart", "rm", b, WebApp, "plain", {})
    /\ UNCHANGED <<ledger, cont, tabs, world, moved, torn, aim>>

(* What is fixed in the container no longer fits: start must re-run.       *)
Stale(b) ==
    \/ cont[b].state = "absent"
    \/ ledger[b].kind = "dev" /\ cont[b].gitea # world.staged
    \/ /\ ledger[b].kind = "fetch" /\ world.staged # 0
       /\ cont[b].gitea # world.staged
    \/ ledger[b].folders # {} /\ cont[b].folders # KeptFolders(b)

Start(b) ==
    /\ "inside" \in aim
    /\ Saved(b)
    /\ Begin("inside", "start", IF Stale(b) THEN "rm" ELSE "start",
             b, WebApp, "plain", {})
    /\ moved' = IF Stale(b) THEN moved ELSE moved \ {b}
    /\ UNCHANGED <<ledger, cont, tabs, world, torn, aim>>

(* docker start keeps publishes and mounts, and the forwarders died with   *)
(* the stop.  It mends a half-done command only where these still fit.     *)
PlainStart ==
    LET b == cmd["inside"].box IN
    /\ At("inside", "start")
    /\ \E set \in Launched(b) :
          cont' = [cont EXCEPT ![b] = Serving(@, ledger[b].pubs, set)]
    /\ torn' = IF /\ cont[b].pubs = ledger[b].pubs
                  /\ cont[b].folders \subseteq ledger[b].folders
               THEN torn \ {<<b, "run">>} ELSE torn
    /\ Finish("inside")
    /\ UNCHANGED <<ledger, tabs, world, moved, aim>>

-----------------------------------------------------------------------------
(* The host: box add                                                       *)

(* The host's gates and the box tool's agree: the name is free, and what a *)
(* dev box may not take is refused by both.                                *)
Addable(b, kind, set) == ~Saved(b) /\ (kind = "dev" => set = {})

(* The host tests only the folders that the box does not carry yet.        *)
FoldersReal(set) == set \subseteq world.folders

BoxAdd(b) == \E kind \in Kinds \cap aim, set \in SUBSET Folders :
    /\ set # {} => "folders" \in aim
    /\ Addable(b, kind, set) /\ FoldersReal(set)
    /\ Begin("host", "add", IF kind \in {"dev", "fetch"} THEN "wire" ELSE "save",
             b, WebApp, kind, set)
    /\ UNCHANGED <<ledger, cont, tabs, world, moved, torn, aim>>

(* Gitea is connected and its address staged, for the new box alone.       *)
WireBox ==
    /\ At("host", "wire") /\ cmd["host"].verb = "add"
    /\ world' = [world EXCEPT !.staged = world.gitea]
    /\ moved' = IF world.staged = world.gitea THEN moved
                ELSE moved \cup {b \in Boxes : NeedsGitea(b)}
    /\ Goto("host", "save")
    /\ UNCHANGED <<ledger, cont, tabs, torn, aim>>

(* The tab of a web box, from the publish that the box tool answered.      *)
RegisterWebTab ==
    LET b == cmd["host"].box
        pub == CHOOSE p \in ledger[b].pubs : p[1] = WebApp
        rows == {t \in tabs : ~(t.box = b /\ t.app = WebApp)}
                \cup {[box |-> b, app |-> WebApp, pub |-> pub[2], web |-> TRUE]}
    IN
    /\ At("host", "tab")
    /\ tabs' = rows
    /\ torn' = torn \ Mended(b, WebApp, rows)
    /\ Finish("host")
    /\ UNCHANGED <<ledger, cont, world, moved, aim>>

-----------------------------------------------------------------------------
(* The host: exported ports of a box                                       *)

PortAdd(b) == \E app \in Apps :
    /\ "port" \in aim
    /\ Saved(b)
    /\ Begin("host", "expose", "save", b, app, "plain", {})
    /\ UNCHANGED <<ledger, cont, tabs, world, moved, torn, aim>>

(* One row per box and app; a web app's tab keeps its flag.                *)
BadPortRow ==
    LET c == cmd["host"]
        pub == CHOOSE p \in ledger[c.box].pubs : p[1] = c.app
        rows == {t \in tabs : ~(t.box = c.box /\ t.app = c.app)}
                \cup {[box |-> c.box, app |-> c.app, pub |-> pub[2],
                       web |-> FALSE]}
    IN
    /\ At("host", "row") /\ c.verb = "expose"
    /\ tabs' = rows
    /\ torn' = torn \ Mended(c.box, c.app, rows)
    /\ Finish("host")
    /\ UNCHANGED <<ledger, cont, world, moved, aim>>

PortRow ==
    LET c == cmd["host"]
        pub == CHOOSE p \in ledger[c.box].pubs : p[1] = c.app
        old == {t \in tabs : t.box = c.box /\ t.app = c.app}
        rows == (tabs \ old)
                \cup {[box |-> c.box, app |-> c.app, pub |-> pub[2],
                       web |-> \E t \in old : t.web]}
    IN
    /\ At("host", "row") /\ c.verb = "expose"
    /\ tabs' = rows
    /\ torn' = torn \ Mended(c.box, c.app, rows)
    /\ Finish("host")
    /\ UNCHANGED <<ledger, cont, world, moved, aim>>

(* A tab is named by its port; the first row that has it is the one, and   *)
(* every row that has it is dropped.  The tab of a web box is refused, and *)
(* a box that is gone fails unexpose.                                      *)
PortRemove == \E t \in tabs :
    /\ "port" \in aim
    /\ ~t.web
    /\ Saved(t.box)
    /\ Begin("host", "unexpose", "save", t.box, t.app, "plain", {})
    /\ UNCHANGED <<ledger, cont, tabs, world, moved, torn, aim>>

PortDrop ==
    LET c == cmd["host"]
        ports == {t.pub : t \in {x \in tabs : x.box = c.box /\ x.app = c.app}}
        rows == {t \in tabs : t.pub \notin ports}
    IN
    /\ At("host", "row") /\ c.verb = "unexpose"
    /\ tabs' = rows
    /\ torn' = (torn \ Mended(c.box, c.app, rows))
               \cup ({<<t.box, t.app>> : t \in tabs \ rows} \ {<<c.box, c.app>>})
    /\ Finish("host")
    /\ UNCHANGED <<ledger, cont, world, moved, aim>>

-----------------------------------------------------------------------------
(* The host: folders, box remove                                           *)

BoxFolders(b) == \E set \in SUBSET Folders :
    /\ "folders" \in aim
    /\ Saved(b) /\ ledger[b].kind # "dev"
    /\ FoldersReal(set \ ledger[b].folders)
    /\ Begin("host", "folders", "save", b, WebApp, "plain", set)
    /\ UNCHANGED <<ledger, cont, tabs, world, moved, torn, aim>>

BoxRemove(b) ==
    /\ Saved(b)
    /\ Begin("host", "remove", "kill", b, WebApp, "plain", {})
    /\ UNCHANGED <<ledger, cont, tabs, world, moved, torn, aim>>

(* The entry goes whether docker rm could remove the container or not.     *)
DiscardContainer ==
    LET b == cmd["host"].box IN
    /\ At("host", "kill")
    /\ \/ cont' = [cont EXCEPT ![b] = Gone]
       \/ /\ "crash" \in aim /\ cont[b].state # "absent"
          /\ cont' = [cont EXCEPT ![b].missed = @ \cup {"rm"}]
    /\ Goto("host", "del")
    /\ UNCHANGED <<ledger, tabs, world, moved, torn, aim>>

DiscardEntry ==
    /\ At("host", "del")
    /\ ledger' = [ledger EXCEPT ![cmd["host"].box] = NoEntry]
    /\ moved' = moved \ {cmd["host"].box}
    /\ Goto("host", "sweep")
    /\ UNCHANGED <<cont, tabs, world, torn, aim>>

SweepTabs ==
    /\ At("host", "sweep")
    /\ tabs' = tabs \ RowsOf(cmd["host"].box)
    /\ torn' = {x \in torn : x[1] # cmd["host"].box}
    /\ Finish("host")
    /\ UNCHANGED <<ledger, cont, world, moved, aim>>

-----------------------------------------------------------------------------
(* The host: loops over the boxes                                          *)

(* Recreate: a fresh supervisor with an empty inner docker; what was typed *)
(* inside died with the old one.  Every box runs again, a parked one too.  *)
Recreate ==
    /\ cmd["host"] = Idle
    /\ cmd["inside"] = Idle \/ ("dies" \in aim /\ torn = {})
    /\ \E b \in Boxes : Saved(b)
    /\ cont' = [b \in Boxes |-> Gone]
    /\ cmd' = [a \in Actors |-> IF a = "host"
                 THEN [Idle EXCEPT !.verb = "recreate", !.pc = "loop",
                                   !.todo = {b \in Boxes : Saved(b)}]
                 ELSE Idle]
    /\ torn' = torn \cup Scar("inside")
    /\ UNCHANGED <<ledger, tabs, world, moved, aim>>

(* Attach, or research start: connect, stage, and re-run every running box *)
(* whose baked address is another one.                                     *)
Attach ==
    /\ {"dev", "fetch"} \cap aim # {}
    /\ cmd["host"] = Idle /\ cmd["inside"] = Idle
    /\ \E b \in Boxes : NeedsGitea(b)
    /\ world' = [world EXCEPT !.staged = world.gitea]
    /\ moved' = IF world.staged = world.gitea THEN moved
                ELSE moved \cup {b \in Boxes : NeedsGitea(b)}
    /\ cmd' = [cmd EXCEPT !["host"] =
                 [Idle EXCEPT !.verb = "attach", !.pc = "loop",
                              !.todo = {b \in Boxes : NeedsGitea(b)}]]
    /\ UNCHANGED <<ledger, cont, tabs, torn, aim>>

(* A box whose baked address is current, or that is parked, is skipped.    *)
LoopBox == \E b \in cmd["host"].todo :
    /\ At("host", "loop")
    /\ LET skip == /\ cmd["host"].verb = "attach"
                   /\ ~Up(b) \/ cont[b].gitea = world.staged
       IN cmd' = [cmd EXCEPT !["host"].todo = @ \ {b},
                             !["host"].box = IF skip THEN NoBox ELSE b,
                             !["host"].pc = IF skip THEN "loop" ELSE "rm"]
    /\ UNCHANGED <<ledger, cont, tabs, world, moved, torn, aim>>

LoopEnds ==
    /\ At("host", "loop") /\ cmd["host"].todo = {}
    /\ Finish("host")
    /\ UNCHANGED <<ledger, cont, tabs, world, moved, torn, aim>>

-----------------------------------------------------------------------------
(* The world                                                               *)

(* Gitea comes back under another address.                                 *)
GiteaMoves ==
    /\ {"dev", "fetch"} \cap aim # {}
    /\ world.gitea < LastIp
    /\ world' = [world EXCEPT !.gitea = @ + 1]
    /\ UNCHANGED <<ledger, cont, tabs, cmd, moved, torn, aim>>

(* A folder is deleted or comes back.                                      *)
FolderChanges(f) ==
    /\ "folders" \in aim
    /\ world' = [world EXCEPT !.folders =
                     IF f \in @ THEN @ \ {f} ELSE @ \cup {f}]
    /\ moved' = moved \cup {b \in Boxes : Saved(b) /\ f \in ledger[b].folders}
    /\ UNCHANGED <<ledger, cont, tabs, cmd, torn, aim>>

(* docker restarts a box whose entrypoint failed: no forwarder runs in it. *)
BoxRestarts(b) ==
    /\ "crash" \in aim
    /\ torn = {}
    /\ Up(b) /\ b \notin Busy
    /\ Saved(b) /\ ledger[b].pubs # {}
    /\ cont' = [cont EXCEPT ![b].fwd = {}]
    /\ torn' = {<<b, "run">>}
    /\ UNCHANGED <<ledger, tabs, world, cmd, moved, aim>>

-----------------------------------------------------------------------------
LedgerStep(a) ==
    \/ CreateSave(a) \/ ExposeAgain(a) \/ ExposeSave(a) \/ UnexposeSave(a)
    \/ FoldersSame(a) \/ FoldersSave(a) \/ PoolEmpty(a)

RunStep(a) ==
    \/ DropContainer(a) \/ RunBox(a) \/ LaunchForwarders(a)
    \/ DropFails(a) \/ RunFails(a) \/ RunLeavesHusk(a)
    \/ CommandDies(a)

HostStep ==
    \/ LedgerStep("host")
    \/ WireBox \/ RegisterWebTab \/ PortRow \/ PortDrop
    \/ DiscardContainer \/ DiscardEntry \/ SweepTabs
    \/ LoopBox \/ LoopEnds

Request(b) ==
    \/ BoxAdd(b) \/ PortAdd(b) \/ BoxFolders(b) \/ BoxRemove(b)
    \/ Stop(b) \/ Start(b) \/ Restart(b)

Next ==
    \/ HostStep \/ PlainStart
    \/ \E a \in Actors : RunStep(a)
    \/ \E b \in Boxes : Request(b) \/ BoxRestarts(b)
    \/ PortRemove \/ Recreate \/ Attach
    \/ GiteaMoves
    \/ \E f \in Folders : FolderChanges(f)

Spec == Init /\ [][Next]_vars

-----------------------------------------------------------------------------
(* A tab of the host's registry leads to the box and the program it names: *)
(* the box's entry owns its publish, no two tabs share one and no two      *)
(* entries, those that failed and half-done commands left too.  A web box  *)
(* keeps its tab, as its own, until the box is removed, relabelled or not. *)
(* Not asked while a command works on the box, nor where one died between  *)
(* the box tool and the registry (port_add, port_remove, box_remove,       *)
(* _register_box_web_tab).                                                 *)
RowsTorn == \E x \in torn : x[2] # "run"

TabsLeadHome ==
    /\ \A b, d \in Boxes : b # d /\ Saved(b) /\ Saved(d) =>
          {p[2] : p \in ledger[b].pubs} \cap {p[2] : p \in ledger[d].pubs} = {}
    /\ \A t \in tabs : RowsTorn \/ t.box \in Busy \/
          /\ Saved(t.box)
          /\ <<t.app, t.pub>> \in ledger[t.box].pubs
          /\ \A u \in tabs : u.pub = t.pub => u = t
    /\ \A b \in Boxes :
          Saved(b) /\ ledger[b].kind = "web" => RowsTorn \/ b \in Busy \/
             \E t \in tabs : t.box = b /\ t.app = WebApp /\ t.web

(* A running box is the one its entry describes: its publishes, a live     *)
(* forwarder for each that could be launched, the folders of its entry     *)
(* that exist and the staged Gitea address, whichever verb ran or resumed  *)
(* it last; and no container outlives its entry but one that could not be  *)
(* removed.  Not asked of a box that a command died or failed re-running,  *)
(* nor, for folders and address, of one that runs on after they changed    *)
(* (the saves before the runs, _run_box, cmd_start's staleness tests, the  *)
(* loops of recreate and _restart_dev_boxes).                              *)
RunsAsSaved ==
    \A b \in Boxes :
       /\ cont[b].state # "absent" => Saved(b) \/ "rm" \in cont[b].missed
       /\ Saved(b) /\ Up(b) /\ b \notin Busy /\ <<b, "run">> \notin torn =>
             /\ cont[b].pubs = ledger[b].pubs
             /\ cont[b].fwd = AppsOf(ledger[b].pubs) \ cont[b].missed
             /\ b \in moved \/
                   /\ cont[b].folders = KeptFolders(b)
                   /\ NeedsGitea(b) => cont[b].gitea = world.staged
=============================================================================
