--------------------------- MODULE WorkerRegistry ---------------------------
(***************************************************************************)
(* The rs-worker commands that change a worker's durable state             *)
(* (cli/rs_worker.py), one step per file or docker operation.  Every path  *)
(* the commands touch is keyed by the worker's name and no command reads   *)
(* another name's, so the module is about one name.                        *)
(*                                                                         *)
(* Each element of Clis is one rs-worker process; nothing in the code      *)
(* keeps two from running at once, and any of them may die between two     *)
(* steps.  The agent inside the container is reduced to what the commands  *)
(* see of it: its runtime state and the outputs/<slug>/ it has written.    *)
(*                                                                         *)
(* A definition Bad... is a faulty variant of the one after it.  Nothing   *)
(* uses it; it is there to show that a property can fail.                  *)
(***************************************************************************)
EXTENDS Naturals, Sequences, FiniteSets

CONSTANTS
    Clis,           \* the rs-worker processes that may run
    Slugs,          \* the slugs a cycle can be filed under
    NoSlug,         \* no slug: staging/<name> does not exist
    MaxCycles,      \* bound: no accept passes on a name with this many cycles
    CliCanDie,      \* a command may be killed between two of its steps
    DockerCanFail   \* docker start, stop and rm may fail

ASSUME RegistryAssumption ==
    /\ NoSlug \notin Slugs
    /\ MaxCycles \in Nat
    /\ CliCanDie \in BOOLEAN
    /\ DockerCanFail \in BOOLEAN

VARIABLES
    reg,        \* .workers/<name>.json
    ctr,        \* docker status of rs-worker-<name>, "none" when absent
    phase,      \* what _resolve_state makes of the container
    refused,    \* history: docker has failed a start, a stop or a removal
    left,       \* history: what the last removal of it did not remove
    workdir,    \* workers/<name>/work exists
    outputs,    \* the slugs with an outputs/<slug>/ in it
    staging,    \* the slug staging/<name> points at
    plan,       \* plan/<name>.md exists
    results,    \* the <<ordinal, slug>> with a directory under results/<name>
    whole,      \* those holding the whole deliverable and its plan.md
    manifest,   \* the entries of results/<name>/manifest.json
    cmd         \* per process: the step it is at and its local variables

docker == <<ctr, phase, refused>>
work   == <<workdir, outputs, left>>
filed  == <<results, whole, manifest>>
disk   == <<reg, work, staging, plan, filed>>
vars   == <<reg, ctr, phase, refused, left, workdir, outputs, staging, plan,
            results, whole, manifest, cmd>>

-----------------------------------------------------------------------------
Destroyed == {"destroyed_pre_accept", "destroyed_post_accept"}
RegStates == {"none", "live", "down"} \cup Destroyed
NoReg     == [st |-> "none", cycles |-> << >>]
Entries   == [st : RegStates, cycles : Seq(Slugs)]

CtrStates == {"none", "created", "running", "exited"}
Phases    == {"working", "waiting", "parked", "done", "failed"}
Accepted  == {"done", "waiting"}

Steps == {"idle", "sp_probe", "sp_stage", "sp_plan", "sp_register",
          "sp_create", "sp_start", "sp_rollback", "sp_unlink",
          "sd_load", "sd_check", "sd_stop", "sd_remove", "sd_write",
          "ds_find", "ds_stop", "ds_unstage", "ds_wipe", "ds_archive",
          "ds_tombstone", "fi_link",
          "ac_load", "ac_check", "ac_mkdir", "ac_copy", "ac_manifest",
          "ac_describe", "ac_unstage", "ac_record"}

Bundles == (Nat \ {0}) \X Slugs

(* The locals of a command: its step, its --slug, the registry entry it    *)
(* read, whether the container it holds a handle on is still there, and    *)
(* the manifest entries it read.                                           *)
Commands == [pc : Steps, arg : Slugs \cup {NoSlug}, seen : Entries,
             met : {"none", "here", "gone"}, listed : SUBSET Bundles]

Idle == [pc |-> "idle", arg |-> NoSlug, seen |-> NoReg, met |-> "none",
         listed |-> {}]

SlugsOf(entry) == {entry.cycles[i] : i \in DOMAIN entry.cycles}
Bundle(c)      == <<Len(cmd[c].seen.cycles) + 1, cmd[c].arg>>

At(c, step)    == cmd[c].pc = step
Goto(c, step)  == cmd' = [cmd EXCEPT ![c].pc = step]
Die(c)         == cmd' = [cmd EXCEPT ![c] = Idle]

Init ==
    /\ reg = NoReg
    /\ ctr = "none" /\ phase = "working" /\ refused = FALSE /\ left = {}
    /\ workdir = FALSE /\ outputs = {}
    /\ staging = NoSlug
    /\ plan = FALSE
    /\ results = {} /\ whole = {} /\ manifest = {}
    /\ cmd = [c \in Clis |-> Idle]

-----------------------------------------------------------------------------
(* Steps several commands share                                            *)

Find(c, arg, step) ==
    /\ At(c, "idle")
    /\ ctr # "none"
    /\ cmd' = [cmd EXCEPT ![c] = [Idle EXCEPT !.pc = step, !.arg = arg,
                                              !.met = "here"]]
    /\ UNCHANGED <<disk, docker>>

LoadLive(c, from, to) ==
    /\ At(c, from)
    /\ IF reg.st = "live"
       THEN cmd' = [cmd EXCEPT ![c].seen = reg, ![c].pc = to]
       ELSE Die(c)
    /\ UNCHANGED <<disk, docker>>

(* docker stop: an idle entrypoint traps SIGTERM and leaves DONE; one that *)
(* is inside claude may be killed first.  No effect unless it is running.  *)
StopContainer ==
    IF ctr = "running"
    THEN /\ ctr' = "exited"
         /\ \/ phase' = "done"
            \/ phase = "working" /\ phase' = "failed"
    ELSE UNCHANGED <<ctr, phase>>

(* docker rm: every open handle on the container now names nothing.        *)
RemoveContainer(c, next) ==
    /\ ctr' = "none" /\ phase' = "working" /\ UNCHANGED refused
    /\ cmd' = [d \in Clis |->
                 [cmd[d] EXCEPT !.pc  = IF d = c THEN next ELSE @,
                                !.met = IF @ = "here" THEN "gone" ELSE @]]

(* rmtree(ignore_errors): what cannot be removed stays, unreported.        *)
Wipe ==
    \/ /\ workdir' = FALSE /\ outputs' = {}
       /\ left' = left \ {"work"}
    \/ /\ workdir /\ UNCHANGED workdir
       /\ outputs' \in SUBSET outputs
       /\ left' = left \cup {"work"}

(* An operation fails: the container is gone, or docker will not do it.    *)
DockerFails(c) ==
    /\ cmd[c].met = "gone" \/ DockerCanFail
    /\ refused' = (refused \/ cmd[c].met = "here")

-----------------------------------------------------------------------------
(* spawn                                                                   *)

SpawnLoad(c) ==
    /\ At(c, "idle")
    /\ reg.st \in {"none", "down"}
    /\ cmd' = [cmd EXCEPT ![c] = [Idle EXCEPT !.pc = "sp_probe", !.seen = reg]]
    /\ UNCHANGED <<disk, docker>>

(* A container of that name is stale; a missing image ends it here too.    *)
SpawnProbe(c) ==
    /\ At(c, "sp_probe")
    /\ IF ctr = "none" THEN Goto(c, "sp_stage") ELSE Die(c)
    /\ UNCHANGED <<disk, docker>>

(* The sentinels and pending wakes of an earlier life are cleared.         *)
SpawnStage(c) ==
    /\ At(c, "sp_stage")
    /\ workdir' = TRUE
    /\ phase' = IF ctr = "exited" THEN "failed" ELSE "working"
    /\ Goto(c, "sp_plan")
    /\ UNCHANGED <<reg, ctr, refused, left, outputs, staging, plan, filed>>

(* ... and then an --mcps name the project was not granted is refused.     *)
SpawnPlan(c) ==
    /\ At(c, "sp_plan")
    /\ plan' = TRUE
    /\ Goto(c, "sp_register") \/ Die(c)
    /\ UNCHANGED <<reg, docker, work, staging, filed>>

(* ... and then a malformed --env is refused, the entry already live.      *)
SpawnRegister(c) ==
    /\ At(c, "sp_register")
    /\ reg' = [cmd[c].seen EXCEPT !.st = "live"]
    /\ Goto(c, "sp_create") \/ Die(c)
    /\ UNCHANGED <<docker, work, staging, plan, filed>>

(* containers.run, first half: the name must be free and the mount exist.  *)
SpawnCreate(c) ==
    /\ At(c, "sp_create")
    /\ \/ /\ ctr = "none" /\ workdir
          /\ ctr' = "created" /\ phase' = "working" /\ UNCHANGED refused
          /\ cmd' = [cmd EXCEPT ![c].pc = "sp_start", ![c].met = "here"]
       \/ Goto(c, "sp_rollback") /\ UNCHANGED docker
    /\ UNCHANGED disk

(* Second half: a failure to start leaves the created container behind.    *)
SpawnStart(c) ==
    /\ At(c, "sp_start")
    /\ \/ /\ cmd[c].met = "here"
          /\ ctr' = "running"
          /\ Die(c)
          /\ UNCHANGED refused
       \/ /\ DockerFails(c)
          /\ Goto(c, "sp_rollback")
          /\ UNCHANGED ctr
    /\ UNCHANGED <<disk, phase>>

(* A respawn restores the entry it read; a first spawn wipes the work      *)
(* directory and then drops the entry.                                     *)
SpawnRollback(c) ==
    /\ At(c, "sp_rollback")
    /\ \/ /\ cmd[c].seen # NoReg
          /\ reg' = cmd[c].seen
          /\ Die(c)
          /\ UNCHANGED work
       \/ /\ cmd[c].seen = NoReg
          /\ Wipe
          /\ Goto(c, "sp_unlink")
          /\ UNCHANGED reg
    /\ UNCHANGED <<docker, staging, plan, filed>>

SpawnUnlink(c) ==
    /\ At(c, "sp_unlink")
    /\ reg' = NoReg
    /\ Die(c)
    /\ UNCHANGED <<docker, work, staging, plan, filed>>

Spawn(c) ==
    \/ SpawnLoad(c) \/ SpawnProbe(c) \/ SpawnStage(c) \/ SpawnPlan(c)
    \/ SpawnRegister(c) \/ SpawnCreate(c) \/ SpawnStart(c)
    \/ SpawnRollback(c) \/ SpawnUnlink(c)

-----------------------------------------------------------------------------
(* message and shutdown                                                    *)

(* A new inbox message: the worker reads as working until it is processed. *)
Message(c) ==
    /\ At(c, "idle")
    /\ ctr # "none"
    /\ workdir' = TRUE
    /\ phase' = IF ctr = "running" THEN "working" ELSE phase
    /\ UNCHANGED <<reg, ctr, refused, left, outputs, staging, plan, filed, cmd>>

ShutdownFind(c) == Find(c, NoSlug, "sd_load")
ShutdownLoad(c) == LoadLive(c, "sd_load", "sd_check")

(* c.reload(): a vanished container ends the command, a parked one too.    *)
ShutdownCheck(c) ==
    /\ At(c, "sd_check")
    /\ IF cmd[c].met = "here" /\ ~(ctr = "running" /\ phase = "parked")
       THEN Goto(c, "sd_stop")
       ELSE Die(c)
    /\ UNCHANGED <<disk, docker>>

(* Leaves the stopped container behind.                                    *)
BadShutdownStop(c) ==
    /\ At(c, "sd_stop")
    /\ \/ /\ cmd[c].met = "here"
          /\ StopContainer /\ UNCHANGED refused
          /\ Goto(c, "sd_write")
       \/ DockerFails(c) /\ Die(c) /\ UNCHANGED <<ctr, phase>>
    /\ UNCHANGED disk

ShutdownStop(c) ==
    /\ At(c, "sd_stop")
    /\ \/ /\ cmd[c].met = "here"
          /\ StopContainer /\ UNCHANGED refused
          /\ Goto(c, "sd_remove")
       \/ DockerFails(c) /\ Die(c) /\ UNCHANGED <<ctr, phase>>
    /\ UNCHANGED disk

ShutdownRemove(c) ==
    /\ At(c, "sd_remove")
    /\ \/ cmd[c].met = "here" /\ RemoveContainer(c, "sd_write")
       \/ DockerFails(c) /\ Die(c) /\ UNCHANGED <<ctr, phase>>
    /\ UNCHANGED disk

ShutdownWrite(c) ==
    /\ At(c, "sd_write")
    /\ reg' = [cmd[c].seen EXCEPT !.st = "down"]
    /\ Die(c)
    /\ UNCHANGED <<docker, work, staging, plan, filed>>

Shutdown(c) ==
    \/ ShutdownFind(c) \/ ShutdownLoad(c) \/ ShutdownCheck(c)
    \/ ShutdownStop(c) \/ ShutdownRemove(c) \/ ShutdownWrite(c)

-----------------------------------------------------------------------------
(* destroy --yes                                                           *)

DestroyLoad(c) ==
    /\ At(c, "idle")
    /\ cmd' = [cmd EXCEPT ![c] = [Idle EXCEPT !.pc = "ds_find", !.seen = reg]]
    /\ UNCHANGED <<disk, docker>>

DestroyFind(c) ==
    /\ At(c, "ds_find")
    /\ \/ /\ ctr # "none"
          /\ cmd' = [cmd EXCEPT ![c].pc = "ds_stop", ![c].met = "here"]
       \/ ctr = "none" /\ cmd[c].seen.st # "none" /\ Goto(c, "ds_unstage")
       \/ ctr = "none" /\ cmd[c].seen.st = "none" /\ Die(c)
    /\ UNCHANGED <<disk, docker>>

(* stop, then rm -f: errors of either are swallowed.                       *)
DestroyStop(c) ==
    /\ At(c, "ds_stop")
    /\ \/ cmd[c].met = "here" /\ RemoveContainer(c, "ds_unstage")
       \/ /\ DockerFails(c)
          /\ Goto(c, "ds_unstage")
          /\ \/ UNCHANGED <<ctr, phase>>
             \/ cmd[c].met = "here" /\ StopContainer
    /\ UNCHANGED disk

(* The errors of the next two are swallowed as well.                       *)
DestroyUnstage(c) ==
    /\ At(c, "ds_unstage")
    /\ \/ staging' = NoSlug /\ left' = left \ {"link"}
       \/ /\ staging # NoSlug /\ UNCHANGED staging
          /\ left' = left \cup {"link"}
    /\ Goto(c, "ds_wipe")
    /\ UNCHANGED <<reg, docker, workdir, outputs, plan, filed>>

DestroyWipe(c) ==
    /\ At(c, "ds_wipe")
    /\ Wipe
    /\ Goto(c, "ds_archive")
    /\ UNCHANGED <<reg, docker, staging, plan, filed>>

DestroyArchive(c) ==
    /\ At(c, "ds_archive")
    /\ plan' = FALSE
    /\ Goto(c, "ds_tombstone")
    /\ UNCHANGED <<reg, docker, work, staging, filed>>

DestroyTombstone(c) ==
    /\ At(c, "ds_tombstone")
    /\ reg' = [cmd[c].seen EXCEPT !.st = IF cmd[c].seen.cycles = << >>
                                         THEN "destroyed_pre_accept"
                                         ELSE "destroyed_post_accept"]
    /\ Die(c)
    /\ UNCHANGED <<docker, work, staging, plan, filed>>

Destroy(c) ==
    \/ DestroyLoad(c) \/ DestroyFind(c) \/ DestroyStop(c)
    \/ DestroyUnstage(c) \/ DestroyWipe(c) \/ DestroyArchive(c)
    \/ DestroyTombstone(c)

-----------------------------------------------------------------------------
(* finalize, unstage                                                       *)

FinalizeCheck(c) ==
    /\ staging = NoSlug
    /\ \E s \in outputs : Find(c, s, "fi_link")

(* os.symlink refuses a path another finalize has taken in the meantime.   *)
FinalizeLink(c) ==
    /\ At(c, "fi_link")
    /\ staging' = IF staging = NoSlug THEN cmd[c].arg ELSE staging
    /\ Die(c)
    /\ UNCHANGED <<reg, docker, work, plan, filed>>

Unstage(c) ==
    /\ At(c, "idle")
    /\ staging # NoSlug
    /\ staging' = NoSlug
    /\ UNCHANGED <<reg, docker, work, plan, filed, cmd>>

-----------------------------------------------------------------------------
(* accept                                                                  *)

AcceptFind(c) == \E s \in Slugs : Find(c, s, "ac_load")
AcceptLoad(c) == LoadLive(c, "ac_load", "ac_check")

(* Takes a slug that has been accepted before.                             *)
BadAcceptCheck(c) ==
    /\ At(c, "ac_check")
    /\ \/ /\ staging = cmd[c].arg /\ plan
          /\ Len(cmd[c].seen.cycles) < MaxCycles
          /\ Goto(c, "ac_mkdir")
       \/ Die(c)
    /\ UNCHANGED <<disk, docker>>

(* Staging points at the slug, the slug is new, the worker is idle (unless *)
(* waived) and there is a plan to snapshot.  The shape of the deliverable  *)
(* may be refused as well.                                                 *)
AcceptCheck(c) ==
    /\ At(c, "ac_check")
    /\ \/ /\ staging = cmd[c].arg
          /\ cmd[c].arg \notin SlugsOf(cmd[c].seen)
          /\ \E waived \in BOOLEAN :
                waived \/ (phase \in Accepted /\ cmd[c].arg \in outputs)
          /\ plan
          /\ Len(cmd[c].seen.cycles) < MaxCycles
          /\ Goto(c, "ac_mkdir")
       \/ Die(c)
    /\ UNCHANGED <<disk, docker>>

(* Takes a bundle that is there for an accepted one.                       *)
BadAcceptMkdir(c) ==
    /\ At(c, "ac_mkdir")
    /\ IF Bundle(c) \in results THEN Goto(c, "ac_manifest")
       ELSE IF cmd[c].arg \in outputs THEN Goto(c, "ac_copy") ELSE Die(c)
    /\ results' = IF cmd[c].arg \in outputs
                  THEN results \cup {Bundle(c)} ELSE results
    /\ UNCHANGED <<reg, docker, work, staging, plan, whole, manifest>>

(* The path must be new; copytree creates it and dies if it lost a race.   *)
AcceptMkdir(c) ==
    /\ At(c, "ac_mkdir")
    /\ IF Bundle(c) \notin results /\ cmd[c].arg \in outputs
       THEN results' = results \cup {Bundle(c)} /\ Goto(c, "ac_copy")
       ELSE Die(c) /\ UNCHANGED results
    /\ UNCHANGED <<reg, docker, work, staging, plan, whole, manifest>>

(* copytree and the copy of the plan both have to find their source.       *)
AcceptCopy(c) ==
    /\ At(c, "ac_copy")
    /\ IF cmd[c].arg \in outputs /\ plan
       THEN whole' = whole \cup {Bundle(c)} /\ Goto(c, "ac_manifest")
       ELSE Die(c) /\ UNCHANGED whole
    /\ UNCHANGED <<reg, docker, work, staging, plan, results, manifest>>

(* The manifest is read, then extended and written back.                   *)
AcceptManifest(c) ==
    /\ At(c, "ac_manifest")
    /\ cmd' = [cmd EXCEPT ![c].listed = manifest, ![c].pc = "ac_describe"]
    /\ UNCHANGED <<disk, docker>>

AcceptDescribe(c) ==
    /\ At(c, "ac_describe")
    /\ manifest' = cmd[c].listed \cup {Bundle(c)}
    /\ cmd' = [cmd EXCEPT ![c].listed = {}, ![c].pc = "ac_unstage"]
    /\ UNCHANGED <<reg, docker, work, staging, plan, results, whole>>

(* sl.unlink() raises when the link is gone: the cycle is not recorded.    *)
AcceptUnstage(c) ==
    /\ At(c, "ac_unstage")
    /\ IF staging = NoSlug THEN Die(c) ELSE Goto(c, "ac_record")
    /\ staging' = NoSlug
    /\ UNCHANGED <<reg, docker, work, plan, filed>>

AcceptRecord(c) ==
    /\ At(c, "ac_record")
    /\ reg' = [cmd[c].seen EXCEPT !.cycles = Append(@, cmd[c].arg)]
    /\ Die(c)
    /\ UNCHANGED <<docker, work, staging, plan, filed>>

Accept(c) ==
    \/ AcceptFind(c) \/ AcceptLoad(c) \/ AcceptCheck(c) \/ AcceptMkdir(c)
    \/ AcceptCopy(c) \/ AcceptManifest(c) \/ AcceptDescribe(c)
    \/ AcceptUnstage(c) \/ AcceptRecord(c)

-----------------------------------------------------------------------------
(* The other actors                                                        *)

(* The command is killed; what it had done stays done.                     *)
CliDies(c) ==
    /\ CliCanDie
    /\ ~At(c, "idle")
    /\ Die(c)
    /\ UNCHANGED <<disk, docker>>

(* The agent, while it works, writes or drops a cycle's directory.         *)
AgentWrites ==
    /\ ctr = "running" /\ phase = "working" /\ workdir
    /\ \E s \in Slugs :
          outputs' = IF s \in outputs THEN outputs \ {s} ELSE outputs \cup {s}
    /\ UNCHANGED <<reg, docker, left, workdir, staging, plan, filed, cmd>>

(* A turn ends with or without a wake-up scheduled; a wake-up fires.       *)
AgentTurns ==
    /\ ctr = "running"
    /\ \/ phase = "working" /\ phase' \in {"waiting", "parked"}
       \/ phase = "parked"  /\ phase' = "working"
    /\ UNCHANGED <<disk, ctr, refused, cmd>>

(* The container dies by itself.  Killed while idle it leaves WAITING, and *)
(* an exited container's pending wakes are not looked at.                  *)
ContainerDies ==
    /\ ctr = "running"
    /\ ctr' = "exited"
    /\ phase' = IF phase = "working" THEN "failed" ELSE "waiting"
    /\ UNCHANGED <<disk, refused, cmd>>

Next ==
    \/ \E c \in Clis :
          \/ Spawn(c) \/ Message(c) \/ Shutdown(c) \/ Destroy(c)
          \/ FinalizeCheck(c) \/ FinalizeLink(c) \/ Unstage(c)
          \/ Accept(c) \/ CliDies(c)
    \/ AgentWrites \/ AgentTurns \/ ContainerDies

Spec == Init /\ [][Next]_vars

-----------------------------------------------------------------------------
(* Properties                                                              *)

(* Every variable holds a value of its type.                               *)
TypeOK ==
    /\ reg \in Entries
    /\ ctr \in CtrStates /\ phase \in Phases /\ refused \in BOOLEAN
    /\ left \subseteq {"work", "link"}
    /\ workdir \in BOOLEAN /\ outputs \subseteq Slugs
    /\ staging \in Slugs \cup {NoSlug}
    /\ plan \in BOOLEAN
    /\ results \subseteq Bundles /\ whole \subseteq Bundles
    /\ manifest \subseteq Bundles
    /\ cmd \in [Clis -> Commands]

(* A cycle the registry calls accepted is on disk, whole: its n-th cycle   *)
(* has results/<name>/<n>_<slug>/ with the deliverable and the plan        *)
(* snapshot in it, whichever commands run at once and wherever they die.   *)
AcceptedBundlesWhole ==
    \A i \in DOMAIN reg.cycles : <<i, reg.cycles[i]>> \in whole

(* What the registry says holds of the machine.  An accepted cycle is in   *)
(* the inventory ("nothing is promoted to results/ undescribed"), as long  *)
(* as accepts do not overlap.  With no command under way, no container     *)
(* stands in the way of spawning a name that is free or down ("down -> no  *)
(* container"; a failed spawn rolls back "so spawn is re-invokable"), and  *)
(* a tombstone is written only once container, work directory, staging     *)
(* link and plan are gone, as long as docker does what it is asked; of the *)
(* directory and the link, what destroy tried to remove and could not is   *)
(* still there, as nothing looks at those errors.                          *)
RegistryTells ==
    /\ \A i \in DOMAIN reg.cycles : <<i, reg.cycles[i]>> \in manifest
    /\ (\A c \in Clis : At(c, "idle")) /\ reg.st \in {"none", "down"}
          => refused \/ ctr = "none"
    /\ ~refused /\ reg.st \in Destroyed =>
          /\ ctr = "none" /\ ~plan
          /\ workdir => "work" \in left
          /\ staging # NoSlug => "link" \in left

(* One command at a time implements the ledger: every registry write is a  *)
(* legal step of it, so no accepted cycle is lost, reordered or filed      *)
(* twice and no tombstone is lifted, even when commands die half-way.      *)
Ledger == INSTANCE WorkerLedger WITH ledger <- reg
ImplementsLedger == Ledger!LedgerSpec
=============================================================================
