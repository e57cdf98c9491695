# research-sandbox in TLA+

TLA+ modules for the parts of research-sandbox that keep state across
processes, crashes and timeouts; TLC configurations that check them on small
instances; and TLAPS proofs of what holds for every instance.  File names
below are relative to the repository (`cli/broker.py` is `src/cli/broker.py`
here).  `PROJECT.json` gives, per definition, the lines it stands for.

- [The system](#the-system)
- [Modules](#modules)
- [How state and actions correspond to the code](#how-state-and-actions-correspond-to-the-code)
- [Runs, bounds, and why they are enough](#runs-bounds-and-why-they-are-enough)
- [Fairness](#fairness)
- [Proofs](#proofs)
- [Steps that nobody looks at](#steps-that-nobody-looks-at)
- [Limits of the code that the models show](#limits-of-the-code-that-the-models-show)
- [What is not modelled](#what-is-not-modelled)
- [Plan](#plan)

## The system

A project is a supervisor container on the host's docker, with worker, box and
role-MCP containers in a docker of its own.  A PI talks to the supervisor's
agent; the supervisor spawns workers, sends them messages, waits for them and
accepts what they deliver.  A broker daemon on the host does what a container
must not do by itself (create and start projects, build images, provision
boxes), and a web UI speaks to the broker through a socket.  Role MCPs are
small daemons to which workers delegate jobs.  A shared Gitea holds mirrors
and forks for the agents that write code, and people bring that code home with
small tools of their own.

| component | state it keeps | operations | hard behaviour |
|---|---|---|---|
| worker registry and deliverables (`cli/rs_worker.py`) | `.workers/<name>.json`, `plan/<name>.md`, `staging/<name>`, `results/<name>/`, its manifest, the container | spawn, message, shutdown, destroy, finalize, unstage, accept | a command is a dozen writes without a lock; it may die between any two, or overlap another |
| worker mailbox and runtime state (`agent/entrypoint.worker.sh`, `rs_worker.py`, `cli/rs_audit_stop.py`) | `inbox/`, `wake/`, sentinels WAITING, DONE, FAILED, docker status | the entrypoint's loop, `message`, the state resolver of list/wait/accept/the Stop hook | writer, loop and reader meet in directories only; the container is stopped, killed, restarted |
| broker lifecycle lane (`cli/broker.py`) | `lifecycle-locks/*.json`, `lifecycle.lock` (flock), `lifecycle.holder`, view logs | start, stop, update as detached children; create, destroy and container verbs inline | children killed anywhere, daemon dying between spawn and lock, queueing on one flock |
| broker build, review and dev-box lanes (`cli/broker.py`) | `build.lock`, `review-locks/`, `dev-locks/`, view logs | builds one at a time, reviews and provisions in parallel | liveness by pid, zombies, an unlink that does not look whose lock it is |
| broker daemon, relay and page (`cli/broker.py`, `webui/server.py`, `webui/static/app.js`) | pidfile, socket, OP_RUNS, dialogs | start, stop, serve, relay, tail an op | stop gives up while the old daemon still works; a 503 for a request that runs later |
| project lifecycle (`cli/rscore.py`, `research.py`) | container, network, marker, override file, port, stash of logins | create, destroy, start, stop, update | half-done commands, recreates that must carry what is inside |
| agent builds and trees (`cli/rscore.py`) | cached distributions, sidecars, pins; the project's staged copies | build, stage at create and recreate, live update | a build swaps the cache under a stager |
| MCP registry and wiring (`cli/mcp_registry.py`, `cli/role_mcp.py`, `cli/rscore.py`, `container/supervisor`) | `mcps.json`, router rules, allowlist, proxy routes, role containers | allow, deny, sync, enable, disable, start, stop | one permission in five places, services that move |
| sandbox boxes (`cli/rs_sandbox.py`, `cli/rscore.py`) | `extensions.json`, box containers, forwarders, exported ports | box add, remove, start, stop, expose, attach | host and container each keep a half; a box's wiring is fixed when it runs |
| dev boxes and code forge (`cli/gitea.py`, `cli/rscore.py`) | mirrors, users, forks, tokens, `attachments.json` | repo add and remove, provision, detach, purge | a remote that times out at any call |
| Gitea backup (`cli/rscore.py`, `cli/gitea.py`) | the resident backup, safety copies, the volume | export, import, discard | replacing a live store, killed half-way |
| reviews (`cli/rscore.py`, `cli/gitea.py`) | review containers, the verdict ledger | review a PR or commit | names by pid that come again, a PR that moves |
| rs-fetch (`cli/rs_fetch.py`) | the human's clone, its index and prefilled message | staged and `--auto-commit` fetch | the human commits, edits and resets in between |
| rs-land, repo-watch (`container/dev`) | pull request, archive tag, retry counts | land, watch | lost answers, two landings, pushes and comments in between |
| detected web apps (`webui/server.py`, `webui/static/app.js`, `cli/rscore.py`) | snapshots, checks, origin ports, tabs and panes | detect, relay, fold | awaits between reading and writing, stale replies |
| role-MCP jobs (`container/role-mcp/daemon.py`) | `jobs/*.json`, the slot counter, agents, per-call notes | send_job (sync, async), get_result, reconciliation | a timeout cancels a coroutine at any await |
| role-MCP memory (same file) | per-call notes, `.summarize-watermark`, `global.md` | summarize_memories | an await between reading and recording; two writes that are not one |

The components meet as follows.  The web UI sends one JSON request per
connection to the broker; the broker serves requests one after the other and
leaves the long ones to children it never waits on, which report through a
view log and a lock file.  Those children, like the command line, change
projects with the verbs of `rscore.py`, which copy the cached software in,
re-run the boxes and render the routes.  The supervisor's commands and a
worker's entrypoint share a bind mount.  Workers call a role MCP over HTTP; its
answer to a sync call is bounded in time, to an async call it is polled.  The
tools around Gitea meet only there, and in the human's clone.

What makes them correct, in a sentence each:

- registry: no command, killed or overlapping, makes the registry promise a
  deliverable that is not on disk, or a tombstone for something still there;
- mailbox: no message is lost, skipped or served out of order, and a worker
  that still has work never reads as idle;
- lifecycle lane: one project action at a time on the host, at most one
  pending per project, nobody works in a container that is being replaced, a
  killed child blocks nobody, a reader that sees an op gone finds its outcome;
- build lane, daemon and page: one build and one exclusive verb at a time, and
  what a dialog finally shows is what happened;
- project lifecycle: a port has one owner, logins and keys survive every
  recreate, and what a command reported done is done as a whole;
- agent software: a project that was told "staged" has a whole copy, and a
  build that fails costs nobody anything;
- boxes: a tab leads to the program it names, and a running box is the one its
  entry describes;
- wiring: a service is reachable exactly where it is written to be, tokens and
  forks in use are on record, and what was parked stays parked;
- detected apps: an address always leads to the app it was given to, and the
  page comes to rest on what the server knows;
- tools: a backup restores, a verdict is shown only beside what it is about,
  a staged commit has all of its content and its message, a landed head stays
  archived, a person is heard;
- jobs: the slot counter is the number of running jobs, a job that ended left
  no agent and one truthful note, and every job ends;
- memory: no note is skipped, none goes in twice.

## Modules

| module | what it is |
|---|---|
| `WorkerLedger` | abstract: one name's entry as a supervisor may rely on it: spawned, down, cycles appended once per slug, tombstoned for ever |
| `WorkerRegistry` | the rs-worker commands, a step per file or docker operation, any number of processes; `Ledger` is its refinement mapping |
| `WorkerMailbox` | inbox, wake-ups and sentinels of one container; loop, senders, resolver, container ends and restarts |
| `ActionQueue` | abstract: actions that are queued, run one at a time, each at most once, or run inline when nothing else does |
| `LifecycleLane` | the broker's dispatcher, its lifecycle children, per-op locks, the flock, the holder; `Actions` is its refinement mapping |
| `BuildLane` | the build lane and the parallel lanes; liveness by pid, zombies, reaping |
| `BrokerFront` | extends `BuildLane` with the daemon's start and stop, the socket, inline ops, the relay and the page |
| `ProjectLifecycle` | create, destroy, start, stop, update of projects, a step per docker call or file |
| `AgentStore` | builds of the cached software and the commands that stage it into a project |
| `BoxLedger` | a project's boxes, in its container and on the host |
| `DetectedApps` | from listening ports to panes: detection, checks, addresses, page |
| `RoleWiring` | MCP services, allowlist, router, proxy routes, role containers |
| `DevForge` | Gitea's users, forks, tokens and mirrors, and the host's record of them |
| `BoardBackup` | export, import and discard of Gitea's backup |
| `ReviewLane` | review children side by side, and the verdict ledger |
| `RepoFetch` | rs-fetch against a clone its owner works in |
| `LandPr`, `RepoWatch` | rs-land and repo-watch against Gitea and people |
| `RoleJobs`, `RoleMemory` | a role-MCP daemon's jobs as coroutines; its notes and summaries |
| `RoleDaemon`, `ProjectWorkers`, `ProjectInside`, `ProjectWiring`, `DevTools` | compositions of the modules above that share a container or a daemon |
| `LifecycleLaneProofs`, `BrokerFrontProofs`, `WorkerMailboxProofs`, `ProjectWorkersProofs`, `RoleDaemonProofs`, `ProjectInsideProofs`, `ProjectWiringProofs`, `DevToolsProofs` | the proofs |
| `MC...` | constants and symmetry sets for TLC, where a `.cfg` cannot state them |

The parts of a composition share no variable: what one does to the other is an
input of the other (a recreate, a push, a Gitea that is away).  A behaviour of
the composition therefore plays one part and leaves the rest as it starts;
interleaving them would add states and no behaviour that a property of one
part can see.  `BrokerFront` is different: it runs `BuildLane`'s own actions
and its daemon is `BuildLane`'s daemon.

Most modules have a variable such as `aim`: the features a behaviour may
combine.  It is chosen in `Init` and never changes, and keeps a run from
multiplying features that do not meet.  It is a bound, and marked `BOUND` as
every other one is.

A variable or field called `ghost`, `torn`, `cut`, `stray`, `moved`, `strayed`,
`left`, `missed`, `late` or `ear` is history, kept for the properties: which
promise was made, that a command was cut off and has not been repeated since,
or what a step that nobody looks at failed to do.  An exemption in a property
is read off these, per thing and until it is mended, not assumed away; the
table [Steps that nobody looks at](#steps-that-nobody-looks-at) has them all.

An operator `Bad...` stands before the definition it is a faulty variant of.
No specification uses it; put in its place (the pairs are listed in
`PROJECT.json`) it makes one property fail, which shows that the property can.

## How state and actions correspond to the code

**WorkerRegistry** is about one worker name: every path a command touches is
keyed by the name, and no command reads another's.  `reg` is the registry file
(`registry_load`, `registry_write_atomic`), `ctr` and `phase` what docker and
`_resolve_state` say, `workdir`, `outputs`, `staging`, `plan`, `results` and
`manifest` the paths.  `whole` are the bundles whose copy and plan snapshot
finished.  `cmd[c]` holds a process's program counter and locals: `seen` is
the registry dict it read at its start and writes back at its end, `met`
whether the docker handle it holds still names a container, `listed` the
manifest it read.  Steps are named after the command: `SpawnLoad` ...
`SpawnUnlink`, `ShutdownFind` ... `ShutdownWrite`, `DestroyLoad` ...
`DestroyTombstone`, `FinalizeCheck`, `FinalizeLink`, `Unstage`, `AcceptFind`
... `AcceptRecord`.  A file replaced by rename is one step; `copytree` is two
(the directory appears, then it is whole).  `Wipe` is an `rmtree` that ignores
errors: any part may stay, which `left` notes.  `AgentWrites`, `AgentTurns` and
`ContainerDies` are the agent and the container going on meanwhile.

**WorkerMailbox** has a step per shell command of the entrypoint: `Boot`
clears the sentinels, `Poll` reads the clock, `MoveWake` renames a due wake-up
into the inbox, `Pick` takes the first name, `Clear` drops WAITING, `Prompt`
runs claude on the text, `RemoveMsg` removes the file, `Mark` writes WAITING.
bash defers a trap while claude runs in the foreground, so `Trap` waits for
`ClaudeEnds`.  `PostProbe`, `PostOpen`, `PostWrite` are `cmd_message`
(`write_text` creates, then fills); `ReadStart` ... `ReadExitWaiting` are
`_resolve_state`, a step per thing it looks at.  File names are pairs, which
sort as the names do in the C locale.

**LifecycleLane**: `dmn` is the serial dispatcher.  `Submit` is the branch of
dispatch for start, stop and update (refusal, pruning), `Spawn` the Popen,
`WriteLock` the lock and the `started: true` answer, `WriteLockFails` the kill
of the child whose lock cannot be written.  `InlineBegin` stands for the verbs
refused on the project's own op only, `AloneBegin` for create and destroy,
which are refused on any op and take the flock.  `child[o]` is where
`run_lifecycle` is, from `OpenLog` to `Exit`; `Act` is the verb with its
terminal record, and `HoldFails` the holder file that cannot be written, after
which the verb is not run.  `Killed` may strike anywhere: files stay, the kernel drops
the flock.  `DaemonDies` may strike anywhere too.

**BuildLane** identifies a pid with its op.  `build` is `build.lock`, `own`
the per-op locks.  `Running` is a live process, `PidAlive` what `kill(pid, 0)`
says, zombies included; `Reap` is what `subprocess` does when the next process
is started, so `OtherVerb` is any verb that starts one.

**BrokerFront**: `brk` is the daemon that `broker.pid` names, with the inline
op it serves, `old` the inline op of a daemon `stop` gave up on, `sock`
whether the socket still leads to the current daemon.  `req[o]` is an op's
call, from the page's request to its answer; any wait may pass its client's
bound (`GiveUp`).  `run` is `OP_RUNS` of the web UI, `rec` the terminal
record in an inline op's log, `page` the dialog.  `Progress` collects the
steps of the daemon, the children, the relay and the page's loops that fairness
speaks of; `Stop`, `StopGivesUp`, `Crash`, `WebRestarts`, `LaneKilled`,
`LockOpFails`, `Login`, `Logout` are what may strike.

**ProjectLifecycle** names a step after what it does: `CreateBegin`,
`AllocatePort`, `CreateMarker`, `FillMarker`, `CreateNetwork`,
`CreateContainer`, `StartContainer`, `InjectRoute`, `Deploy`, `CreateAuth`,
`CreateReady`; `DestroyContainer`, `DestroyTree`, `DestroyNetwork`; `Stop`,
`StartBegin`, `StartPlain`; `UpdateBegin`, `UpdateModels`, `UpdateAgents`,
`LiveEditor`, `WriteOverride`, `LiveStage`; and the recreate, which start and
update share: `StashLogin`, `StashKey`, `StopOld`, `RemoveOld`, `MakeNew`,
`ClearOverride`.  `con` is the container with what is inside it, `ws` what the
workspace holds: the marker (absent, begun, whole), the override file, the
port.  `job` is the command with its step and locals, and dies at any
(`CommandDies`).  `Boot` is the container's own start-up restoring the stash,
which no command waits for.  The removals of destroy and the copies into the
stash may fail (`Leaves`, `Stash`).  A project on the docker substrate
(`con.dind` is FALSE) is started plainly and updated by `PlainAllows` and
`RecreatedPlain`.  `ghost` remembers what was given, chosen and left behind,
for the properties.

**AgentStore**: of a thing in the cache, `cache` has the number of the build
its launcher (`local`) and its files come from, and what its sidecar says.  A
build is `Pull`, `Refresh`, `List`, `Capture`, `RemoveOld`, then
`PlaceAgent`, `WriteFiles`, `OpenSidecar`, `FillSidecar` for an agent or
`PlaceTree` for a tree; `BuildFails` and `BuildKilled` end it anywhere.
`Create`, `StageRecreate`, `Update` and `LiveToggle` begin a staging; `Wipe`,
`Read`, `ArriveAgents`, `ArriveTree`, `Deploy`, `RefreshBoxes` carry it out.

**BoxLedger**: `ledger` is `extensions.json`, `cont` the containers with what
their `docker run` fixed (publishes, mounts, Gitea's address), `tabs` the box
rows of `exported-ports.json`, `world` what moves by itself.  `cmd` has one
command of the host and one typed inside, either dying between two steps.
`HostStep` are the verbs of `rscore.py`, `Request` and `RunStep` the
subcommands of `rs_sandbox.py` with the `docker run` they share, which may
fail without a container (`RunFails`), with one (`RunLeavesHusk`) or over one
that was not removed (`DropFails`); `Recreate` and `Attach` are the loops that
run every box again.

**DetectedApps**: `lab` is the project's container (sockets, the registry of
exported ports), `seen` the broker's `_PORT_DETECT_STATE`, `web` the web UI
(switch, snapshot with its sequence number, checks, origin ports), `task` the
detection that several requests share, `view` the page.  A handler runs whole
between two awaits: `Detection` and `PageStep` have a step per await, and
`Outside` is everything that moves in between.

**RoleWiring**: one permission is in `allow` (`mcp-allow.json`), `holes` (the
router's rules), `route` (what the proxy answers for), `roles`
(`role-mcps.json`) and each `box[r].env` (what a role container was told when
it booted); `reg` and `svc` are the services as the host knows them and as
they are.  `act` is the command on the project: allow and deny service by
service (`AllowPick`, `OpenHole`, `SaveAllowed`, `CloseHole`, `SaveDenied`),
`Reload`, then role by role (`DeriveRole`, `EachRole`, `RemoveOld`, `RunNew`).
The registry changes under its own lock in one step (`AddMcp`, `EnableMcp`,
`SetRoles`, `RemoveMcp`), `StartMcp` and `StopMcp` move a shared service.  With the feature "fails",
closing a hole, rendering the routes and removing or stopping a container may
come to nothing (`CloseHole`, `Reload`, `RenderNew`, `RemoveBox`, `Park`); with
"keeps" the inner docker is on a volume and outlives its supervisor
(`Resumed`).

**DevForge**: `forge` is Gitea (users, their `rs-dev` tokens, forks, mirrors,
notes repos), `host` the host's files (fetch stamps, token files,
`attachments.json` as `rows`, active forks), `place` the projects and boxes
with the tokens staged inside, and those that a removal left there (`left`).
A step is one call to Gitea or one file; `Unstaged` takes the copies out of a
container and may leave any of them.
`RepoAdd` ... `Stamp`, `RepoRemove` ... `RemoveHost` are a mirror's beginning
and end; `ProvisionUser` ... `BoxRuns` an agent's account; `HistoryRepo` ...
`HistoryStage` that of a notes box; `Detach...`, `Box...`, `Destroy...`,
`Retire...`, `Purge...` the ways back.  A strict call fails when Gitea is away,
a best-effort one is skipped, as each is in the code.

**BoardBackup**: `gitea.holds` is a number that work increases, or `Torn`
between the first write of a restore and its end.  `files` are the resident
backup, its `.part` and the safety copies.  `export` is the broker's child,
`import` the command line's; the restore script runs in a container of its
own, so a killed import leaves a `writer` behind (`ScriptOutlasts`,
`WriterTouches`, `WriterEnds`).

**ReviewLane**: `review[c]` is a child with its step and pid, and pids come
again; `sandbox[c]` its container, named after the pid; `lock` the flock and
sweep of `net-setup`; `row` the PR on the page; `ledger` the verdict files.
`Recorded` files a verdict by what was read, `Shown` is the selection for the
page.

**RepoFetch**: `branch` is what the agent pushed, `clone` the human's HEAD,
index, patch-ids and prefilled message, `tool` the command: `IndexRefused`,
`NothingNew`, `MergesRefused`, `Guarded` are its early returns, `Applied`,
`ApplyFails`, `StageAll`, `Quote` the staged form, `Walk...` the
`--auto-commit` loop.  `Quotes` writes the message, or says that it could not.  `Human...` is what its owner does in between.

**LandPr** has a step per call to Gitea: `Resolves` reads the PR, `Probes` the
tag, `Creates` makes it (`ProbesAgain` after a lost answer), `Rechecks` reads
the PR again, `Merges` or `MergeRefused`, `Untagged` and `RollsBack` take the
tag back, `Verifies` reads what came of it.  `Unanswered` loses an answer,
`CutShort` kills a run, `Pushes`, `BaseMoves`, `Clicked` and `TaggedByHand` are
others in Gitea.

**RepoWatch** has a step per item looked at: `Lists`, `LooksAtTalk`,
`ListsPulls`, `LooksAtReviews`, `Idles`; `Invokes` runs claude, `RunEnds` books
the outcome in `.repo-watch-failures`.  `AgentSays`, `PersonSays`, `Toggles`
go on while it runs.

**RoleJobs**: `at[n]` is the await at which call n's coroutine is.  A step is
the code between two awaits, since nothing else runs in between.  `Timeout`,
`Reap`, `MarkTimeout`, `NoteTimeout` are `wait_for` cancelling `Spawner.run`:
the process group is killed and awaited, a neutral note is left, the arm in
`tool_send_job` files the job and frees the slot, and corrects the note in a
second write, before which the container may go (`Down`).  The daemon is its
container's main process, so `Down` takes the agents with it, and a pid that
survives a restart does not arise; `Up` is `reconcile_on_startup`.

**RoleMemory**: call ids are numbers, compared as the ids are.  An id is the
second of the call's start with a random suffix (152-156), so a later second
has higher ids and of one second any call may have the higher: `PerSecond` ids
share a second.  `late` are the notes written after one of a greater id of
their caller's.  `Summarize` reads up to the await on the agent, `Record` appends and
moves the marks, `Crash` may fall between those two writes.

## Runs, bounds, and why they are enough

| run | bounds | properties |
|---|---|---|
| `mailbox` | 2 messages, 2 seconds, stops, kills, restarts, respawns; or 1 message beside the resolver | `NoMessageLost`, `MessageBarsWaiting`, `EachHasItsTurn` |
| `lane` | 2 ops, 2 projects, dev-box provisions, kills and daemon restarts anywhere | `LaneSafe`, `ImplementsQueue`, `OpsEnd` |
| `front` | 6 combinations of 2 builds, 1 parallel op, 2 inline ops and 8 kinds of fault, each fault once | `ShownTrue`, `OneAtATime`, `EachFreed` |
| `daemon` | jobs: 3 calls, cap 2, failing spawns and stagings, restarts; memory: 2 callers, 2 summaries, 3 calls ending in any order, 2 ids a second, kills, overlap | `SlotsExact`, `NoteTellsWhy`, `NotesOnce`, `JobEnds` |
| `project` | 2 projects, 2 ports, 5 combinations of features, failing copies and removals; 1 rs-worker process, 2 slugs, 2 cycles, docker failing; deaths anywhere | `AcceptedBundlesWhole`, `RegistryTells`, `PortsOwned`, `CredsKept`, `DoneMeansDone`, `ImplementsLedger` |
| `inside` | 2 agents, 2 trees, 2 builds, 2 versions; 2 boxes, 2 slots, 2 publishes, 2 apps, 1 folder, 2 Gitea addresses, 4 combinations of features, docker failing | `StagedWhole`, `FailedBuildHarmless`, `TabsLeadHome`, `RunsAsSaved` |
| `apps` | 2 ports, 2 addresses, one check at a time, 8 scenes of 3 to 5 outside events | `PausedMeansOwn`, `AddressesKept`, `PagesSettle` |
| `wiring` | 2 services (one shared), 2 roles, 2 addresses, 10 combinations; 2 projects, 1 box, 2 repos, 8 combinations; steps that nobody looks at fail in either | `WiredAsWritten`, `RowsWork`, `TokensRecorded`, `SyncSettles`, `ParkedStays`, `LiveForksStay` |
| `tools` | 2 imports; 3 reviews, 2 pids, 2 forks, 2 commits; 4 branches of 3 commits; 2 landings, 3 heads; 2 items, 4 things said, 2 retries | `BackupsRestore`, `ImportTold`, `ReviewsApart`, `VerdictsStand`, `PrefillFits`, `ContentWhole`, `LandingsArchived`, `PeopleHeard` |
| `board_retry` | 2 imports | `TornStaysDown` fails |
| `fetch_merge` | one branch with a merge in the middle | `MergesStaged` fails |
| `memory_late` | as `daemon`, with ids in the order of the calls | `NoneSkipped` fails |

Every property is written out, with the behaviour it is about, at the end of
its module; `PROJECT.json` says which hazards it is aimed at.

Why these bounds:

- Two slugs and two cycles let an accept follow another and two accepts file
  different slugs under one ordinal, which is where the registry's
  read-modify-write can go wrong.  Overlapping rs-worker processes break the
  ledger (see the limits), so the run has one; that accepted bundles stay
  whole under any number of processes is proved.
- Two seconds hold a message and a wake-up of the same and of different
  seconds, in either order, and a wake-up due now or later.
- Two ops and two projects give the queue a holder and a waiter, of one
  project or of two, beside an inline verb; the proofs cover every number.
- Two builds and one op of a parallel lane give a release that meets another's
  lock, and a killed build in the way of the next; two inline ops let a new
  daemon serve one while an old one still works.
- Two projects and two ports make every allocation meet the other's port: the
  marker of one may be torn while the other allocates.
- Two builds let a second swap overtake a staging that began on the first.
- Two boxes, slots and publishes let one box take what another left; two apps
  distinguish a web box's own program from another; two Gitea addresses make
  one stale.
- Two tab addresses for two ports make every release visible to the next
  allocation; three to five outside events put one before, one between and
  one after the awaits of a detection that another request joined.
- One shared and one outside service and two roles have every kind of hole,
  route and pin; two addresses make a service move.
- Two repos let an account keep one fork while another goes; two projects let
  a purge meet another's account.
- Three reviews with two pids: a pid comes again while the third is running.
- Branches of three commits hold a file touched twice with another between,
  and a merge between two plain commits or before them.
- Two landings and three heads: a push after each read of the first.
- Four things said on two items: a comment and a review on each.
- Three calls with a cap of two fill the slots and leave one to be refused.
- Two ids in a second let calls of one second have ids in either order, and a
  third call come in the next.
- Features that make steps fail ("fails", "keeps", "leaves", "strays",
  "remains", "crash") are combined with the commands whose promise they touch.

Deadlock checking is off everywhere: every op, message, build, call or event
may be used up, and then the system rests.  Symmetry is used in `project`,
`inside` and `wiring`, which check no liveness.  Every bound is a constant or
carries the word `BOUND` where it is defined.  Counters that would grow
without end are cut in guards: `MaxCycles`, `MaxTime`, `MaxCalls`,
`MaxBuilds`, `MaxWork`, `MaxImports`, `MaxReviews`, `MaxHeads`, `MaxWords`, and
`digest`, which stops counting at two entries.

## Fairness

Nobody ever has to send a request, a message or a job, to kill, to stop or to
restart anything.  What is assumed:

- `WorkerMailbox`: the clock ticks, the shell executes its next command and
  claude's turn ends (weak fairness on the loop's steps); claude started with
  an empty prompt fails; a command that opened its file goes on to fill it.
- `LifecycleLane`: the dispatcher finishes the request it serves and a child
  that can step does.  A wait for the flock is fair only as a step that stays
  enabled; it needs no more because create and destroy are refused while an
  accepted op is in flight, so the flock is free for good once the ops before
  it ended.
- `BrokerFront`: the daemon comes to every request and goes when told, one
  that is down is started by whoever runs the host, children run on
  (`Progress`), verbs that start a process keep coming (`OtherCall`): the page
  polls the service list every minute (`webui/static/app.js:61`,
  `scheduleServicesRefresh`), and each poll makes the broker start docker
  commands; without it a zombie would keep the lane busy.  Every page goes on
  looking (`Look`), which is its timer.
- `RoleJobs`: the event loop runs what is ready, and an agent's turn ends.
  The sync bound need not strike.
- `DetectedApps`: the event loop runs what it has and the broker answers
  (`Detection`, `Relayed`), and a visible page refreshes on its interval
  (`PageStep`, `PROBE_INTERVAL_MS`).

The other modules state no fairness; what is said of them is safety.

## Proofs

`tlapm` checks every leaf; the theorems hold for any number of processes, ops,
projects, calls and so on, and for every setting of the switches unless one is
named.  The assumptions are the modules' `ASSUME`s (the null values are no
members of the sets, the switches are Booleans, the bounds are naturals).

`LifecycleLaneProofs`

- `LaneInvariant`: the inductive invariant `LaneInv`, that is `TypeOK` with:
  who acts holds the flock (`ActorsHold`), who holds the flock is at a point
  between taking and releasing it (`HoldersMay`), an op is new until the
  dispatcher spawns it (`NewIsNew`).  `OneActor` alone is not inductive: a
  child at `hold` is one step from acting, and only the flock says that there
  is one.  `LaneTyped` and `MutualExclusion` follow.
- `RefusalsHold`: an accepted op that still has to run has its lock file, and
  the project of the request being served has no such op.  With it
  `OneOpEach` (`OneOpPerProject`) and `ContainersStay` (`ContainerStays`).
  The point is that a lock is pruned or released only when the op can no
  longer act, and that the dispatcher is serial between refusal and lock.
- `LaneTellsTrue`, from `TellingInv`: an accepted op that shows as running
  holds the flock, and one that is dead has its terminal unless it was killed
  or had no log.  `LaneStaysSafe` is this and the exclusions together, as the
  run checks them.
- `LaneImplementsQueue`: the refinement.  Initial states map to initial
  states; spawning enqueues, taking the flock begins, leaving it ends, a death
  in the queue drops, everything else stutters.

`ProjectWorkersProofs`, of the worker registry and the project's lifecycle

- `RegistryTypeCorrect`, from `TypeInv` (`TypeOK` and: an accept has a slug).
- `AcceptedStaysWhole`: whatever commands overlap and wherever they die, a
  cycle the registry lists is whole on disk.  Strengthened: the same of every
  entry a command has read (`seen`) and will write back, and of the bundle an
  accept past its copy is about to record.  It holds because nothing ever
  removes a bundle and each write of `reg` is an older `reg` or one extended
  by a bundle that is whole.
- `RegistryTellsTrue` and `RegistryIsLedger`, under the hypothesis that
  commands do not overlap (`Single`, the run's one process; overlapping ones
  lose a cycle, see the limits), from `SingleInvariant`.  A command reads the
  registry first and writes it last: what it read is still the registry when
  it writes, and what it has found or done since still stands (`Remembers`,
  place by place).  Between commands `Told` holds: unless docker has refused
  something, a container belongs to a live worker and a tombstone means that
  nothing is left but what `left` names, the directory or the link that the
  destroy which wrote it tried to remove and could not.  With it each write of `reg` is a step of the ledger
  (`SingleStep`), so the refinement needs no more than the invariant.
- `PortsStayOwned`, from `PortInvariant`: types (`Shape`), a port that a
  project was given once is no other's (`OwnedOnce`), a command knows the port
  of the project it works on (`JobKnows`), and containers and markers are
  bound to it (`Bound`).
- `CredsStayKept`: logins and keys are in the container or in the stash, over
  every recreate, wherever it dies, without a hypothesis.  Exempt is a login
  or key that went astray in one of the two ways in which the code loses it:
  its copy into the stash failed, which is not looked at, or a boot that no
  command waits for put it back into the container about to be removed.
  `strayed` names just these, until they are stashed or given again.
- `DoneStaysDone`, without a hypothesis.  What a command did must outlast it,
  so `DoneInv` has two parts.  `Lasts(p)` says of each project what holds once
  a command on it has said that it was done, and is kept by all that may
  happen meanwhile (`MeanwhileKeeps`).  `JobDone` says at each step of the
  command under way what it has done so far, so that it can be said at the
  end; a step of the command disturbs only its own project (`OthersLast`,
  `OthersSame`).  Of destroy, which reports done whatever its removals did,
  the exemption is what they left (`ghost.left`), and a container that was
  left has lost its marker (`Remnant`): later commands meet it.
- `ProjectKeepsBoth`, `ProjectLedgerHolds`: ports, bundles, what the registry
  tells and the ledger, where the two stand together (`BothAreEach`: a
  behaviour of the two is one of each).

`WorkerMailboxProofs`, under the hypothesis that `message` commands do not
overlap (`~Overlap`; overlapping ones lose a text, see the limits)

- `MessagesKept`, from `MailInvariant`: one command at a time sends, under a
  name nobody has (`OneSends`); a file holds the text that was sent under its
  name (`FilesTell`), and stays until claude was run with it (`Kept`); what
  the loop works on is still in the inbox (`Working`), and no unprocessed
  message is older than it (`OldestFirst`).  The last rests on `OldestIs`: a
  directory that is not empty has a first name.
- `MessagesBarWaiting`, from `ReadInv`: the resolver reads file by file while
  the loop moves files; once it has found the inbox of a running worker
  empty, all that was sent before it began has been run.

`RoleDaemonProofs`

- `JobsTyped` and `NotesTellWhy`, from `JobInvariant`, which ties the place of
  a coroutine to the job's state, its agent and its note.  A job is filed as
  timed out one write before its note says so: a call at that place (`told`),
  or gone from it with the container (`cut`), has the handler's neutral note,
  or none.
- `SlotsStayExact`: the slot counter equals the number of running jobs, and
  the agents alive never exceed the cap.  An agent alive belongs to a running
  job, a running job holds a slot, and an await that ends a job frees exactly
  one; the counting is by the library's theorems on cardinality.
- `NotesGoInOnce`, for calls that end in any order and ids that follow none
  within a second, from `MemoryInvariant`: a note that was its caller's
  greatest when it was written (`Timely`) and lies below the mark has gone in
  (`NonePassed`), who summarises a note has in hand or in global.md all timely
  ones of its caller before it (`NoGaps`), and until something is disturbed
  one summary is under way and on notes above the marks (`Undisturbed`).  A
  note that comes after a greater one is what the run `memory_late` shows to be
  passed over.
- `DaemonHasBoth`: a behaviour of the composed daemon is one of each part.

`BrokerFrontProofs`

- `OneRuns`: one build at a time, the one of `build.lock`, and no inline op of
  a new daemon beside one of an old.  `FrontInvariant` needs that an op is
  answered for once and after its child was spawned (`AnsweredOnce`), and that
  an active build is the lock's or the one being served, and then alone
  (`LockNames`): a child that boots is one step from working, and one that
  closes is about to unlink a lock whatever it names.
- `ShownStaysTrue`, from `ToldInvariant`: what is on record of an op at each
  place of its child and of its request (`LaneTold`, `InlineTold`).  A lane
  op is on record only after its work and, while its lock stands, is found
  gone only after its record; an inline op is on record only once it was
  answered for.  A step that says nothing new of an op keeps this
  (`LaneUntold`, `InlineUntold`), so only the few that do are looked at.

and of the detected apps (`DetectedApps`), which the web UI asks this broker
for

- `DetectionPauses` and `HandAddedStays`, from `AppsInvariant`: a removed
  project has no registry and destroy answers only for one, so no address that
  goes with a project is a registered port's; a reservation moves no address
  that is held (`ReservedKeeps`), whatever the pool.  Nothing is assumed of
  ports, addresses or scenes.  That pages settle is a liveness property and
  stays with TLC.

`ProjectInsideProofs`, of what is staged (`AgentStore`)

- `StoreInvariant`: `StoreInv` rests on the numbers of the builds.  The build
  under way is the only one whose number may be on some parts of a thing and
  not on others (`Stamped`, `Fresh`, `CacheInv`), and it is a new number.  So a
  thing that was whole as the tar stream began is either untouched or has lost
  what it had for good, and if the walk read both of its old parts the copy
  has both of one build (`SoundKept`).  `StageKnows` is what the command has
  before it at each step and that none of it counts as staged yet; `CopyInv`
  is what was staged well.
- `FailedBuildsHarmless` and `StagedStaysWhole` follow.  The walk is atomic
  per part (the files under `local` are one part), as in the model.

and of the boxes (`BoxLedger`)

- `BoxInvariant`: neither property is inductive, because a command changes
  entry, container, forwarders and rows one after the other, reads the entry
  again at every step, and may die between any two.  `BoxInv` says what a
  command may take for granted at each step (`Knows`: that its box has an entry
  of the kind asked for, with the publish a row is to be written of), which
  holds because the two commands never name one box (`Apart`); that a publish
  is one box's and one program's (`OwnPubs`); that a row is one the ledger
  backs, one that the command is about to drop, or torn (`RowsKnow`); and how
  a container stands at each step (`ContOk`): gone while a box is about to be
  run or forgotten, fitting its entry from the run on.  A container's folders
  are among its entry's even when the world moved, which is why a plain start
  heals what it heals.  It needs Gitea's address to be there before a box is
  run with it (`Staged`).
  A container's `missed` are the forwarders that were tried in it and failed,
  and its own removal: what it has otherwise is what the entry says.
- `TabsStayHome` and `BoxesRunAsSaved` follow, for any boxes, slots, ports and
  folders.  The one assumption beyond those of the run is that the absence of
  an entry is no entry (`EntryAssumption`).
- `InsideKeepsAll`: all four, of the container that has both.

`ProjectWiringProofs`, of the services and workers (`RoleWiring`) and of the
code forge (`DevForge`), carried over to the composition

- `WireInvariant`: none of the three properties is inductive, because in the
  middle of a command hole, entry and route of one service differ, and a
  worker has no container.  `WireInv` says which may differ at which step:
  `Shaped` (which steps a command has, and what it names at them), `Holed`
  (holes and noted addresses, but for the service being allowed or denied),
  `Routed` (the proxy knows what is rendered unless the command still has to
  render it), `Rostered` and `Served` (a worker that is not as its entry says
  is one the command is still to run again), `Unparked`, `Syncing` (the two
  phases of a sync and what it still has to do in each).  It is proved part
  by part; a step that leaves a part's variables alone keeps it by the part's
  frame (`...Kept`).
  A step that came to nothing is booked where it bites: a hole that stayed in
  `stray`, routes that were not rendered and a container that stayed in `cut`,
  each until a later step mends it, so nothing is assumed of those steps.
- `FilesAreServed`, `SyncsSettle` and `ParkedStayDown` follow, for any
  services, roles and addresses.  `SyncsSettle` is about files, the allowlist
  and the entries of the workers; that holes, routes and containers follow
  them between commands is `FilesAreServed`.  They need names to be told apart: a service
  is no role, and neither is called `routes` (`WiringAssumption`), because
  `cut` records all three.
- `ForgeInvariant`: in the middle of a command the ledger, Gitea, the token
  files and the containers tell different things of the accounts in its hand
  (`Hand`), so `ForgeInv` says of each command what it has found out or done
  by each step (`Removes`, `Purges`, `Provisions`, `Chronicles`, `Detaches`,
  `Unboxes`, `Destroys`), and of every account that is neither in hand nor
  torn by a command that died that its credentials have rows and its rows
  work (`OthersGood`).  Always: forks are of users (`ForksOwned`), and a token
  whose user is gone belongs to a history account in the ledger or to the
  account in hand (`DeadTold`).
- An account of a box may have both a history row and a dev row, since a dev
  box can be added under the name of a notes box that stands.  `PairsInv` says
  how far this goes: a row that works a repo has a fork, but while a destroy
  deletes the account (`RowsForked`); a history account has a fork only if it
  is torn or being provisioned (`TalesBare`); and one with both rows is torn
  or the one in hand, works one repo, and has its box standing but for the
  command that adds or removes it (`RowsPaired`).  `PairsKept` proves it action
  by action, and the three theorems need no assumption on the features that a
  behaviour combines.
- `ForgeRowsWork`, `ForgeTokensRecorded` and `ForgeForksStay` follow, for any
  projects, boxes and repos.  What deletes a fork or a user has found it
  archived or gone, or deletes a history account.  The forks of an account with
  a history row are exempt by name: nothing asks about them (see the limits).
  Of tokens, the exemption is the
  copy whose removal from a container failed or was skipped.

`DevToolsProofs`

- `BackupsAlwaysRestore` and `ImportsTellTrue`, from `BoardInvariant`: the
  resident file is a dump of this Gitea (`FilesGood`), an import past its
  safety copy has one on disk unless it was declined (`CopyFirst`), and from
  the stop to the first write Gitea holds what the import saw
  (`Undisturbed`).
- `LandingsStayArchived`, from `LandInvariant`: a run between its tag and its
  merge has the tag at its head (`Held`), and so has a PR that a run merged
  (`Archived`), unless a rollback crossed another run; a tag of rs-land's own
  on an open PR has a run that answers for it, unless one was cut short
  (`Answered`); and no run that meets a tag of somebody else's comes so far as
  to merge or to roll back (`Spared`).
- `ReviewsStayApart` and `VerdictsKeepStanding`, from `ReviewInvariant`: a
  child has its pid to itself while it lives, and a container that a sweep
  listed had exited and does not come back (`Apart`); nothing is let go but by
  its child, after its route was set (`RouteFirst`); and what a child or an
  entry read is the head it is filed under, unless the PR moved between the
  two reads (`ReadRight`).
- `PeopleAreHeard`, from `WatchInvariant`: what claude has yet to be given
  shows in the thread, by who spoke last or by a newer review (`Shows`), and
  an item that a pass has left behind was not pending (`LeftBehind`).
- `PrefillAlwaysFits`, from `FetchInvariant`: a run that is to write the
  message has something staged, and writes that of just these commits or warns
  (`Quotes`).
- `ContentStaysWhole`, from `ContentInvariant`: a walk meets no merge, and what
  it is about to commit is its step and whole (`Walking`); until the human has
  declined or reverted something, what HEAD has by patch-id it has by content
  (`Forward`), and what a fetch no longer has to do is done, but for merges
  before the first new commit (`Covered`).  It rests on what `Version` is for
  branches of any length: the last commit in a file.
- `ToolsKeepPromises`: the five parts' theorems, of the composition.

Only model-checked:

- the liveness properties (`EachHasItsTurn`, `OpsEnd`, `EachFreed`, `JobEnds`,
  `PagesSettle`).  Every invariant and every action property that a passing
  run checks is stated by a theorem.

Out of the prover's reach altogether: liveness under fairness, induction over
data, and anything about a RECURSIVE operator (no module has one).

## Steps that nobody looks at

The code has steps that are tried and whose result is discarded, swallowed or
only printed.  In the models they may fail, a history notes that they did, and
the property exempts just what the history names, until it is mended.

| step | in the code | in the model | exempt |
|---|---|---|---|
| remove a worker's directory, its staging link | `cli/rs_worker.py:755`, 1075-1084; the tombstone follows at 1115 | `Wipe`, `DestroyUnstage`; `left` | what is left, in `RegistryTells` |
| remove a project's container, tree, network | `cli/rscore.py:3845`, 3848, 5149; destroy reports done | `DestroyContainer`, `DestroyTree`, `DestroyNetwork`; `ghost.left` | what is left, in `DoneMeansDone` |
| copy logins and keys into the stash | 7966-8003, 8006-8068, 8474-8476 | `Stash`; `ghost.strayed` | the items, in `CredsKept` |
| remove a box's old container, or a husk | `cli/rs_sandbox.py:933`, 1132, 1774 | `DropFails`, `RunLeavesHusk`, `DiscardContainer`; `missed`, `torn` | that box, in `RunsAsSaved` |
| launch a box's forwarders | 1156-1169, a warning | `LaunchForwarders`, `PlainStart`; `missed` | those ports, in `RunsAsSaved` |
| close a hole in the router | `cli/rscore.py:10527-10533` | `CloseHole`; `stray` | that hole, in `WiredAsWritten` |
| render the routes and reload the proxy | 8241; 10444-10449, a warning; `container/supervisor/mcp-reload.sh:12-15` and 27-30, skipped with exit 0 | `Reload`, `RenderNew`; `"routes"` in `cut` | the routes until the next reload that works, in `WiredAsWritten` |
| remove a worker service's container | `cli/rscore.py:10738`, 10820 | `RemoveBox`; `cut` | that worker, in `WiredAsWritten` |
| stop a worker service's container | 10861-10863 | `Park` | none: it is flagged, and counts as up in `ParkedStays` |
| remove or stop shared services with the fleet | `research.py:126-216`, 912-935, a warning | `FleetDown`, `FleetUp`, `RemoveMcp` | none |
| remove a token's copy from a container | `cli/rscore.py:12087-12090`, 11472-11475, 12584-12586, 13714-13718; skipped where the container does not run | `Unstaged`; `place.left` | that copy, in `TokensRecorded` |
| write rs-fetch's message | `cli/rs_fetch.py:578-581`, 643-645, 728-731, 748-751, printed | `Quotes`; `tool.warned` | the message, in `PrefillFits` |
| unlink a lock or the holder file in the broker | `cli/broker.py:1245`, 1658, 1803 | as after `Killed`: the file stays and names a dead process | none |

Writing `lifecycle.holder`, a lock file or a job's directory is different: the
failure is seen, and is an action of its own (`HoldFails`, `WriteLockFails`,
the staging of `StageCanFail`).  One more is taken to work: copying tokens
into a container (a warning at 9380-9386).  Where it fails there are fewer
copies, and `TokensRecorded` asks of those that are there.

## Limits of the code that the models show

Checked as runs that are expected to fail (`findings` in `PROJECT.json`):

- `board_retry`: the import after one that failed part way, like any export,
  begins by starting Gitea over the half-replaced volume
  (`cli/rscore.py:14203`).
- `fetch_merge`: when every plain commit is in HEAD by patch-id, a staged
  fetch ends with nothing new although a merge brings more
  (`cli/rs_fetch.py:412`).  So is any merge before the first new commit left
  out of the staged patch, that of a branch which begins with one included;
  `ContentWhole` says so by its exception `MergePassed`.
- `memory_late`: a note written after a later call of its caller was
  summarised lies below the mark and is never read
  (`container/role-mcp/daemon.py:627`).

Reached by the models and excluded from a property by name or by a switch, or
seen while modelling and left out by an assumption:

Workers

- `refused`: a container that docker creates and cannot start is not removed
  by spawn's rollback (`cli/rs_worker.py:750-762`, "Rollback so spawn is
  re-invokable" at 751), and the next spawn refuses it as stale.
- An accept killed after its directory was created finds the path taken when
  repeated (1562; the comment at 1563 says "Should not happen").
- A directory or link that destroy cannot remove stays behind a tombstone that
  does not say so (1075-1084, 1115).
- Commands write back the entry they read: with `Clis = {c1, c2}` a destroy
  that ran in between is undone, though names are "project-permanent" (15-17),
  and overlapping accepts lose a manifest entry.  Two first spawns of one name:
  the loser's rollback wipes the winner's work directory (755).
- accept judges idleness by the status fetched at its start (1420); a
  container that exited idle reads `waiting` with wake-ups pending (264); a
  shutdown killed between removal and write leaves a live entry (1013).
- A wake-up moved from `wake/` to `inbox/` between the resolver's two reads
  makes a parked worker read as waiting (271), against
  `container/analysis/CLAUDE.md.template:93`.
- `Overlap = TRUE` in `WorkerMailbox`: two `message` commands that probe in
  one second choose one name, and one text is lost (969-973, "Guard against
  same-second collisions").

Broker, relay, page

- A daemon killed between spawning a child and writing its lock leaves a child
  that no refusal sees (`cli/broker.py:2126`).  The properties of the lane are
  therefore about accepted ops; create and destroy may keep the flock from an
  orphan.
- Dispatch refuses a dev-box provision while the project is in flight (2115),
  not a start, stop or update while a provision is under way (comment at
  2067-2068).
- `AllLocked`: a build whose lock cannot be written builds on unseen, and a
  second is admitted beside it (1977-1978; the lifecycle branch kills its
  child).
- A killed build is a zombie that `kill(pid, 0)` reaches until the daemon
  starts another process; the docstring calls such a lock reclaimable
  (1229-1235).  After a reboot the pid may be another process's (1234).
- stop gives up after its bound and removes pidfile and socket (2489); the old
  daemon, when done, unlinks the socket of its successor (2378).  An inline
  verb that raises an unexpected exception leaves no record.
- The relay answers 503 while the request still waits in the queue and then
  runs (`webui/server.py:982`).
- When an op is gone the page reads its log once more and does not look
  whether that read failed: a finished op is then shown as interrupted
  (`webui/static/app.js:5392`, 5762, against the comment at 5377-5380;
  `LastFails`).  A web UI that
  restarted, with a new login before the next poll, forgets an inline op, and
  its dialog polls on: the escape in `EachFreed`.

Projects

- create over a workspace left behind brings a stale override back to life.
- A recreate made while the marker is torn gives the container no model, and a
  later change of the worker's model only fills the marker in without making
  it again.  A torn marker loses its agents and port to the next model write;
  updates of the worker and live updates do not repair a half-created project.
- A recreate that dies between removal and creation leaves a project that only
  `create` brings back; a failed create keeps its port recorded while destroy
  refuses it.
- A recreate that meets a boot still restoring, or whose copy fails unnoticed
  (7966-8003), loses logins; a stale stash may bring an older login back; a
  first login during a recreate is lost.
- A container that destroy could not remove (3845) outlives its workspace: the
  name stays taken until another destroy.
- The command line takes no lock: two creates at once may allocate one port.

Staged software

- A staging that overlaps the swap passes the sidecar check though files are
  missing or of two builds (`cli/rscore.py:6308-6320` says that it catches
  both); a build killed between rename and sidecar leaves a distribution that
  passes for whole; trees have no such check.
- The bumped pin stays when the build fails; a live toggle trusts a torn
  staged tree by its launcher.  Assumed: a swap does not begin while a staging
  is removing its old copy.

Boxes

- `extensions.json` is loaded, changed and saved without a lock.
- A box removal killed between discard and the sweep of its tabs
  (12552-12563) leaves a tab that no verb removes; when its publish is given
  again, a port removal drops both rows (12949).  `rs-sandbox discard` and
  `unexpose` typed inside leave the host's tabs.
- Clearing folders, killed between save and removal: the retry says
  "unchanged", and `start` skips the check on an empty list
  (`cli/rs_sandbox.py:1605`, 1754).
- A box that restarts by itself has lost its forwarders (1152, 1625), and one
  whose forwarders could not be launched is up without them after a warning
  (1156-1169).
- A box that runs on while its folders change, or Gitea's address moves, keeps
  the old ones until it is next run or started (`moved`): `RunsAsSaved` asks
  of a parked box that is resumed, not of one that nobody touches.
- A box add stages a new Gitea address without running the other boxes again;
  a recreate runs parked boxes, too; a failed `docker rm -f` is ignored, so
  that a discarded box may run on without an entry (1774).

Wiring

- `project mcp sync` (`research.py:1250`) and a change of the role model
  (`cli/rscore.py:10293-10296`) run a parked worker again, against the comment
  at 10970-10976: the exceptions named in `ParkedStays`.  What they revive
  keeps its old tools.
- Allowing a moved service again leaves the router's hole for the old address
  (10483-10507); a deny while the router is down leaves its persisted rule;
  `_allow_mcp_for_project` says "without aborting" (10455) and dies where the
  address cannot be read (8702-8719).
- An allowed service with a new address is not refreshed by sync; a sync that
  dies between save and start is not healed by another; a call that was live
  when its worker was run again leaves a `running` file that blocks model
  updates.  The stop gate reads before it acts (10847-10863).
- A hole that the router did not close stays open when the entry is dropped
  (10530-10533), and no later deny names its address.
- A worker whose container `docker rm` did not remove cannot be run again, or
  runs on unlisted (10738, 10820).  Where the inner docker is on a volume
  (5252-5253), a worker that was only flagged, because its supervisor was down
  or `docker stop` failed, comes back with its supervisor, against the comment
  "Park survives the supervisor swap" (8254-8257).
- Assumed: addresses are not given to another service at once, and commands on
  one project do not overlap.

Code forge

- `attachments.json` is loaded, changed and saved without a lock
  (`cli/gitea.py:2606-2608`); the gates of repo removal and purge read before
  they act.
- A purge cut between user and token, or whose user deletion times out and
  succeeds, leaves a dead token file that a later provision adopts.
- A token's copy stays in a container that does not run, or does not answer,
  when the file on the host goes (12087-12090, 11472-11475, 13714-13718); it
  goes with the container.
- A box removal after a cut detach leaves the token file; a cut destroy leaves
  a row; a box removal drops one row only (`cli/rscore.py:12564-12567`).
- `box_add` does not look whether a box of the name stands before it
  provisions (`cli/rscore.py:12326`; `_refuse_retired_identity` at 12225 asks
  for an account without a token).  Over a notes box, the box's account gets a
  live fork; if the command dies before it records the row, or Gitea is away
  when the fork should be archived, the removal of the notes box deletes the
  account "with any fork it made" (`retire_history`, `cli/gitea.py:2486-2513`).
  The run reaches this ("again" with "tales"), and `LiveForksStay` exempts
  accounts that have a history row.

Tools

- Export of a half-replaced Gitea replaces the good resident backup.  Any verb
  that resumes Gitea during a replacement starts it under the writer.  Import
  of a resident file that a discard took says "failed", and leaves Gitea
  stopped though nothing changed.  Assumed: no export starts while an import
  has Gitea down.
- A push between a review's two reads files the diff of the new head under the
  old commit (`e.raced` in `VerdictsStand`; `cli/gitea.py:2695`, "named by
  WHAT it read"); a killed review leaves its container at work.
- rs-fetch: a re-run after a touched-up resolution conflicts again (44-47 and
  601-603 say that it resumes); a refusal over merges and a walk that skips
  everything leave a stale prefill; `git restore --staged` leaves
  `SQUASH_MSG`; a message that cannot be written leaves that of the fetch
  before, or a part, under what is now staged (643-645, 728-731, 748-751).
- rs-land: a rollback deletes by name, so it may take the tag of another run's
  landing (`torn.crossed`; docstring 17-24); a PR that a person merged at a
  newer head is reported landed though the tag is at the old one.
- repo-watch: a review followed by a comment on one PR is never shown to
  claude, whose answer to the comment moves the cutoff (541, 598; the header,
  5-6, promises "the full conversation context").  An item on which claude
  ends well without a comment is run for ever and starves later ones; one at
  `MAX_RETRIES` is never tried again, whatever is said; claude failing after
  its comment is not retried; a Gitea that is away ends the watcher; a review
  in the same second as the agent's comment is missed; two launchers may pass
  the check of the lock together.

Detected apps

- A direct app that listens and does not answer in time is cached as silent
  and not asked again; so is a published port bound before `docker ps` lists
  it.  With the inner view unreadable, an app swapped inside its container is
  not asked again (`BOUND` in `InnerListens`).
- A project destroyed from the command line leaves switch, addresses and
  snapshot to its successor; a stale detection may store for a project made
  again; a listing in flight at a removal allocates the freed address again.
- Opening a tab reads its address before its awaits and uses it after them
  (`webui/static/app.js:11559-11561`), and some replies computed before a
  change land after it; the next refresh repairs both.  A paused page keeps a
  pane whose address may be given away.

Role MCPs

- `SpawnCanFail`: an agent that cannot be started leaves no note
  (`container/role-mcp/daemon.py:509-510`, against 400-401).
- `StageCanFail`: staging raises out of `run`, nobody marks the job and its
  slot stays taken until the daemon restarts (471, against 270 and 787-788).
- A container that goes between the filing of a time-out and its note leaves a
  job filed `sync_timeout` whose note says "cancelled", or nothing (795-796;
  `cut`, against 734-755).
- Call ids carry whole seconds and chance (152-156): of two calls of a caller
  in one second, the later note may lie below the mark though the calls ended
  in order (`late`).
- `Overlap` in `RoleMemory`: two overlapping summaries append the same notes
  and may move a mark back (869-874, against 726-727).

## What is not modelled

- JSON-RPC parsing, tool schemas and prompts of the role MCPs; the MCP proxy's
  request handling; socket framing of the broker.
- Sessions beyond being there or not: token expiry, login throttling, step-up
  and the audit log, which refuse before any modelled state is touched.
- `rs-worker exec` and the `--send-keys` form of message, which reach into a
  container; `list`, `status`, `logs`, `search`, which change nothing.
- Overlapping commands of the command line on one project: the host side of
  each module has one command at a time, as the broker does.
- Reuse of pids in `BuildLane`; `reconcile_on_startup`'s live survivors, which
  cannot arise where the daemon is its container's first process.
- What is staged into projects on the docker substrate (their start, recreate
  and update are in `ProjectLifecycle`); the model catalogue, images and
  catalogues with their loaders: data without behaviour over time.
- The firewall's chains other than the MCP rules; address allocation by docker.
- Heal in place of history boxes, editor ports, top-level and pass-through
  ports; branch protection and permission grants in Gitea; the staged sheet
  `dev-gitea.json`; slash commands and activity logs of repo-watch; rs-wt.
- In rs-fetch the scrub of messages and the copy of verdicts.
- The page's rendering, file views and static assets; tests and docs.

## Plan

What would come next, in this order:

1. Composition: `LifecycleLane`'s `Act` replaced by the commands of
   `ProjectLifecycle`, so that a child killed in the lane is a command dying.
2. Commands of the command line beside the broker's: two commands on one
   project, with the load-change-save files (`extensions.json`,
   `attachments.json`) as the shared state.
3. `BrokerSessions`: tokens, expiry, throttling and step-up as dispatch's
   gates; a token is not usable after logout, expiry or a credential change.
4. A pid dimension for `BuildLane`, so that a lock that survived a reboot may
   name somebody else's process.
