----------------------------- MODULE AgentStore -----------------------------
(***************************************************************************)
(* The software the host caches and copies into projects (cli/rscore.py):  *)
(* the agents, each a directory that a build swaps piece by piece, and the *)
(* trees (editor, reader, node), which a build swaps as a whole.  One      *)
(* build runs at a time (BuildLane); a project's command may stage what is *)
(* cached while it does: an update refuses to begin during an agent build, *)
(* a create or a recreate does not.                                        *)
(*                                                                         *)
(* A thing of the cache has two parts: local, with the launcher, and files *)
(* (the canonical settings, the tools).  Each holds the number of the      *)
(* build it came from, as does the sidecar beside the directory.           *)
(*                                                                         *)
(* A definition Bad... is a faulty variant of the one after it.            *)
(***************************************************************************)
EXTENDS Naturals

CONSTANTS
    Agents, Trees, Seeds,   \* the trees that are Seeds are never refreshed
    Default,                \* the agent that every project has a copy of
    Nothing,                \* no agent and no tree
    MaxBuilds,              \* BOUND on the builds of a behaviour
    Versions

ASSUME StoreAssumption ==
    /\ Default \in Agents /\ Nothing \notin Agents \cup Trees
    /\ Agents \cap Trees = {} /\ Seeds \subseteq Trees
    /\ MaxBuilds \in Nat \ {0} /\ Versions # {}

VARIABLES
    pins,       \* per thing: the version that versions.env pins, overridden
    cache,      \* per thing: its parts and its sidecar in the host's cache
    build,      \* the build lane's child
    project,    \* one project: its agents, its shared copy, its homes
    stage,      \* the command that stages into the project
    ghost       \* history: what is staged well, who killed a swap

storeVars == <<pins, cache, build, project, stage, ghost>>

Items == Agents \cup Trees
Parts == {"local", "files"}
Torn  == MaxBuilds + 1      \* the sidecar while it is written

NoParts == [local |-> 0, files |-> 0]
NoStage == [pc |-> "idle", how |-> "none", set |-> {}, left |-> {},
            at |-> Nothing, seen |-> {}, before |-> [i \in Items |-> 0],
            sound |-> {}, trees |-> {}]
NoCopy  == [i \in Items |-> NoParts]

(* A usable download: its launcher is there.                               *)
Present(i) == cache[i].local # 0

(* Local, files and sidecar are of one build.                              *)
Whole(i) == cache[i].local = cache[i].side /\ cache[i].files = cache[i].side

(* What is cached at first was pulled, and well: nothing, the agents alone *)
(* or everything (a BOUND).                                                *)
StoreInit ==
    /\ pins = [i \in Items |-> CHOOSE v \in Versions : TRUE]
    /\ \E there \in {{}, Agents, Items} :
          cache = [i \in Items |-> LET n == IF i \in there THEN 1 ELSE 0 IN
                                  [local |-> n, files |-> n, side |-> n]]
    /\ build = [pc |-> "idle", item |-> Nothing, stamp |-> 1]
    /\ project = [there |-> FALSE, marker |-> {}, copy |-> NoCopy,
                  home |-> {}, box |-> {}]
    /\ stage = NoStage
    /\ ghost = [good |-> {}, served |-> FALSE, killed |-> {}]

-----------------------------------------------------------------------------
(* The build                                                               *)

Run(from, to) == build.pc = from /\ build' = [build EXCEPT !.pc = to]
Ended == [build EXCEPT !.pc = "idle", !.item = Nothing]
Put(i, part, n) == cache' = [cache EXCEPT ![i][part] = n]

(* agent_build_running: the lock names an agent verb and its child lives.  *)
AgentBuildRunning == build.item \in Agents

(* "pull" builds the pinned version again.                                 *)
Pull(i) ==
    /\ build.pc = "idle" /\ build.stamp < MaxBuilds
    /\ build' = [pc |-> "docker", item |-> i, stamp |-> build.stamp + 1]
    /\ UNCHANGED <<pins, cache, project, stage, ghost>>

(* "refresh" resolves upstream again; the pin is written before the build, *)
(* and only if it moves.                                                   *)
Refresh(i) ==
    /\ i \notin Seeds
    /\ build.pc = "idle" /\ build.stamp < MaxBuilds
    /\ \E latest \in Versions \ {pins[i]} :
          pins' = [pins EXCEPT ![i] = latest]
    /\ build' = [pc |-> "docker", item |-> i, stamp |-> build.stamp + 1]
    /\ UNCHANGED <<cache, project, stage, ghost>>

(* Removes the old tree while the download is still to come.               *)
BadCapture ==
    /\ Run("docker", "old")
    /\ cache' = [cache EXCEPT ![build.item].local = 0]
    /\ UNCHANGED <<pins, project, stage, ghost>>

(* The install ran in a throwaway container and was captured.  A build     *)
(* takes its minutes, a command that has looked at the lock none: it has   *)
(* begun its walk by then.                                                 *)
Capture ==
    /\ stage.pc # "wipe"
    /\ Run("docker", "old")
    /\ UNCHANGED <<pins, cache, project, stage, ghost>>

(* Every retry failed, or a pin or a canonical file could not be resolved: *)
(* nothing was touched yet, and the pin stays where it is.                 *)
BuildFails ==
    /\ build.pc \in {"docker", "old"}
    /\ build' = Ended
    /\ UNCHANGED <<pins, cache, project, stage, ghost>>

RemoveOld ==
    /\ Run("old", "place")
    /\ cache' = [cache EXCEPT ![build.item].local = 0, ![build.item].files = 0]
    /\ UNCHANGED <<pins, project, stage, ghost>>

PlaceAgent ==
    /\ build.item \in Agents
    /\ Run("place", "files")
    /\ Put(build.item, "local", build.stamp)
    /\ UNCHANGED <<pins, project, stage, ghost>>

WriteFiles ==
    /\ Run("files", "side")
    /\ Put(build.item, "files", build.stamp)
    /\ UNCHANGED <<pins, project, stage, ghost>>

(* A tree was put together aside and is renamed into place.                *)
PlaceTree ==
    /\ build.item \in Trees
    /\ Run("place", "side")
    /\ cache' = [cache EXCEPT ![build.item].local = build.stamp,
                              ![build.item].files = build.stamp]
    /\ UNCHANGED <<pins, project, stage, ghost>>

OpenSidecar ==
    /\ Run("side", "fill")
    /\ Put(build.item, "side", Torn)
    /\ UNCHANGED <<pins, project, stage, ghost>>

FillSidecar ==
    /\ build.pc = "fill"
    /\ build' = Ended
    /\ Put(build.item, "side", build.stamp)
    /\ ghost' = [ghost EXCEPT !.killed = @ \ {build.item}]
    /\ UNCHANGED <<pins, project, stage>>

Swapping == {"place", "files", "side", "fill"}

BuildKilled ==
    /\ build.pc \in Swapping
    /\ build' = Ended
    /\ ghost' = [ghost EXCEPT !.killed = @ \cup {build.item}]
    /\ UNCHANGED <<pins, cache, project, stage>>

-----------------------------------------------------------------------------
(* The staging                                                             *)

(* The stream carries the whole set, whatever is added: it replaces what   *)
(* the copy holds.                                                         *)
StageSet(marker, adds) == {Default} \cup marker \cup adds

Stream(how, set, trees) ==
    [NoStage EXCEPT !.pc = "wipe", !.how = how, !.set = set, !.left = set,
        !.before = [i \in Items |-> IF i \in set THEN cache[i].side ELSE 0],
        !.sound = {i \in set : Whole(i)}, !.trees = trees]

Unstaged(set) == ghost' = [ghost EXCEPT !.good = @ \ set,
                             !.served = @ /\ set \cap Agents = {}]

(* create, or a recreate: a new container, with nothing in it.  The trees  *)
(* that are cached follow the agents.                                      *)
Renew(marker) ==
    LET set == StageSet(marker, {}) IN
    /\ stage.pc = "idle"
    /\ \A a \in set : Present(a)
    /\ project' = [there |-> TRUE, marker |-> marker, copy |-> NoCopy,
                   home |-> {}, box |-> {}]
    /\ stage' = Stream("renew", set, {t \in Trees : Present(t)})
    /\ Unstaged(Items)
    /\ UNCHANGED <<pins, cache, build>>

Create   == ~project.there /\ \E marker \in SUBSET Agents : Renew(marker)
StageRecreate == project.there /\ Renew(project.marker)

(* An Add or an Update in the running project: the marker records the set  *)
(* before it is staged.                                                    *)
Update(adds) ==
    LET set == StageSet(project.marker, adds) IN
    /\ stage.pc = "idle"
    /\ project.there
    /\ ~AgentBuildRunning
    /\ \A a \in set : Present(a)
    /\ project' = [project EXCEPT !.marker = @ \cup adds]
    /\ stage' = Stream("update", set, {})
    /\ Unstaged(set)
    /\ UNCHANGED <<pins, cache, build>>

(* A live toggle stages the tree if the launcher is not in the copy.       *)
LiveToggle(t) ==
    /\ stage.pc = "idle"
    /\ project.there
    /\ t \notin Seeds
    /\ Present(t)
    /\ IF project.copy[t].local # 0
       THEN /\ stage' = [NoStage EXCEPT !.pc = "deploy", !.how = "live",
                                        !.set = {t}]
            /\ UNCHANGED ghost
       ELSE stage' = Stream("live", {t}, {}) /\ Unstaged({t})
    /\ UNCHANGED <<pins, cache, build, project>>

Wipe ==
    /\ stage.pc = "wipe"
    /\ stage' = [stage EXCEPT !.pc = "walk"]
    /\ project' = [project EXCEPT !.copy = [i \in Items |->
                     IF i \in stage.set
                        \/ (stage.set \subseteq Agents /\ i \in Agents)
                     THEN NoParts ELSE @[i]]]
    /\ UNCHANGED <<pins, cache, build, ghost>>

(* The walk lists a directory, then reads what it listed, in its order.    *)
(* An agent's may be listed empty, between the removal and the rename.     *)
List(i) ==
    /\ stage.pc = "walk" /\ stage.at = Nothing
    /\ i \in stage.left
    /\ i \in Trees => Present(i)
    /\ stage' = [stage EXCEPT !.at = i, !.left = @ \ {i},
                   !.seen = {part \in Parts : cache[i][part] # 0}]
    /\ UNCHANGED <<pins, cache, build, project, ghost>>

(* A part that was listed and is gone ends the walk (StageFails).          *)
Read(part) ==
    /\ stage.pc = "walk" /\ part \in stage.seen
    /\ cache[stage.at][part] # 0
    /\ project' =
          [project EXCEPT !.copy[stage.at][part] = cache[stage.at][part]]
    /\ stage' = [stage EXCEPT !.seen = @ \ {part},
                   !.at = IF stage.seen = {part} THEN Nothing ELSE @]
    /\ UNCHANGED <<pins, cache, build, ghost>>

Walked == stage.pc = "walk" /\ stage.left = {} /\ stage.at = Nothing

(* What was not disturbed is well staged.  An agent may have been built    *)
(* anew meanwhile: that is for the walk to notice.                         *)
Undisturbed ==
    {i \in stage.sound :
        Whole(i) /\ (i \in Agents \/ cache[i].side = stage.before[i])}
Arrive ==
    /\ stage' = [stage EXCEPT !.pc = "deploy"]
    /\ ghost' = [ghost EXCEPT !.good = @ \cup Undisturbed]
    /\ UNCHANGED <<pins, cache, build, project>>

(* Looks at the launchers alone.                                           *)
BadArriveAgents ==
    /\ Walked /\ stage.set \subseteq Agents
    /\ \A a \in stage.set : project.copy[a].local # 0
    /\ Arrive

(* The launchers came along and no sidecar changed: the marker is sent.    *)
ArriveAgents ==
    /\ Walked /\ stage.set \subseteq Agents
    /\ \A a \in stage.set : /\ project.copy[a].local # 0
                             /\ cache[a].side = stage.before[a]
    /\ Arrive
ArriveTree == Walked /\ stage.set \subseteq Trees /\ Arrive

(* A project without agents of its own keeps its home bare; a tree is      *)
(* deployed by its own script.                                             *)
Deploy ==
    /\ stage.pc = "deploy"
    /\ \A t \in stage.set \cap Trees : project.copy[t].files # 0
    /\ project' = [project EXCEPT !.home = @ \cup
          IF project.marker = {} THEN stage.set \ Agents ELSE stage.set]
    /\ stage' = CASE stage.how = "update" -> [stage EXCEPT !.pc = "boxes"]
                  [] stage.trees # {} ->
                       LET t == CHOOSE t \in stage.trees : TRUE IN
                       IF Present(t) THEN Stream("renew", {t}, stage.trees \ {t})
                       ELSE NoStage
                  [] OTHER -> NoStage
    /\ ghost' = [ghost EXCEPT !.served = @ \/ stage.set \subseteq Agents]
    /\ UNCHANGED <<pins, cache, build>>

(* The running boxes copy the whole set too; one that fails is reported    *)
(* and fails nothing else.                                                 *)
RefreshBoxes ==
    /\ stage.pc = "boxes"
    /\ \E works \in BOOLEAN :
          project' = [project EXCEPT !.box =
                        IF works THEN @ \cup stage.set ELSE @]
    /\ stage' = NoStage
    /\ UNCHANGED <<pins, cache, build, ghost>>

(* An exec that fails, a stream that is cut, a walk that meets a change, a *)
(* command that is killed: the copy stays as far as it came.               *)
StageFails ==
    /\ stage.pc # "idle"
    /\ stage' = NoStage
    /\ UNCHANGED <<pins, cache, build, project, ghost>>

StoreNext ==
    \/ \E i \in Items : Pull(i) \/ Refresh(i) \/ List(i)
    \/ Capture \/ BuildFails \/ RemoveOld \/ PlaceAgent \/ PlaceTree
    \/ WriteFiles \/ OpenSidecar \/ FillSidecar \/ BuildKilled
    \/ Create \/ StageRecreate \/ \E adds \in SUBSET Agents : Update(adds)
    \/ \E t \in Trees : LiveToggle(t)
    \/ Wipe \/ \E part \in Parts : Read(part)
    \/ ArriveAgents \/ ArriveTree \/ Deploy \/ RefreshBoxes \/ StageFails

StoreSpec == StoreInit /\ [][StoreNext]_storeVars

-----------------------------------------------------------------------------
(* Properties                                                              *)

(* What a command reported staged is of one build, local and files alike,  *)
(* whole builds of an agent having come and gone under the walk or not:    *)
(* unless the swap itself was under way as the walk began or ended, or was *)
(* killed.  And a staging that ended well left every agent that the marker *)
(* records in the copy, and in the home of a project that has agents.      *)
StagedWhole ==
    /\ \A i \in ghost.good : /\ project.copy[i].local = project.copy[i].files
                             /\ project.copy[i].local # 0
    /\ ghost.served /\ stage.pc = "idle" =>
          /\ \A a \in {Default} \cup project.marker : project.copy[a].local # 0
          /\ project.marker \subseteq project.home

(* A build that fails leaves the download it was to replace as it was, and *)
(* usable: only a kill in the middle of the swap costs it.                 *)
FailedBuildHarmless ==
    \A i \in Items :
        build.item = i \/ i \in ghost.killed \/ Whole(i)
=============================================================================
