------------------------ MODULE ProjectInsideProofs -------------------------
(***************************************************************************)
(* Proofs about ProjectInside.  Of AgentStore: what is staged into a       *)
(* project is of one build, and a build that fails leaves the cache as it  *)
(* was.  Of BoxLedger: a row of the host's registry leads to the box and   *)
(* the program it names, and a running box is the one its entry describes. *)
(*                                                                         *)
(* The first two rest on the numbers that the builds carry.  The build     *)
(* under way is the only one whose number may be on some parts of a thing  *)
(* and not on others.  So a thing that was whole as the tar stream began   *)
(* either is untouched, or has lost what it had for good: its old parts    *)
(* cannot come back, and if both old parts were read the copy has both of  *)
(* that build.                                                             *)
(*                                                                         *)
(* The other two rest on what a command may take for granted at each of    *)
(* its steps, although it reads the entry again at every one: no other     *)
(* command has its box, so the entry it saved, the container it dropped    *)
(* and the row it is about to drop are still as it left them.  A command   *)
(* that dies leaves torn exactly what it had begun and not finished.       *)
(***************************************************************************)
EXTENDS ProjectInside, NaturalsInduction, WellFoundedInduction, TLAPS

-----------------------------------------------------------------------------
(* The staging: the inductive invariant                                    *)

(* The steps of the build lane's child and of the command that stages.     *)
BuildSteps == {"idle", "docker", "old", "place", "files", "side", "fill"}
StageSteps == {"idle", "wipe", "walk", "deploy", "boxes"}

(* A project with its copy and homes, and a command with its stream.       *)
ProjectType ==
    [there : BOOLEAN, marker : SUBSET Agents,
     copy : [Items -> [local : Nat, files : Nat]],
     home : SUBSET Items, box : SUBSET Items]

StageType ==
    [pc : StageSteps, how : {"none", "renew", "update", "live"},
     set : SUBSET Items, left : SUBSET Items, at : Items \cup {Nothing},
     seen : SUBSET Parts, before : [Items -> Nat], sound : SUBSET Items,
     trees : SUBSET Trees]

(* Every variable keeps its type.                                          *)
StoreTypes ==
    /\ cache \in [Items -> [local : Nat, files : Nat, side : Nat]]
    /\ build \in [pc : BuildSteps, item : Items \cup {Nothing},
                  stamp : 1..MaxBuilds]
    /\ project \in ProjectType
    /\ stage \in StageType
    /\ ghost \in [good : SUBSET Items, served : BOOLEAN, killed : SUBSET Items]
    /\ build.pc = "idle" <=> build.item = Nothing
    /\ stage.at = Nothing => stage.seen = {}
    /\ stage.how = "update" => stage.trees = {}

(* No part is of a build still to come, and what the build under way has   *)
(* put in place is told from what it has not by its number.                *)
Stamped(i) ==
    /\ cache[i].local <= build.stamp /\ cache[i].files <= build.stamp
    /\ cache[i].side <= build.stamp \/ cache[i].side = Torn

Fresh(i) ==
    /\ build.pc \in {"docker", "old", "place", "files", "side"} =>
          cache[i].side # build.stamp
    /\ build.pc \in {"docker", "old"} =>
          /\ cache[i].local # build.stamp /\ cache[i].files # build.stamp
          /\ i \in ghost.killed \/ Whole(i)
    /\ build.pc \in {"place", "files"} => cache[i].files = 0
    /\ build.pc = "place" => cache[i].local = 0
    /\ build.pc \in {"files", "side", "fill"} => cache[i].local = build.stamp
    /\ build.pc \in {"side", "fill"} => cache[i].files = build.stamp
    /\ build.pc = "fill" => cache[i].side = Torn

(* Both, of every thing; a failed build is harmless by the same numbers.   *)
CacheInv ==
    /\ \A i \in Items : Stamped(i) /\ (i = build.item => Fresh(i))
    /\ FailedBuildHarmless

(* A thing that was whole when the stream began still is, or will never    *)
(* again have a part of the build it had.                                  *)
HasRead(i, part) ==
    i \notin stage.left /\ (stage.at = i => part \notin stage.seen)

SoundKept(i) ==
    LET n == stage.before[i] IN
    /\ n \in 1..build.stamp
    /\ build.item = i => n # build.stamp
    /\ cache[i].local = n \/ cache[i].files = n =>
          Whole(i) /\ cache[i].side = n
    /\ stage.pc = "walk" /\ cache[i].local = n =>
          /\ HasRead(i, "local") => project.copy[i].local = n
          /\ HasRead(i, "files") => project.copy[i].files = n

(* What the command stages: the agents of the marker or one tree.          *)
Marked == {Default} \cup project.marker

(* What the command has before it: what it still has to wipe, to walk and  *)
(* to stage after this, and that none of it counts as staged well yet.     *)
StageKnows ==
    /\ stage.pc # "idle" =>
          stage.set = Marked \/ \E t \in Trees : stage.set = {t}
    /\ stage.left \subseteq stage.set /\ stage.set \cap stage.trees = {}
    /\ stage.at # Nothing => stage.at \in stage.set \ stage.left
    /\ stage.pc = "wipe" => stage.left = stage.set /\ stage.at = Nothing
    /\ stage.pc \in {"wipe", "walk"} => stage.set \cap ghost.good = {}
    /\ stage.pc # "idle" => stage.trees \cap ghost.good = {}
    /\ stage.pc \in {"wipe", "walk"} =>
          /\ stage.set = Marked => ~ghost.served
          /\ stage.sound \subseteq stage.set
          /\ \A i \in stage.sound : SoundKept(i)
    /\ stage.pc \in {"deploy", "boxes"} /\ stage.set = Marked =>
          \A a \in stage.set : project.copy[a].local # 0

(* What was staged well, and served.                                       *)
CopyInv ==
    /\ \A i \in ghost.good : /\ project.copy[i].local = project.copy[i].files
                             /\ project.copy[i].local # 0
    /\ ghost.good \cap Agents \subseteq Marked
    /\ ghost.served =>
          /\ \A a \in Marked : project.copy[a].local # 0
          /\ project.marker \subseteq project.home

(* All of it.                                                              *)
StoreInv == StoreTypes /\ CacheInv /\ StageKnows /\ CopyInv

-----------------------------------------------------------------------------
(* The steps                                                               *)

(* A command that has ended is one of the type.                            *)
LEMMA NoStageType == NoStage \in StageType
BY DEF NoStage, StageType, StageSteps

(* A stream that begins has all of its set before it.                      *)
LEMMA StreamFields ==
    ASSUME StoreTypes, NEW how \in {"renew", "update", "live"},
           NEW set \in SUBSET Items, NEW trees \in SUBSET Trees
    PROVE  LET s == Stream(how, set, trees) IN
           /\ s \in StageType
           /\ s.pc = "wipe" /\ s.how = how /\ s.set = set /\ s.left = set
           /\ s.at = Nothing /\ s.seen = {} /\ s.trees = trees
           /\ s.sound = {i \in set : Whole(i)}
           /\ \A i \in set : s.before[i] = cache[i].side
<1> DEFINE before == [i \in Items |-> IF i \in set THEN cache[i].side ELSE 0]
           s == Stream(how, set, trees)
<1>1. before \in [Items -> Nat]
  BY DEF StoreTypes
<1>2. /\ s.pc = "wipe" /\ s.how = how /\ s.set = set /\ s.left = set
      /\ s.at = Nothing /\ s.seen = {} /\ s.trees = trees
      /\ s.sound = {i \in set : Whole(i)} /\ s.before = before
  BY DEF Stream, NoStage
<1>3. s \in StageType
  <2>1. s = [NoStage EXCEPT !.pc = "wipe", !.how = how, !.set = set,
               !.left = set, !.before = before,
               !.sound = {i \in set : Whole(i)}, !.trees = trees]
    BY DEF Stream
  <2> HIDE DEF before, s
  <2> QED
    BY <2>1, <1>1, NoStageType DEF StageType, StageSteps
<1> QED
  BY <1>1, <1>2, <1>3

(* After a deploy comes the refresh of the boxes, nothing, or the stream   *)
(* of the next tree that a renewal has to stage.                           *)
LEMMA AfterDeploy ==
    ASSUME StoreTypes, Deploy
    PROVE  \/ stage' = [stage EXCEPT !.pc = "boxes"] \/ stage' = NoStage
           \/ \E t \in stage.trees :
                 /\ Present(t)
                 /\ stage' = Stream("renew", {t}, stage.trees \ {t})
<1>1. stage.how = "update" => stage.trees = {}
  BY DEF StoreTypes
<1>2. CASE stage.how = "update"
  BY <1>1, <1>2 DEF Deploy
<1>3. CASE stage.how # "update" /\ stage.trees # {}
  BY <1>3 DEF Deploy
<1>4. CASE stage.how # "update" /\ stage.trees = {}
  BY <1>4 DEF Deploy
<1> QED
  BY <1>2, <1>3, <1>4

(* Every step keeps the types.                                             *)
LEMMA TypesStep ==
    ASSUME StoreTypes, [StoreNext]_storeVars
    PROVE  StoreTypes'
<1> USE StoreAssumption
    DEF StoreTypes, ProjectType, BuildSteps, StageSteps, Items, Parts, Torn,
        Present
<1>1. ASSUME NEW i \in Items, Pull(i)
       PROVE  StoreTypes'
  BY <1>1 DEF Pull
<1>2. ASSUME NEW i \in Items, Refresh(i)
       PROVE  StoreTypes'
  BY <1>2 DEF Refresh
<1>3. ASSUME Capture
       PROVE  StoreTypes'
  BY <1>3 DEF Capture, Run
<1>4. ASSUME BuildFails
       PROVE  StoreTypes'
  BY <1>4 DEF BuildFails, Ended
<1>5. ASSUME RemoveOld
       PROVE  StoreTypes'
  BY <1>5 DEF RemoveOld, Run
<1>6. ASSUME PlaceAgent
       PROVE  StoreTypes'
  BY <1>6 DEF PlaceAgent, Run, Put
<1>7. ASSUME PlaceTree
       PROVE  StoreTypes'
  BY <1>7 DEF PlaceTree, Run
<1>8. ASSUME WriteFiles
       PROVE  StoreTypes'
  BY <1>8 DEF WriteFiles, Run, Put
<1>9. ASSUME OpenSidecar
       PROVE  StoreTypes'
  BY <1>9 DEF OpenSidecar, Run, Put
<1>10. ASSUME FillSidecar
       PROVE  StoreTypes'
  <2>1. cache' \in [Items -> [local : Nat, files : Nat, side : Nat]]
    BY <1>10 DEF FillSidecar, Put
  <2>2. ghost' \in [good : SUBSET Items, served : BOOLEAN,
                    killed : SUBSET Items]
    BY <1>10 DEF FillSidecar
  <2> QED
    BY <1>10, <2>1, <2>2 DEF FillSidecar, Ended
<1>11. ASSUME BuildKilled
       PROVE  StoreTypes'
  BY <1>11 DEF BuildKilled, Ended, Swapping
<1>12. ASSUME NEW marker \in SUBSET Agents, Renew(marker)
       PROVE  StoreTypes'
  <2>1. stage' = Stream("renew", {Default} \cup marker,
                        {t \in Trees : Present(t)})
    BY <1>12 DEF Renew, StageSet
  <2>2. {Default} \cup marker \in SUBSET Items
    BY DEF Items
  <2>3. stage' \in StageType
    BY ONLY <2>1, <2>2, StoreTypes, StreamFields
  <2>4. stage'.at = Nothing /\ stage'.seen = {} /\ stage'.how = "renew"
    BY ONLY <2>1 DEF Stream, NoStage
  <2>5. project' \in ProjectType
    BY <1>12 DEF Renew, NoCopy, NoParts
  <2> QED
    BY <1>12, <2>3, <2>4, <2>5 DEF Renew, Unstaged
<1>13. ASSUME NEW adds \in SUBSET Agents, Update(adds)
       PROVE  StoreTypes'
  <2> DEFINE set == {Default} \cup project.marker \cup adds
  <2>1. stage' = Stream("update", set, {}) /\ Unstaged(set)
    BY <1>13 DEF Update, StageSet
  <2>2. set \in SUBSET Items
    BY DEF Items
  <2>3. stage' \in StageType
    BY ONLY <2>1, <2>2, StoreTypes, StreamFields
  <2>4. stage'.at = Nothing /\ stage'.seen = {} /\ stage'.trees = {}
    BY ONLY <2>1 DEF Stream, NoStage
  <2>5. project' \in ProjectType
    BY <1>13 DEF Update
  <2>6. ghost' \in [good : SUBSET Items, served : BOOLEAN,
                    killed : SUBSET Items]
    BY <2>1 DEF Unstaged
  <2> QED
    BY <1>13, <2>3, <2>4, <2>5, <2>6 DEF Update
<1>14. ASSUME NEW t \in Trees, LiveToggle(t)
       PROVE  StoreTypes'
  <2>1. CASE project.copy[t].local # 0
    <3>1. /\ stage' = [NoStage EXCEPT !.pc = "deploy", !.how = "live",
                                       !.set = {t}]
          /\ UNCHANGED <<cache, build, project, ghost>>
      BY <1>14, <2>1 DEF LiveToggle
    <3>2. stage' \in StageType
      BY ONLY <3>1, NoStageType, t \in Items DEF StageType, StageSteps
    <3>3. stage'.at = Nothing /\ stage'.seen = {} /\ stage'.how = "live"
      BY ONLY <3>1 DEF NoStage
    <3> QED
      BY <3>1, <3>2, <3>3
  <2>2. CASE project.copy[t].local = 0
    <3>1. /\ stage' = Stream("live", {t}, {}) /\ Unstaged({t})
          /\ UNCHANGED <<cache, build, project>>
      BY <1>14, <2>2 DEF LiveToggle
    <3>2. {t} \in SUBSET Items /\ {} \in SUBSET Trees
      BY DEF Items
    <3>3. stage' \in StageType
      BY ONLY <3>1, <3>2, StoreTypes, StreamFields
    <3>4. stage'.at = Nothing /\ stage'.seen = {} /\ stage'.how = "live"
      BY ONLY <3>1 DEF Stream, NoStage
    <3> QED
      BY <3>1, <3>3, <3>4 DEF Unstaged
  <2> QED
    BY <2>1, <2>2
<1>15. ASSUME Wipe
       PROVE  StoreTypes'
  BY <1>15 DEF Wipe, NoParts, StageType
<1>16. ASSUME NEW i \in Items, List(i)
       PROVE  StoreTypes'
  BY <1>16 DEF List, StageType
<1>17. ASSUME NEW part \in Parts, Read(part)
       PROVE  StoreTypes'
  <2>1. stage.at \in Items
    BY <1>17 DEF Read, StageType
  <2>2. cache[stage.at].local \in Nat /\ cache[stage.at].files \in Nat
    BY <2>1
  <2>3. project'.copy \in [Items -> [local : Nat, files : Nat]]
    <3>1. CASE part = "local"
      <4>1. project'.copy = [project.copy EXCEPT ![stage.at].local =
                                                    cache[stage.at].local]
        BY ONLY <1>17, <2>1, <3>1, StoreTypes
           DEF Read, StoreTypes, ProjectType
      <4> QED
        BY ONLY <4>1, <2>1, <2>2, StoreTypes
           DEF StoreTypes, ProjectType
    <3>2. CASE part = "files"
      <4>1. project'.copy = [project.copy EXCEPT ![stage.at].files =
                                                    cache[stage.at].files]
        BY ONLY <1>17, <2>1, <3>2, StoreTypes
           DEF Read, StoreTypes, ProjectType
      <4> QED
        BY ONLY <4>1, <2>1, <2>2, StoreTypes
           DEF StoreTypes, ProjectType
    <3> QED
      BY <3>1, <3>2 DEF Parts
  <2>4. project' \in ProjectType
    BY ONLY <1>17, <2>3, StoreTypes DEF Read, StoreTypes, ProjectType
  <2>5. stage' \in StageType /\ (stage'.at = Nothing => stage'.seen = {})
    BY <1>17 DEF Read, StageType
  <2> QED
    BY ONLY <1>17, <2>4, <2>5, StoreTypes DEF Read, StoreTypes, StageType
<1>18. ASSUME ArriveAgents
       PROVE  StoreTypes'
  BY <1>18 DEF ArriveAgents, Walked, Arrive, Undisturbed, StageType
<1>19. ASSUME ArriveTree
       PROVE  StoreTypes'
  BY <1>19 DEF ArriveTree, Walked, Arrive, Undisturbed, StageType
<1>20. ASSUME Deploy
       PROVE  StoreTypes'
  <2>1. project' \in ProjectType
    BY <1>20 DEF Deploy, StageType
  <2>2. ghost' \in [good : SUBSET Items, served : BOOLEAN,
                    killed : SUBSET Items]
    BY <1>20 DEF Deploy
  <2>3. /\ stage' \in StageType
        /\ stage'.at = Nothing => stage'.seen = {}
        /\ stage'.how = "update" => stage'.trees = {}
    <3>1. CASE stage' = [stage EXCEPT !.pc = "boxes"]
      BY <3>1 DEF StageType, StageSteps
    <3>2. CASE stage' = NoStage
      BY <3>2, NoStageType DEF NoStage
    <3>3. ASSUME NEW t \in stage.trees,
                 stage' = Stream("renew", {t}, stage.trees \ {t})
          PROVE  /\ stage' \in StageType
                 /\ stage'.seen = {} /\ stage'.how = "renew"
      <4>1. {t} \in SUBSET Items /\ stage.trees \ {t} \in SUBSET Trees
        BY DEF StageType, Items
      <4>2. stage' \in StageType
        BY ONLY <3>3, <4>1, StoreTypes, StreamFields
      <4> QED
        BY ONLY <3>3, <4>2 DEF Stream, NoStage
    <3> QED
      BY <1>20, <3>1, <3>2, <3>3, AfterDeploy
  <2> QED
    BY <1>20, <2>1, <2>2, <2>3 DEF Deploy
<1>21. ASSUME RefreshBoxes
       PROVE  StoreTypes'
  BY <1>21 DEF RefreshBoxes, NoStage, StageType
<1>22. ASSUME StageFails
       PROVE  StoreTypes'
  BY <1>22, NoStageType DEF StageFails, NoStage
<1>23. CASE UNCHANGED storeVars
  BY <1>23 DEF storeVars
<1> QED
  BY ONLY <1>1, <1>2, <1>3, <1>4, <1>5, <1>6, <1>7, <1>8, <1>9, <1>10, <1>11,
     <1>12, <1>13, <1>14, <1>15, <1>16, <1>17, <1>18, <1>19, <1>20, <1>21,
     <1>22, <1>23, [StoreNext]_storeVars, StoreTypes DEF StoreNext, Create,
     StageRecreate, StoreTypes, ProjectType

(* Every step keeps what the numbers tell of the cache.                    *)
LEMMA CacheStep ==
    ASSUME StoreTypes, CacheInv, [StoreNext]_storeVars
    PROVE  CacheInv'
<1> USE StoreAssumption
    DEF StoreTypes, ProjectType, StageType, CacheInv, Stamped, Fresh,
        FailedBuildHarmless, Whole, BuildSteps, Parts, Torn, Items
<1>1. ASSUME NEW i \in Items, Pull(i)
       PROVE  CacheInv'
  BY <1>1 DEF Pull
<1>2. ASSUME NEW i \in Items, Refresh(i)
       PROVE  CacheInv'
  BY <1>2 DEF Refresh
<1>3. ASSUME Capture
       PROVE  CacheInv'
  BY <1>3 DEF Capture, Run
<1>4. ASSUME BuildFails
       PROVE  CacheInv'
  BY <1>4 DEF BuildFails, Ended
<1>5. ASSUME RemoveOld
       PROVE  CacheInv'
  BY <1>5 DEF RemoveOld, Run
<1>6. ASSUME PlaceAgent
       PROVE  CacheInv'
  BY <1>6 DEF PlaceAgent, Run, Put
<1>7. ASSUME PlaceTree
       PROVE  CacheInv'
  BY <1>7 DEF PlaceTree, Run
<1>8. ASSUME WriteFiles
       PROVE  CacheInv'
  BY <1>8 DEF WriteFiles, Run, Put
<1>9. ASSUME OpenSidecar
       PROVE  CacheInv'
  BY <1>9 DEF OpenSidecar, Run, Put
<1>10. ASSUME FillSidecar
       PROVE  CacheInv'
  BY <1>10 DEF FillSidecar, Ended, Put
<1>11. ASSUME BuildKilled
       PROVE  CacheInv'
  BY <1>11 DEF BuildKilled, Ended, Swapping
<1>12. ASSUME NEW m \in SUBSET Agents, Renew(m)
       PROVE  CacheInv'
  BY <1>12 DEF Renew, StageSet, Stream, Unstaged, NoStage, NoCopy, NoParts
<1>13. ASSUME NEW adds \in SUBSET Agents, Update(adds)
       PROVE  CacheInv'
  BY <1>13 DEF Update, StageSet, Stream, Unstaged, NoStage
<1>14. ASSUME NEW t \in Trees, LiveToggle(t)
       PROVE  CacheInv'
  <2>1. UNCHANGED <<cache, build>> /\ ghost'.killed = ghost.killed
    BY ONLY <1>14, StoreTypes DEF LiveToggle, Unstaged, StoreTypes
  <2> QED
    BY <2>1
<1>15. ASSUME Wipe
       PROVE  CacheInv'
  BY <1>15 DEF Wipe, NoParts
<1>16. ASSUME NEW i \in Items, List(i)
       PROVE  CacheInv'
  BY <1>16 DEF List
<1>17. ASSUME NEW part \in Parts, Read(part)
       PROVE  CacheInv'
  BY <1>17 DEF Read
<1>18. ASSUME ArriveAgents
       PROVE  CacheInv'
  BY <1>18 DEF ArriveAgents, Walked, Arrive, Undisturbed
<1>19. ASSUME ArriveTree
       PROVE  CacheInv'
  BY <1>19 DEF ArriveTree, Walked, Arrive, Undisturbed
<1>20. ASSUME Deploy
       PROVE  CacheInv'
  BY <1>20 DEF Deploy, Stream, NoStage
<1>21. ASSUME RefreshBoxes
       PROVE  CacheInv'
  BY <1>21 DEF RefreshBoxes, NoStage
<1>22. ASSUME StageFails
       PROVE  CacheInv'
  BY <1>22 DEF StageFails, NoStage
<1>23. CASE UNCHANGED storeVars
  BY <1>23 DEF storeVars
<1> QED
  BY ONLY <1>1, <1>2, <1>3, <1>4, <1>5, <1>6, <1>7, <1>8, <1>9, <1>10, <1>11,
     <1>12, <1>13, <1>14, <1>15, <1>16, <1>17, <1>18, <1>19, <1>20, <1>21,
     <1>22, <1>23, [StoreNext]_storeVars, StoreTypes DEF StoreNext, Create,
     StageRecreate, StoreTypes, ProjectType

(* What is whole as a stream begins is sound: it has one build's number,   *)
(* which is not that of a build still swapping it.                         *)
LEMMA StreamSound ==
    ASSUME StoreTypes, CacheInv, NEW how \in {"renew", "update", "live"},
           NEW set \in SUBSET Items, NEW trees \in SUBSET Trees,
           \A i \in set : Present(i),
           stage' = Stream(how, set, trees), UNCHANGED <<cache, build>>
    PROVE  stage'.sound \subseteq set /\ \A i \in stage'.sound : SoundKept(i)'
<1> DEFINE s == Stream(how, set, trees)
<1>1. s.pc = "wipe" /\ s.sound = {i \in set : Whole(i)}
  BY DEF Stream, NoStage
<1>2. \A i \in set : s.before[i] = cache[i].side
  BY DEF Stream, NoStage
<1>3. ASSUME NEW i \in set, Whole(i) PROVE SoundKept(i)'
  <2> DEFINE n == cache[i].side
  <2>1. n = cache[i].local /\ n = cache[i].files /\ n # 0 /\ i \in Items
    BY <1>3 DEF Whole, Present
  <2>2. n \in 1..build.stamp
    BY <2>1, StoreAssumption DEF StoreTypes, CacheInv, Stamped, Torn
  <2>3. build.item = i => n # build.stamp
    <3>1. SUFFICES ASSUME build.item = i PROVE n # build.stamp
      OBVIOUS
    <3>2. /\ Fresh(i) /\ build.pc \in BuildSteps /\ build.pc # "idle"
          /\ build.stamp < Torn
      BY <3>1, <2>1, StoreAssumption DEF CacheInv, StoreTypes, Items, Torn
    <3> QED
      BY <3>2, <2>1, <2>2 DEF Fresh, BuildSteps
  <2> QED
    BY <1>1, <1>2, <2>1, <2>2, <2>3 DEF SoundKept, Whole
<1> QED
  BY ONLY <1>1, <1>3, stage' = s

(* The steps after which something is streamed.                            *)
StreamStep ==
    \/ Create \/ StageRecreate \/ \E adds \in SUBSET Agents : Update(adds)
    \/ \E t \in Trees : LiveToggle(t)
    \/ Deploy

(* They keep what the command knows, and what the copy shows.              *)
LEMMA StreamsKeep ==
    ASSUME StoreTypes, CacheInv, StageKnows, CopyInv, StreamStep
    PROVE  StageKnows' /\ CopyInv'
<1>1. ASSUME NEW marker \in SUBSET Agents, Renew(marker),
             project.there => marker = project.marker
      PROVE  StageKnows' /\ CopyInv'
  <2> DEFINE set == {Default} \cup marker
             trees == {t \in Trees : Present(t)}
  <2>1. /\ stage' = Stream("renew", set, trees) /\ Unstaged(Items)
        /\ UNCHANGED <<cache, build>> /\ \A a \in set : Present(a)
        /\ project'.marker = marker
    BY <1>1 DEF Renew, StageSet
  <2>2. /\ set \in SUBSET Items /\ set \subseteq Agents /\ set # {}
        /\ trees \in SUBSET Trees /\ Agents \cap Trees = {}
    BY StoreAssumption DEF Items
  <2>3. /\ stage'.pc = "wipe" /\ stage'.set = set /\ stage'.left = set
        /\ stage'.at = Nothing /\ stage'.trees = trees
    BY <2>1 DEF Stream, NoStage
  <2>4. stage'.sound \subseteq set /\ \A i \in stage'.sound : SoundKept(i)'
    BY <2>1, <2>2, StreamSound
  <2>5. ghost'.good = {} /\ ghost'.served = FALSE
    BY <2>1, StoreAssumption DEF Unstaged, StoreTypes, Items
  <2>6. CopyInv'
    BY <2>5 DEF CopyInv
  <2>7. Marked' = set
    BY <2>1 DEF Marked
  <2> HIDE DEF set, trees
  <2> QED
    BY <2>2, <2>3, <2>4, <2>5, <2>6, <2>7 DEF StageKnows
<1>2. ASSUME NEW adds \in SUBSET Agents, Update(adds)
      PROVE  StageKnows' /\ CopyInv'
  <2> DEFINE set == {Default} \cup project.marker \cup adds
  <2>1. /\ stage' = Stream("update", set, {}) /\ Unstaged(set)
        /\ UNCHANGED <<cache, build>> /\ \A a \in set : Present(a)
        /\ project' = [project EXCEPT !.marker = @ \cup adds]
    BY <1>2 DEF Update, StageSet
  <2>2. /\ set \in SUBSET Items /\ set \subseteq Agents /\ Default \in set
        /\ Default \in Agents
    BY StoreAssumption DEF Items, StoreTypes, ProjectType
  <2>3. /\ stage'.pc = "wipe" /\ stage'.set = set /\ stage'.left = set
        /\ stage'.at = Nothing /\ stage'.trees = {}
    BY <2>1 DEF Stream, NoStage
  <2>4. stage'.sound \subseteq set /\ \A i \in stage'.sound : SoundKept(i)'
    BY <2>1, <2>2, StreamSound
  <2>5. ghost'.good = ghost.good \ set /\ ghost'.served = FALSE
    <3> HIDE DEF set
    <3> QED
      BY <2>1, <2>2 DEF Unstaged, StoreTypes
  <2>6. Marked' = set /\ project'.copy = project.copy /\ Marked \subseteq set
    BY <2>1 DEF Marked, StoreTypes, ProjectType
  <2> HIDE DEF set
  <2>7. CopyInv'
    BY <2>5, <2>6 DEF CopyInv
  <2> QED
    BY <2>2, <2>3, <2>4, <2>5, <2>6, <2>7 DEF StageKnows
<1>3. ASSUME NEW t \in Trees, LiveToggle(t)
       PROVE  StageKnows' /\ CopyInv'
  <2>0. /\ UNCHANGED <<cache, build, project>> /\ Present(t)
        /\ t \in Items /\ t \notin Agents
    BY <1>3, StoreAssumption DEF LiveToggle, Items
  <2>1. CASE project.copy[t].local # 0
    <3>1. /\ stage'.pc = "deploy" /\ stage'.set = {t} /\ stage'.left = {}
          /\ stage'.at = Nothing /\ stage'.trees = {} /\ stage'.sound = {}
          /\ UNCHANGED ghost
      BY <1>3, <2>1 DEF LiveToggle, NoStage
    <3>2. {t} # Marked
      BY <2>0, StoreAssumption DEF Marked
    <3> QED
      BY <3>1, <3>2, <2>0 DEF StageKnows, CopyInv, Marked
  <2>2. CASE project.copy[t].local = 0
    <3>1. stage' = Stream("live", {t}, {}) /\ Unstaged({t})
      BY <1>3, <2>2 DEF LiveToggle
    <3>2. /\ stage'.pc = "wipe" /\ stage'.set = {t} /\ stage'.left = {t}
          /\ stage'.at = Nothing /\ stage'.trees = {}
      BY <3>1 DEF Stream, NoStage
    <3>3. stage'.sound \subseteq {t} /\ \A i \in stage'.sound : SoundKept(i)'
      <4>1. /\ {t} \in SUBSET Items /\ {} \in SUBSET Trees
            /\ \A i \in {t} : Present(i)
        BY <2>0
      <4> QED
        BY <3>1, <2>0, <4>1, StreamSound
    <3>4. {t} # Marked
      BY <2>0, StoreAssumption DEF Marked
    <3>5. ghost'.good = ghost.good \ {t} /\ ghost'.served = ghost.served
      BY <3>1, <2>0, StoreTypes DEF Unstaged, StoreTypes
    <3>6. CopyInv'
      BY <3>5, <2>0 DEF CopyInv, Marked
    <3> QED
      BY <3>1, <3>2, <3>3, <3>4, <3>5, <3>6, <2>0 DEF StageKnows, Marked
  <2> QED BY <2>1, <2>2
<1>4. ASSUME Deploy
       PROVE  StageKnows' /\ CopyInv'
  <2>0. /\ UNCHANGED <<cache, build>> /\ stage.pc = "deploy"
        /\ project'.copy = project.copy /\ project'.marker = project.marker
        /\ ghost'.good = ghost.good
    BY <1>4 DEF Deploy, StoreTypes, ProjectType
  <2>1. ASSUME stage' = [stage EXCEPT !.pc = "boxes"]
        PROVE  StageKnows'
    <3>1. /\ stage'.pc = "boxes" /\ stage'.set = stage.set
          /\ stage'.left = stage.left /\ stage'.at = stage.at
          /\ stage'.trees = stage.trees
      BY <2>1 DEF StoreTypes, StageType
    <3>2. Marked' = Marked
      BY <2>0 DEF Marked
    <3> QED
      BY <3>1, <3>2, <2>0 DEF StageKnows
  <2>2. ASSUME stage' = NoStage
        PROVE  StageKnows'
    <3>1. /\ stage'.pc = "idle" /\ stage'.set = {} /\ stage'.left = {}
          /\ stage'.at = Nothing /\ stage'.trees = {}
      BY <2>2 DEF NoStage
    <3>2. {} \cap stage'.trees = {}
      OBVIOUS
    <3> QED
      BY <3>1, <3>2 DEF StageKnows
  <2>3. ASSUME NEW t \in stage.trees, Present(t),
               stage' = Stream("renew", {t}, stage.trees \ {t})
        PROVE  StageKnows'
    <3>0. /\ t \in Trees /\ t \in Items /\ t \notin Agents
          /\ stage.trees \ {t} \in SUBSET Trees
      BY <2>3, StoreAssumption DEF StoreTypes, StageType, Items
    <3>2. /\ stage'.pc = "wipe" /\ stage'.set = {t} /\ stage'.left = {t}
          /\ stage'.at = Nothing /\ stage'.trees = stage.trees \ {t}
      BY <2>3 DEF Stream, NoStage
    <3>3. stage'.sound \subseteq {t} /\ \A i \in stage'.sound : SoundKept(i)'
      <4>1. {t} \in SUBSET Items /\ \A i \in {t} : Present(i)
        BY <2>3, <3>0
      <4> QED
        BY <2>3, <2>0, <3>0, <4>1, StreamSound
    <3>4. {t} # Marked
      BY <3>0, StoreAssumption DEF Marked
    <3> QED
      BY <3>0, <3>2, <3>3, <3>4, <2>0 DEF StageKnows, Marked
  <2>4. CopyInv'
    <3>1. /\ project'.home = project.home \cup
                 (IF project.marker = {} THEN stage.set \ Agents
                  ELSE stage.set)
          /\ ghost'.served = (ghost.served \/ stage.set \subseteq Agents)
      BY <1>4 DEF Deploy, StoreTypes, ProjectType
    <3>2. stage.set \subseteq Agents => stage.set = Marked
      BY <2>0, StoreAssumption DEF StageKnows
    <3>3. stage.set = Marked =>
             /\ \A a \in Marked : project.copy[a].local # 0
             /\ project.marker \subseteq project'.home
      BY <2>0, <3>1 DEF StageKnows, Marked
    <3>4. Marked' = Marked
      BY <2>0 DEF Marked
    <3> QED
      BY <2>0, <3>1, <3>2, <3>3, <3>4 DEF CopyInv
  <2> QED
    BY ONLY <1>4, <2>1, <2>2, <2>3, <2>4, StoreTypes, AfterDeploy
<1> QED
  BY <1>1, <1>2, <1>3, <1>4
     DEF StreamStep, Create, StageRecreate, StoreTypes, ProjectType

(* So does every step: of the build, whose number is a new one; of the     *)
(* walk, which reads a part of the thing as it is; and as the walk ends.   *)
LEMMA StageStep ==
    ASSUME StoreTypes, CacheInv, StageKnows, CopyInv,
           [StoreNext]_storeVars
    PROVE  StageKnows' /\ CopyInv'
<1> USE StoreAssumption
    DEF StoreTypes, ProjectType, StageType, CacheInv, Stamped, Fresh,
        Whole, BuildSteps, StageSteps, Parts, Torn, Items, Marked,
        StageKnows, SoundKept, HasRead, CopyInv, Present
<1>1. ASSUME NEW i \in Items, Pull(i)
       PROVE  StageKnows' /\ CopyInv'
  <2>1. StageKnows'
    BY <1>1 DEF Pull
  <2>2. CopyInv'
    BY <1>1 DEF Pull
  <2> QED
    BY ONLY <2>1, <2>2 DEF StageKnows
<1>2. ASSUME NEW i \in Items, Refresh(i)
       PROVE  StageKnows' /\ CopyInv'
  <2>1. StageKnows'
    BY <1>2 DEF Refresh
  <2>2. CopyInv'
    BY <1>2 DEF Refresh
  <2> QED
    BY ONLY <2>1, <2>2 DEF StageKnows
<1>3. ASSUME Capture
       PROVE  StageKnows' /\ CopyInv'
  <2>1. StageKnows'
    BY <1>3 DEF Capture, Run
  <2>2. CopyInv'
    BY <1>3 DEF Capture, Run
  <2> QED
    BY ONLY <2>1, <2>2 DEF StageKnows
<1>4. ASSUME BuildFails
       PROVE  StageKnows' /\ CopyInv'
  <2>1. StageKnows'
    BY <1>4 DEF BuildFails, Ended
  <2>2. CopyInv'
    BY <1>4 DEF BuildFails, Ended
  <2> QED
    BY ONLY <2>1, <2>2 DEF StageKnows
<1>5. ASSUME RemoveOld
       PROVE  StageKnows' /\ CopyInv'
  <2>1. StageKnows'
    BY <1>5 DEF RemoveOld, Run
  <2>2. CopyInv'
    BY <1>5 DEF RemoveOld, Run
  <2> QED
    BY ONLY <2>1, <2>2 DEF StageKnows
<1>6. ASSUME PlaceAgent
       PROVE  StageKnows' /\ CopyInv'
  <2>1. StageKnows'
    BY <1>6 DEF PlaceAgent, Run, Put
  <2>2. CopyInv'
    BY <1>6 DEF PlaceAgent, Run, Put
  <2> QED
    BY ONLY <2>1, <2>2 DEF StageKnows
<1>7. ASSUME PlaceTree
       PROVE  StageKnows' /\ CopyInv'
  <2>1. StageKnows'
    BY <1>7 DEF PlaceTree, Run
  <2>2. CopyInv'
    BY <1>7 DEF PlaceTree, Run
  <2> QED
    BY ONLY <2>1, <2>2 DEF StageKnows
<1>8. ASSUME WriteFiles
       PROVE  StageKnows' /\ CopyInv'
  <2>1. StageKnows'
    BY <1>8 DEF WriteFiles, Run, Put
  <2>2. CopyInv'
    BY <1>8 DEF WriteFiles, Run, Put
  <2> QED
    BY ONLY <2>1, <2>2 DEF StageKnows
<1>9. ASSUME OpenSidecar
       PROVE  StageKnows' /\ CopyInv'
  <2>1. StageKnows'
    BY <1>9 DEF OpenSidecar, Run, Put
  <2>2. CopyInv'
    BY <1>9 DEF OpenSidecar, Run, Put
  <2> QED
    BY ONLY <2>1, <2>2 DEF StageKnows
<1>10. ASSUME FillSidecar
       PROVE  StageKnows' /\ CopyInv'
  <2>1. StageKnows'
    BY <1>10 DEF FillSidecar, Ended, Put
  <2>2. CopyInv'
    BY <1>10 DEF FillSidecar, Ended, Put
  <2> QED
    BY ONLY <2>1, <2>2 DEF StageKnows
<1>11. ASSUME BuildKilled
       PROVE  StageKnows' /\ CopyInv'
  <2>1. StageKnows'
    BY <1>11 DEF BuildKilled, Ended, Swapping
  <2>2. CopyInv'
    BY <1>11 DEF BuildKilled, Ended, Swapping
  <2> QED
    BY ONLY <2>1, <2>2 DEF StageKnows
<1>12. ASSUME Wipe
       PROVE  StageKnows' /\ CopyInv'
  <2>1. StageKnows'
    BY <1>12 DEF Wipe, NoParts
  <2>2. CopyInv'
    BY <1>12 DEF Wipe, NoParts
  <2> QED
    BY ONLY <2>1, <2>2 DEF StageKnows
<1>13. ASSUME NEW i \in Items, List(i)
       PROVE  StageKnows' /\ CopyInv'
  <2>1. StageKnows'
    BY <1>13 DEF List
  <2>2. CopyInv'
    BY <1>13 DEF List
  <2> QED
    BY ONLY <2>1, <2>2 DEF StageKnows
<1>14. ASSUME NEW part \in Parts, Read(part)
       PROVE  StageKnows' /\ CopyInv'
  <2>1. StageKnows'
    BY <1>14 DEF Read
  <2>2. CopyInv'
    BY <1>14 DEF Read
  <2> QED
    BY ONLY <2>1, <2>2 DEF StageKnows
<1>15. ASSUME ArriveAgents
       PROVE  StageKnows' /\ CopyInv'
  <2>1. StageKnows'
    BY <1>15 DEF ArriveAgents, Walked, Arrive, Undisturbed
  <2>2. CopyInv'
    BY <1>15 DEF ArriveAgents, Walked, Arrive, Undisturbed
  <2> QED
    BY ONLY <2>1, <2>2 DEF StageKnows
<1>16. ASSUME ArriveTree
       PROVE  StageKnows' /\ CopyInv'
  <2>1. StageKnows'
    BY <1>16 DEF ArriveTree, Walked, Arrive, Undisturbed
  <2>2. CopyInv'
    BY <1>16 DEF ArriveTree, Walked, Arrive, Undisturbed
  <2> QED
    BY ONLY <2>1, <2>2 DEF StageKnows
<1>17. ASSUME RefreshBoxes
       PROVE  StageKnows' /\ CopyInv'
  <2>1. StageKnows'
    BY <1>17 DEF RefreshBoxes, NoStage
  <2>2. CopyInv'
    BY <1>17 DEF RefreshBoxes, NoStage
  <2> QED
    BY ONLY <2>1, <2>2 DEF StageKnows
<1>18. ASSUME StageFails
       PROVE  StageKnows' /\ CopyInv'
  <2>1. StageKnows'
    BY <1>18 DEF StageFails, NoStage
  <2>2. CopyInv'
    BY <1>18 DEF StageFails, NoStage
  <2> QED
    BY ONLY <2>1, <2>2 DEF StageKnows
<1>19. CASE UNCHANGED storeVars
  BY <1>19 DEF storeVars
<1>20. CASE StreamStep
  BY ONLY <1>20, StoreTypes, CacheInv, StageKnows, CopyInv, StreamsKeep
<1> QED
  BY ONLY <1>1, <1>2, <1>3, <1>4, <1>5, <1>6, <1>7, <1>8, <1>9, <1>10, <1>11,
     <1>12, <1>13, <1>14, <1>15, <1>16, <1>17, <1>18, <1>19, <1>20,
     [StoreNext]_storeVars DEF StoreNext, StreamStep

-----------------------------------------------------------------------------
(* Theorems                                                                *)

(* The invariant holds of the cache as it may be found, and every step     *)
(* keeps it.                                                               *)
LEMMA StoreBegins ==
    ASSUME StoreInit
    PROVE  StoreInv
<1> USE StoreAssumption DEF StoreInit, Items
<1>1. StoreTypes
  BY NoStageType
     DEF StoreTypes, ProjectType, BuildSteps, NoCopy, NoParts, NoStage
<1>2. CacheInv
  <2>1. PICK there \in {{}, Agents, Items} :
           cache = [i \in Items |-> LET n == IF i \in there THEN 1 ELSE 0 IN
                                   [local |-> n, files |-> n, side |-> n]]
    OBVIOUS
  <2>2. ASSUME NEW i \in Items
        PROVE  /\ cache[i].local \in {0, 1} /\ cache[i].files = cache[i].local
               /\ cache[i].side = cache[i].local
    BY <2>1
  <2>3. build.stamp = 1 /\ \A i \in Items : build.item # i
    OBVIOUS
  <2> QED
    BY ONLY <2>2, <2>3 DEF CacheInv, Stamped, FailedBuildHarmless, Whole
<1>3. StageKnows
  BY DEF StageKnows, NoStage
<1>4. CopyInv
  BY DEF CopyInv
<1> QED
  BY <1>1, <1>2, <1>3, <1>4 DEF StoreInv

LEMMA StoreKeeps ==
    ASSUME StoreInv, [StoreNext]_storeVars
    PROVE  StoreInv'
BY TypesStep, CacheStep, StageStep DEF StoreInv

(* What StagedWhole says of a command that has ended is what CopyInv says  *)
(* of it whenever it has.                                                  *)
LEMMA StoreShows ==
    ASSUME StoreInv
    PROVE  StagedWhole /\ FailedBuildHarmless
BY DEF StoreInv, CacheInv, CopyInv, StagedWhole, Marked

(* The parts of the cache and the copy are told apart by build numbers, in *)
(* every state of a store and the project that stages from it.             *)
THEOREM StoreInvariant == StoreSpec => []StoreInv
<1>1. StoreInit => StoreInv
  BY StoreBegins
<1>2. StoreInv /\ [StoreNext]_storeVars => StoreInv'
  BY StoreKeeps
<1> QED
  BY <1>1, <1>2, PTL DEF StoreSpec

(* A build that fails, however far it came, leaves the download it was to  *)
(* replace whole, unless it was killed in the middle of the swap: of every *)
(* agent and every tree, for any number of builds, whatever the command    *)
(* that stages from the cache is doing meanwhile.                          *)
THEOREM FailedBuildsHarmless == StoreSpec => []FailedBuildHarmless
<1>1. StoreInv => FailedBuildHarmless
  BY StoreShows
<1> QED
  BY <1>1, StoreInvariant, PTL

(* What a staging reported good is of one build, for any set of agents and *)
(* trees and with any number of builds swapping under the walk; and after  *)
(* one that served the agents, all that the marker records are in the copy *)
(* and in the homes.                                                       *)
THEOREM StagedStaysWhole == StoreSpec => []StagedWhole
<1>1. StoreInv => StagedWhole
  BY StoreShows
<1> QED
  BY <1>1, StoreInvariant, PTL

-----------------------------------------------------------------------------
(* The boxes: the inductive invariant                                      *)

(* The verbs a command may be, the steps it may be at, and the three of    *)
(* them that run a box.                                                    *)
Verbs == {"none", "add", "expose", "unexpose", "folders", "remove",
          "recreate", "attach", "restart", "start"}
Places == {"idle", "wire", "save", "rm", "run", "fwd", "tab", "row", "kill",
           "del", "sweep", "loop", "start"}
Running == {"rm", "run", "fwd"}

(* A command, a container, and a row of the host's registry.               *)
CmdType == [verb : Verbs, pc : Places, box : Boxes \cup {NoBox}, app : Apps,
            kind : Kinds, set : SUBSET Folders, todo : SUBSET Boxes]
ContType == [state : {"absent", "up", "down"}, pubs : SUBSET Publish,
             gitea : Nat, folders : SUBSET Folders, fwd : SUBSET Apps,
             missed : SUBSET (Apps \cup {"rm"})]
TabType == [box : Boxes, app : Apps, pub : Pubs, web : BOOLEAN]

(* Every variable keeps its type.                                          *)
BoxTypes ==
    /\ ledger \in [Boxes -> Entry \cup {NoEntry}]
    /\ cont \in [Boxes -> ContType]
    /\ tabs \in SUBSET TabType
    /\ world \in [gitea : Nat, staged : Nat, folders : SUBSET Folders]
    /\ cmd \in [Actors -> CmdType]

(* The steps that each verb has.                                           *)
StepsOf(verb) ==
    CASE verb = "none"     -> {"idle"}
      [] verb = "add"      -> {"wire", "save", "tab"} \cup Running
      [] verb = "expose"   -> {"save", "row"} \cup Running
      [] verb = "unexpose" -> {"save", "row"} \cup Running
      [] verb = "folders"  -> {"save"} \cup Running
      [] verb = "remove"   -> {"kill", "del", "sweep"}
      [] verb = "recreate" -> {"loop"} \cup Running
      [] verb = "attach"   -> {"loop"} \cup Running
      [] verb = "restart"  -> Running
      [] verb = "start"    -> {"start"} \cup Running

(* A box whose entry is still to be saved, and one whose entry is gone.    *)
Unmade(c) == c.verb = "add" /\ c.pc \in {"wire", "save"}
Unlisted(c) == c.pc = "sweep"

(* What actor a's command may take for granted of the entry it works on:   *)
(* that it is there, is of the kind asked for, and still has the publish   *)
(* it is to write a row of.                                                *)
Knows(a) ==
    LET c == cmd[a] IN
    /\ c.pc \in StepsOf(c.verb)
    /\ c.verb = "none" => c = Idle
    /\ c.box = NoBox <=> c.pc \in {"idle", "loop"}
    /\ c.box # NoBox => (Saved(c.box) <=> ~(Unmade(c) \/ Unlisted(c)))
    /\ \A b \in c.todo : Saved(b)
    /\ c.todo # {} => c.verb \in {"recreate", "attach"}
    /\ c.verb = "add" /\ Saved(c.box) =>
          /\ ledger[c.box].kind = c.kind
          /\ c.kind = "web" => WebApp \in AppsOf(ledger[c.box].pubs)
    /\ c.pc = "tab" => c.kind = "web"
    /\ c.verb = "expose" /\ c.pc # "save" =>
          c.app \in AppsOf(ledger[c.box].pubs)
    /\ c.verb = "unexpose" =>
          \A t \in tabs : t.box = c.box /\ t.app = c.app => ~t.web

(* The two commands never name the same box, and only the host has verbs   *)
(* that take several boxes.                                                *)
Apart ==
    /\ cmd["inside"].verb \in {"none", "restart", "start"}
    /\ cmd["host"].verb \notin {"restart", "start"}
    /\ cmd["inside"].todo = {}
    /\ cmd["inside"].box # NoBox =>
          cmd["inside"].box \notin {cmd["host"].box} \cup cmd["host"].todo

(* Both, of each command.                                                  *)
CmdKnows == (\A a \in Actors : Knows(a)) /\ Apart

(* Publishes.                                                              *)
OwnPubs ==
    /\ \A b, d \in Boxes : Saved(b) /\ Saved(d) =>
          \A p \in ledger[b].pubs, q \in ledger[d].pubs :
             p[2] = q[2] => b = d /\ p = q
    /\ \A b \in Boxes : Saved(b) =>
          \A p, q \in ledger[b].pubs : p[1] = q[1] => p = q

(* A row whose command died half way, a row that the ledger backs, and one *)
(* that the host's command is about to drop.                               *)
RowTorn(t) == <<t.box, t.app>> \in torn
Known(t) == Saved(t.box) /\ <<t.app, t.pub>> \in ledger[t.box].pubs
Mid(t) ==
    LET c == cmd["host"] IN
    /\ t.box = c.box
    /\ \/ c.verb = "unexpose" /\ c.pc # "save" /\ t.app = c.app
       \/ c.pc = "sweep"

(* Every row is one of the three, a box has one row of a program, two rows *)
(* share a publish only where one is torn, and a web box has its own.      *)
RowsKnow ==
    /\ \A t \in tabs : RowTorn(t) \/ Known(t) \/ Mid(t)
    /\ \A t, u \in tabs : t.box = u.box /\ t.app = u.app => t = u
    /\ \A t, u \in tabs : t.pub = u.pub => t = u \/ RowTorn(t) \/ RowTorn(u)
    /\ \A b \in Boxes : Saved(b) /\ ledger[b].kind = "web" =>
          \/ <<b, WebApp>> \in torn
          \/ \E t \in tabs : t.box = b /\ t.app = WebApp /\ t.web
          \/ cmd["host"].verb = "add" /\ cmd["host"].box = b

(* A container has what its entry says, as of the world it was run in.     *)
Fits(b) ==
    /\ cont[b].pubs = ledger[b].pubs
    /\ cont[b].folders \subseteq ledger[b].folders
    /\ b \in moved \/ /\ cont[b].folders = KeptFolders(b)
                      /\ NeedsGitea(b) => cont[b].gitea = world.staged

(* A command is at one of these steps of box b.                            *)
BoxAt(b, pcs) == \E a \in Actors : cmd[a].box = b /\ cmd[a].pc \in pcs

(* Gitea has an address, and a box has none before one is staged.          *)
Staged ==
    /\ world.gitea # 0
    /\ world.staged = 0 => \A b \in Boxes : cont[b].gitea = 0

(* A container that could not be removed.                                  *)
LeftOver(b) == "rm" \in cont[b].missed

(* What is known of a container at each step of the command that works on  *)
(* it, and when none does.                                                 *)
ContOk(b) ==
    /\ cont[b].state # "absent" => Saved(b) \/ LeftOver(b)
    /\ BoxAt(b, {"run"}) => cont[b] = Gone
    /\ BoxAt(b, {"del", "sweep"}) => cont[b] = Gone \/ LeftOver(b)
    /\ BoxAt(b, {"fwd"}) => Saved(b) /\ Up(b) /\ Fits(b)
    /\ BoxAt(b, {"start"}) =>
          /\ Saved(b) /\ cont[b].state # "absent"
          /\ b \in moved \/ ~Stale(b)
    /\ Saved(b) /\ cont[b].state # "absent" /\ ~BoxAt(b, {"rm", "fwd"})
       /\ <<b, "run">> \notin torn =>
          /\ Fits(b)
          /\ Up(b) => cont[b].fwd = AppsOf(ledger[b].pubs) \ cont[b].missed

(* Both, of each container.                                                *)
ContKnows == Staged /\ \A b \in Boxes : ContOk(b)

(* The inductive invariant: the types, what the commands know, the         *)
(* publishes, the rows and the containers.                                 *)
BoxInv == BoxTypes /\ CmdKnows /\ OwnPubs /\ RowsKnow /\ ContKnows

-----------------------------------------------------------------------------
(* The boxes: what the operators return                                    *)

(* A set of numbers has a least one: the smallest is the one that is met   *)
(* first on the way up.                                                    *)
LEMMA NatMin ==
    ASSUME NEW S \in SUBSET Nat, S # {}
    PROVE  \E x \in S : \A y \in S : x <= y
<1> DEFINE R == {ss \in Nat \X Nat : ss[1] < ss[2]}
<1>1. IsWellFoundedOn(R, Nat)
  BY NatLessThanWellFounded DEF OpToRel
<1> HIDE DEF R
<1>2. PICK x \in S : \A y \in S : <<y, x>> \notin R
  BY <1>1, WFMin
<1>3. \A y \in S : y \in Nat /\ x \in Nat /\ ~(y < x)
  BY <1>2 DEF R
<1> QED BY <1>3

(* So Lowest picks one of the set.                                         *)
LEMMA LowestIs ==
    ASSUME NEW S \in SUBSET Nat, S # {}
    PROVE  Lowest(S) \in S
BY NatMin DEF Lowest

(* The slot that a new box gets.                                           *)
LEMMA SlotIs ==
    ASSUME NEW k, FreeSlots(k) # {}
    PROVE  Lowest(FreeSlots(k)) \in Slots
<1>1. FreeSlots(k) \in SUBSET Nat
  BY BoxAssumption DEF FreeSlots
<1> QED
  BY <1>1, LowestIs DEF FreeSlots

(* The publish that a port gets.                                           *)
LEMMA PubIs ==
    ASSUME FreePubs # {}
    PROVE  Lowest(FreePubs) \in FreePubs /\ Lowest(FreePubs) \in Pubs
<1>1. FreePubs \in SUBSET Nat
  BY BoxAssumption DEF FreePubs
<1> QED
  BY <1>1, LowestIs DEF FreePubs

(* A command that is under way has a box, and past its first steps the box *)
(* has an entry.                                                           *)
LEMMA Works ==
    ASSUME BoxTypes, CmdKnows, NEW a \in Actors,
           cmd[a].pc \notin {"idle", "loop"}
    PROVE  LET c == cmd[a] IN
           /\ c.box \in Boxes /\ c.app \in Apps /\ c.kind \in Kinds
           /\ c.set \in SUBSET Folders
           /\ ~Unmade(c) /\ ~Unlisted(c) =>
                 Saved(c.box) /\ ledger[c.box] \in Entry
<1>1. cmd[a] \in CmdType
  BY DEF BoxTypes
<1>2. cmd[a].box # NoBox
  BY DEF CmdKnows, Knows
<1>3. cmd[a].box \in Boxes
  BY <1>1, <1>2 DEF CmdType
<1>4. ~Unmade(cmd[a]) /\ ~Unlisted(cmd[a]) => Saved(cmd[a].box)
  BY <1>2 DEF CmdKnows, Knows
<1>5. Saved(cmd[a].box) => ledger[cmd[a].box] \in Entry
  BY <1>3 DEF BoxTypes, Saved
<1> QED
  BY <1>1, <1>3, <1>4, <1>5 DEF CmdType

(* The ways in which a box cannot be run.                                  *)
BoxFails(a) == DropFails(a) \/ RunFails(a) \/ RunLeavesHusk(a)

(* Each ends its command, or the loop goes on.                             *)
LEMMA FailureIs ==
    ASSUME NEW a \in Actors, BoxFails(a)
    PROVE  /\ torn = {} /\ cmd[a].pc \in {"rm", "run"}
           /\ torn' = Scar(a) \/ torn' = Scar(a) \ {<<cmd[a].box, "run">>}
           /\ Finish(a) \/ Resume(a)
           /\ UNCHANGED <<ledger, tabs, world>>
BY DEF BoxFails, DropFails, RunFails, RunLeavesHusk, Abandon, At

(* What is launched in a box are forwarders of its ports.                  *)
LEMMA ServingIs ==
    ASSUME NEW b \in Boxes, ledger[b] \in Entry, cont[b] \in ContType,
           NEW set \in Launched(b)
    PROVE  LET c == Serving(cont[b], ledger[b].pubs, set) IN
           /\ c \in ContType
           /\ c.state = "up" /\ c.pubs = cont[b].pubs
           /\ c.gitea = cont[b].gitea /\ c.folders = cont[b].folders
           /\ c.fwd = AppsOf(ledger[b].pubs) \ c.missed
<1>1. AppsOf(ledger[b].pubs) \in SUBSET Apps
  BY DEF AppsOf, Entry, Publish
<1>2. set \subseteq AppsOf(ledger[b].pubs)
  BY DEF Launched
<1> QED
  BY <1>1, <1>2 DEF Serving, ContType

-----------------------------------------------------------------------------
(* The boxes: types                                                        *)

(* A command that goes on to another step keeps its type.                  *)
LEMMA GotoTyped ==
    ASSUME BoxTypes, NEW a \in Actors, NEW to \in Places, Goto(a, to)
    PROVE  cmd' \in [Actors -> CmdType]
BY DEF BoxTypes, Goto, CmdType

(* So does one that is replaced whole.                                     *)
LEMMA CmdTyped ==
    ASSUME BoxTypes, NEW a \in Actors, NEW c \in CmdType,
           cmd' = [cmd EXCEPT ![a] = c]
    PROVE  cmd' \in [Actors -> CmdType]
BY DEF BoxTypes

(* So does the idle one.                                                   *)
LEMMA IdleTyped == Idle \in CmdType
BY BoxAssumption DEF Idle, CmdType, Verbs, Places, Kinds

(* So does one that ends,                                                  *)
LEMMA FinishTyped ==
    ASSUME BoxTypes, NEW a \in Actors, Finish(a)
    PROVE  cmd' \in [Actors -> CmdType]
BY IdleTyped DEF BoxTypes, Finish

(* and one that goes on after its box runs.                                *)
LEMMA ResumeTyped ==
    ASSUME BoxTypes, NEW a \in Actors, Resume(a)
    PROVE  cmd' \in [Actors -> CmdType]
<1>1. ASSUME NEW to \in {"tab", "row"}, Goto(a, to)
      PROVE  cmd' \in [Actors -> CmdType]
  BY <1>1, GotoTyped DEF Places
<1>2. ASSUME cmd' = [cmd EXCEPT ![a].pc = "loop", ![a].box = NoBox]
      PROVE  cmd' \in [Actors -> CmdType]
  <2> DEFINE c == [cmd[a] EXCEPT !.pc = "loop", !.box = NoBox]
  <2>1. cmd[a] \in CmdType
    BY DEF BoxTypes
  <2>2. c \in CmdType
    BY <2>1 DEF CmdType, Places
  <2>3. cmd' = [cmd EXCEPT ![a] = c]
    BY <1>2 DEF BoxTypes
  <2> HIDE DEF c
  <2> QED
    BY <2>2, <2>3, CmdTyped
<1> QED
  BY <1>1, <1>2, FinishTyped DEF Resume, After

(* A step that writes no file and runs nothing.                            *)
LEMMA SameTyped ==
    ASSUME BoxTypes, cmd' \in [Actors -> CmdType],
           UNCHANGED <<ledger, cont, tabs, world>>
    PROVE  BoxTypes'
BY DEF BoxTypes, Actors, CmdType, ContType, TabType

(* One that writes one entry, and one that changes one container.          *)
LEMMA LedgerTyped ==
    ASSUME BoxTypes, cmd' \in [Actors -> CmdType], NEW b \in Boxes,
           NEW e \in Entry \cup {NoEntry}, ledger' = [ledger EXCEPT ![b] = e],
           UNCHANGED <<cont, tabs, world>>
    PROVE  BoxTypes'
<1>1. ledger' \in [Boxes -> Entry \cup {NoEntry}]
  BY DEF BoxTypes
<1> QED
  BY <1>1 DEF BoxTypes

(* A step that replaces one container keeps the types.                     *)
LEMMA ContTyped ==
    ASSUME BoxTypes, cmd' \in [Actors -> CmdType], NEW b \in Boxes,
           NEW c \in ContType, cont' = [cont EXCEPT ![b] = c],
           UNCHANGED <<ledger, tabs, world>>
    PROVE  BoxTypes'
<1>1. cont' \in [Boxes -> ContType]
  BY DEF BoxTypes
<1> QED
  BY <1>1 DEF BoxTypes

(* So does one that rewrites the rows.                                     *)
LEMMA TabsTyped ==
    ASSUME BoxTypes, cmd' \in [Actors -> CmdType], tabs' \in SUBSET TabType,
           UNCHANGED <<ledger, cont, world>>
    PROVE  BoxTypes'
BY DEF BoxTypes

(* A command that is about to write a row finds the publish of it.         *)
LEMMA TabHas ==
    ASSUME BoxTypes, CmdKnows
    PROVE  LET c == cmd["host"] IN
           /\ c.pc = "tab" => \E p \in ledger[c.box].pubs : p[1] = WebApp
           /\ c.pc = "row" /\ c.verb = "expose" =>
                 \E p \in ledger[c.box].pubs : p[1] = c.app
<1>1. Knows("host")
  BY DEF CmdKnows, Actors
<1>2. CASE cmd["host"].pc = "tab"
  <2>1. cmd["host"].verb = "add" /\ cmd["host"].box # NoBox
    BY <1>1, <1>2 DEF Knows, StepsOf, Running, BoxTypes, CmdType, Verbs, Actors
  <2>2. Saved(cmd["host"].box)
    BY <1>1, <1>2, <2>1 DEF Knows, Unmade, Unlisted
  <2>3. WebApp \in AppsOf(ledger[cmd["host"].box].pubs)
    BY <1>1, <1>2, <2>1, <2>2 DEF Knows
  <2> QED
    BY <1>2, <2>3 DEF AppsOf
<1>3. CASE cmd["host"].pc = "row" /\ cmd["host"].verb = "expose"
  <2>1. cmd["host"].app \in AppsOf(ledger[cmd["host"].box].pubs)
    BY <1>1, <1>3 DEF Knows
  <2> QED
    BY <1>3, <2>1 DEF AppsOf
<1> QED
  BY <1>2, <1>3

(* Every step keeps the types.                                             *)
LEMMA BoxTypesStep ==
    ASSUME BoxTypes, CmdKnows,
           [Next]_vars
    PROVE  BoxTypes'
<1>1. ASSUME NEW a \in Actors, CommandDies(a)
       PROVE  BoxTypes'
  <2>1. Finish(a) /\ UNCHANGED <<ledger, cont, tabs, world>>
    BY <1>1 DEF CommandDies
  <2> QED
    BY <2>1, FinishTyped, SameTyped DEF Actors, Places
<1>2. ASSUME CreateSave("host")
       PROVE  BoxTypes'
  <2>1. /\ cmd["host"].box \in Boxes /\ cmd["host"].kind \in Kinds
        /\ cmd["host"].set \in SUBSET Folders
    BY <1>2, Works DEF CreateSave, At, Actors
  <2> DEFINE e == [kind |-> cmd["host"].kind,
                   slot |-> Lowest(FreeSlots(cmd["host"].kind)),
                   pubs |-> IF cmd["host"].kind = "web"
                            THEN {<<WebApp, Lowest(FreePubs)>>} ELSE {},
                   folders |-> cmd["host"].set]
  <2>2. e \in Entry
    BY <1>2, <2>1, SlotIs, PubIs, BoxAssumption
       DEF CreateSave, Entry, Publish
  <2>3. ledger' = [ledger EXCEPT ![cmd["host"].box] = e]
    BY <1>2, <2>1 DEF CreateSave, BoxTypes
  <2>4. /\ Goto("host", "rm")
        /\ UNCHANGED <<cont, tabs, world>>
    BY <1>2 DEF CreateSave
  <2>5. cmd' \in [Actors -> CmdType]
    BY <2>4, GotoTyped DEF Actors, Places
  <2> HIDE DEF e
  <2> QED
    BY <2>1, <2>2, <2>3, <2>4, <2>5, LedgerTyped
<1>3. ASSUME ExposeAgain("host")
       PROVE  BoxTypes'
  <2>1. Goto("host", "row") /\ UNCHANGED <<ledger, cont, tabs, world>>
    BY <1>3 DEF ExposeAgain
  <2> QED
    BY <2>1, GotoTyped, SameTyped DEF Actors, Places
<1>4. ASSUME ExposeSave("host")
       PROVE  BoxTypes'
  <2>1. /\ cmd["host"].box \in Boxes /\ ledger[cmd["host"].box] \in Entry
        /\ cmd["host"].app \in Apps /\ cmd["host"].set \in SUBSET Folders
    BY <1>4, Works DEF ExposeSave, At, Unmade, Unlisted, Actors
  <2> DEFINE e == [ledger[cmd["host"].box] EXCEPT !.pubs =
               @ \cup {<<cmd["host"].app, Lowest(FreePubs)>>}]
  <2>2. e \in Entry
    <3>1. ledger[cmd["host"].box].pubs
             \cup {<<cmd["host"].app, Lowest(FreePubs)>>} \in SUBSET Publish
      BY <1>4, <2>1, PubIs DEF ExposeSave, Entry, Publish
    <3> QED
      BY <2>1, <3>1 DEF Entry
  <2>3. ledger' = [ledger EXCEPT ![cmd["host"].box] = e]
    BY <1>4, <2>1 DEF ExposeSave, BoxTypes
  <2>4. /\ Goto("host", "rm")
        /\ UNCHANGED <<cont, tabs, world>>
    BY <1>4 DEF ExposeSave
  <2>5. cmd' \in [Actors -> CmdType]
    BY <2>4, GotoTyped DEF Actors, Places
  <2> HIDE DEF e
  <2> QED
    BY <2>1, <2>2, <2>3, <2>4, <2>5, LedgerTyped
<1>5. ASSUME UnexposeSave("host")
       PROVE  BoxTypes'
  <2>1. /\ cmd["host"].box \in Boxes /\ ledger[cmd["host"].box] \in Entry
        /\ cmd["host"].app \in Apps /\ cmd["host"].set \in SUBSET Folders
    BY <1>5, Works DEF UnexposeSave, At, Unmade, Unlisted, Actors
  <2> DEFINE e == [ledger[cmd["host"].box] EXCEPT !.pubs =
               {p \in @ : p[1] # cmd["host"].app}]
  <2>2. e \in Entry
    BY <2>1 DEF Entry
  <2>3. ledger' = [ledger EXCEPT ![cmd["host"].box] = e]
    BY <1>5, <2>1 DEF UnexposeSave, BoxTypes
  <2>4. /\ Goto("host", "row") \/ Goto("host", "rm")
        /\ UNCHANGED <<cont, tabs, world>>
    BY <1>5 DEF UnexposeSave
  <2>5. cmd' \in [Actors -> CmdType]
    BY <2>4, GotoTyped DEF Actors, Places
  <2> HIDE DEF e
  <2> QED
    BY <2>1, <2>2, <2>3, <2>4, <2>5, LedgerTyped
<1>6. ASSUME FoldersSame("host")
       PROVE  BoxTypes'
  <2>1. Finish("host") /\ UNCHANGED <<ledger, cont, tabs, world>>
    BY <1>6 DEF FoldersSame
  <2> QED
    BY <2>1, FinishTyped, SameTyped DEF Actors, Places
<1>7. ASSUME FoldersSave("host")
       PROVE  BoxTypes'
  <2>1. /\ cmd["host"].box \in Boxes /\ ledger[cmd["host"].box] \in Entry
        /\ cmd["host"].app \in Apps /\ cmd["host"].set \in SUBSET Folders
    BY <1>7, Works DEF FoldersSave, At, Unmade, Unlisted, Actors
  <2> DEFINE e == [ledger[cmd["host"].box] EXCEPT !.folders =
               cmd["host"].set]
  <2>2. e \in Entry
    BY <2>1 DEF Entry
  <2>3. ledger' = [ledger EXCEPT ![cmd["host"].box] = e]
    BY <1>7, <2>1 DEF FoldersSave, BoxTypes
  <2>4. /\ Goto("host", "rm")
        /\ UNCHANGED <<cont, tabs, world>>
    BY <1>7 DEF FoldersSave
  <2>5. cmd' \in [Actors -> CmdType]
    BY <2>4, GotoTyped DEF Actors, Places
  <2> HIDE DEF e
  <2> QED
    BY <2>1, <2>2, <2>3, <2>4, <2>5, LedgerTyped
<1>8. ASSUME PoolEmpty("host")
       PROVE  BoxTypes'
  <2>1. Finish("host") /\ UNCHANGED <<ledger, cont, tabs, world>>
    BY <1>8 DEF PoolEmpty
  <2> QED
    BY <2>1, FinishTyped, SameTyped DEF Actors, Places
<1>9. ASSUME NEW a \in Actors, DropContainer(a)
       PROVE  BoxTypes'
  <2>1. cmd[a].box \in Boxes /\ cont[cmd[a].box] \in ContType
    BY <1>9, Works DEF DropContainer, At, Unmade, Unlisted, Actors, BoxTypes
  <2> DEFINE c == Gone
  <2>2. c \in ContType
    BY DEF Gone, ContType
  <2>3. cont' = [cont EXCEPT ![cmd[a].box] = c]
    BY <1>9, <2>1 DEF DropContainer, BoxTypes
  <2>4. Goto(a, "run") /\ UNCHANGED <<ledger, tabs, world>>
    BY <1>9 DEF DropContainer
  <2>5. cmd' \in [Actors -> CmdType]
    BY <2>4, GotoTyped DEF Actors, Places
  <2> HIDE DEF c
  <2> QED
    BY <2>1, <2>2, <2>3, <2>4, <2>5, ContTyped
<1>10. ASSUME NEW a \in Actors, RunBox(a)
       PROVE  BoxTypes'
  <2>1. /\ cmd[a].box \in Boxes /\ ledger[cmd[a].box] \in Entry
        /\ cont[cmd[a].box] \in ContType
    BY <1>10, Works DEF RunBox, At, Unmade, Unlisted, Actors, BoxTypes
  <2> DEFINE c == Baked(cmd[a].box)
  <2>2. c \in ContType
    BY <2>1 DEF BoxTypes, Baked, KeptFolders, ContType, Entry
  <2>3. cont' = [cont EXCEPT ![cmd[a].box] = c]
    BY <1>10, <2>1 DEF RunBox, BoxTypes
  <2>4. Goto(a, "fwd") /\ UNCHANGED <<ledger, tabs, world>>
    BY <1>10 DEF RunBox
  <2>5. cmd' \in [Actors -> CmdType]
    BY <2>4, GotoTyped DEF Actors, Places
  <2> HIDE DEF c
  <2> QED
    BY <2>1, <2>2, <2>3, <2>4, <2>5, ContTyped
<1>11. ASSUME NEW a \in Actors, BoxFails(a)
       PROVE  BoxTypes'
  <2>1. (Finish(a) \/ Resume(a)) /\ UNCHANGED <<ledger, tabs, world>>
    BY <1>11, FailureIs
  <2>2. cmd' \in [Actors -> CmdType]
    BY <2>1, FinishTyped, ResumeTyped DEF Actors, Places
  <2>3. CASE DropFails(a) \/ RunFails(a)
    <3>1. cont' = cont
      BY <2>3 DEF DropFails, RunFails
    <3> QED
      BY <2>1, <2>2, <3>1, SameTyped
  <2>4. CASE RunLeavesHusk(a)
    <3>1. cmd[a].box \in Boxes /\ ledger[cmd[a].box] \in Entry
      BY <2>4, Works DEF RunLeavesHusk, At, Unmade, Unlisted, Actors, BoxTypes
    <3> DEFINE c == [Baked(cmd[a].box) EXCEPT !.state = "down"]
    <3>2. c \in ContType
      BY <3>1 DEF BoxTypes, Baked, KeptFolders, ContType, Entry
    <3>3. cont' = [cont EXCEPT ![cmd[a].box] = c]
      BY <2>4, <3>1 DEF RunLeavesHusk, BoxTypes
    <3> HIDE DEF c
    <3> QED
      BY <2>1, <2>2, <3>1, <3>2, <3>3, ContTyped
  <2> QED
    BY <1>11, <2>3, <2>4 DEF BoxFails
<1>12. ASSUME NEW a \in Actors, LaunchForwarders(a)
       PROVE  BoxTypes'
  <2>1. /\ cmd[a].box \in Boxes /\ ledger[cmd[a].box] \in Entry
        /\ cont[cmd[a].box] \in ContType
    BY <1>12, Works
    DEF LaunchForwarders, At, Unmade, Unlisted, Actors, BoxTypes
  <2>6. PICK set \in Launched(cmd[a].box) :
           cont' = [cont EXCEPT ![cmd[a].box] =
                      Serving(@, ledger[cmd[a].box].pubs, set)]
    BY <1>12 DEF LaunchForwarders
  <2> DEFINE c == Serving(cont[cmd[a].box], ledger[cmd[a].box].pubs, set)
  <2>2. c \in ContType
    BY <2>1, ServingIs
  <2>3. cont' = [cont EXCEPT ![cmd[a].box] = c]
    BY <2>1, <2>6 DEF BoxTypes
  <2>4. Resume(a) /\ UNCHANGED <<ledger, tabs, world>>
    BY <1>12 DEF LaunchForwarders
  <2>5. cmd' \in [Actors -> CmdType]
    BY <2>4, ResumeTyped DEF Actors, Places
  <2> HIDE DEF c
  <2> QED
    BY <2>1, <2>2, <2>3, <2>4, <2>5, ContTyped
<1>13. ASSUME PlainStart
       PROVE  BoxTypes'
  <2>1. /\ cmd["inside"].box \in Boxes /\ ledger[cmd["inside"].box] \in Entry
        /\ cont[cmd["inside"].box] \in ContType
    BY <1>13, Works DEF PlainStart, At, Unmade, Unlisted, Actors, BoxTypes
  <2> DEFINE d == cmd["inside"].box
  <2>6. PICK set \in Launched(d) :
           cont' = [cont EXCEPT ![d] = Serving(@, ledger[d].pubs, set)]
    BY <1>13 DEF PlainStart
  <2> DEFINE c == Serving(cont[d], ledger[d].pubs, set)
  <2>2. c \in ContType
    BY <2>1, ServingIs
  <2>3. cont' = [cont EXCEPT ![cmd["inside"].box] = c]
    BY <2>1, <2>6 DEF BoxTypes
  <2>4. Finish("inside") /\ UNCHANGED <<ledger, tabs, world>>
    BY <1>13 DEF PlainStart
  <2>5. cmd' \in [Actors -> CmdType]
    BY <2>4, FinishTyped DEF Actors, Places
  <2> HIDE DEF c
  <2> QED
    BY <2>1, <2>2, <2>3, <2>4, <2>5, ContTyped
<1>14. ASSUME NEW b \in Boxes, Stop(b)
       PROVE  BoxTypes'
  <2>1. cont[b] \in ContType /\ cmd' \in [Actors -> CmdType]
    BY <1>14 DEF Stop, BoxTypes
  <2> DEFINE c == [cont[b] EXCEPT !.state = "down", !.fwd = {}]
  <2>2. c \in ContType
    BY <2>1 DEF ContType
  <2>3. cont' = [cont EXCEPT ![b] = c] /\ UNCHANGED <<ledger, tabs, world>>
    BY <1>14 DEF Stop, BoxTypes
  <2> HIDE DEF c
  <2> QED
    BY <2>1, <2>2, <2>3, ContTyped
<1>15. ASSUME NEW b \in Boxes, Restart(b)
       PROVE  BoxTypes'
  <2>1. PICK pc \in {"rm"}, app \in Apps, kind \in Kinds,
             set \in SUBSET Folders :
             cmd' = [cmd EXCEPT !["inside"] =
                       [verb |-> "restart", pc |-> pc, box |-> b, app |-> app,
                        kind |-> kind, set |-> set, todo |-> {}]]
    BY <1>15, BoxAssumption DEF Restart, Begin, Kinds
  <2> DEFINE c == [verb |-> "restart", pc |-> pc, box |-> b, app |-> app,
                   kind |-> kind, set |-> set, todo |-> {}]
  <2>2. c \in CmdType
    BY DEF CmdType, Verbs, Places
  <2>3. cmd' = [cmd EXCEPT !["inside"] = c]
    BY <2>1
  <2>4. UNCHANGED <<ledger, cont, tabs, world>>
    BY <1>15 DEF Restart
  <2> HIDE DEF c
  <2>5. cmd' \in [Actors -> CmdType]
    BY <2>2, <2>3, CmdTyped DEF Actors
  <2> QED
    BY <2>4, <2>5, SameTyped
<1>16. ASSUME NEW b \in Boxes, Start(b)
       PROVE  BoxTypes'
  <2>1. PICK pc \in {"rm", "start"}, app \in Apps, kind \in Kinds,
             set \in SUBSET Folders :
             cmd' = [cmd EXCEPT !["inside"] =
                       [verb |-> "start", pc |-> pc, box |-> b, app |-> app,
                        kind |-> kind, set |-> set, todo |-> {}]]
    BY <1>16, BoxAssumption DEF Start, Begin, Kinds
  <2> DEFINE c == [verb |-> "start", pc |-> pc, box |-> b, app |-> app,
                   kind |-> kind, set |-> set, todo |-> {}]
  <2>2. c \in CmdType
    BY DEF CmdType, Verbs, Places
  <2>3. cmd' = [cmd EXCEPT !["inside"] = c]
    BY <2>1
  <2>4. UNCHANGED <<ledger, cont, tabs, world>>
    BY <1>16 DEF Start
  <2> HIDE DEF c
  <2>5. cmd' \in [Actors -> CmdType]
    BY <2>2, <2>3, CmdTyped DEF Actors
  <2> QED
    BY <2>4, <2>5, SameTyped
<1>17. ASSUME NEW b \in Boxes, BoxAdd(b)
       PROVE  BoxTypes'
  <2>1. PICK pc \in {"wire", "save"}, app \in Apps, kind \in Kinds,
             set \in SUBSET Folders :
             cmd' = [cmd EXCEPT !["host"] =
                       [verb |-> "add", pc |-> pc, box |-> b, app |-> app,
                        kind |-> kind, set |-> set, todo |-> {}]]
    BY <1>17, BoxAssumption DEF BoxAdd, Begin, Kinds
  <2> DEFINE c == [verb |-> "add", pc |-> pc, box |-> b, app |-> app,
                   kind |-> kind, set |-> set, todo |-> {}]
  <2>2. c \in CmdType
    BY DEF CmdType, Verbs, Places
  <2>3. cmd' = [cmd EXCEPT !["host"] = c]
    BY <2>1
  <2>4. UNCHANGED <<ledger, cont, tabs, world>>
    BY <1>17 DEF BoxAdd
  <2> HIDE DEF c
  <2>5. cmd' \in [Actors -> CmdType]
    BY <2>2, <2>3, CmdTyped DEF Actors
  <2> QED
    BY <2>4, <2>5, SameTyped
<1>18. ASSUME WireBox
       PROVE  BoxTypes'
  <2>1. Goto("host", "save") /\ UNCHANGED <<ledger, cont, tabs>>
        /\ world' = [world EXCEPT !.staged = world.gitea]
    BY <1>18 DEF WireBox
  <2>2. cmd' \in [Actors -> CmdType]
    BY <2>1, GotoTyped DEF Actors, Places
  <2> QED
    BY <2>1, <2>2 DEF BoxTypes
<1>19. ASSUME RegisterWebTab
       PROVE  BoxTypes'
  <2>1. /\ cmd["host"].box \in Boxes /\ ledger[cmd["host"].box] \in Entry
        /\ WebApp \in Apps
    BY <1>19, Works, BoxAssumption
    DEF RegisterWebTab, At, Unmade, Unlisted, Actors
  <2> DEFINE pub == CHOOSE p \in ledger[cmd["host"].box].pubs : p[1] = WebApp
  <2>2. pub[2] \in Pubs
    <3>1. \E p \in ledger[cmd["host"].box].pubs : p[1] = WebApp
      BY <1>19, TabHas DEF RegisterWebTab, At
    <3>2. pub \in Publish
      BY <2>1, <3>1 DEF Entry
    <3> QED
      BY <3>2 DEF Publish
  <2>3. PICK web \in BOOLEAN :
           tabs' \subseteq tabs \cup {[box |-> cmd["host"].box, app |-> WebApp,
                                    pub |-> pub[2], web |-> web]}
    BY <1>19 DEF RegisterWebTab, pub
  <2>4. Finish("host") /\ UNCHANGED <<ledger, cont, world>>
    BY <1>19 DEF RegisterWebTab
  <2>5. cmd' \in [Actors -> CmdType]
    BY <2>4, FinishTyped DEF Actors
  <2> HIDE DEF pub
  <2>6. tabs' \in SUBSET TabType
    BY <2>1, <2>2, <2>3 DEF BoxTypes, TabType
  <2> QED
    BY <2>4, <2>5, <2>6, TabsTyped
<1>20. ASSUME NEW b \in Boxes, PortAdd(b)
       PROVE  BoxTypes'
  <2>1. PICK pc \in {"save"}, app \in Apps, kind \in Kinds,
             set \in SUBSET Folders :
             cmd' = [cmd EXCEPT !["host"] =
                       [verb |-> "expose", pc |-> pc, box |-> b, app |-> app,
                        kind |-> kind, set |-> set, todo |-> {}]]
    BY <1>20, BoxAssumption DEF PortAdd, Begin, Kinds
  <2> DEFINE c == [verb |-> "expose", pc |-> pc, box |-> b, app |-> app,
                   kind |-> kind, set |-> set, todo |-> {}]
  <2>2. c \in CmdType
    BY DEF CmdType, Verbs, Places
  <2>3. cmd' = [cmd EXCEPT !["host"] = c]
    BY <2>1
  <2>4. UNCHANGED <<ledger, cont, tabs, world>>
    BY <1>20 DEF PortAdd
  <2> HIDE DEF c
  <2>5. cmd' \in [Actors -> CmdType]
    BY <2>2, <2>3, CmdTyped DEF Actors
  <2> QED
    BY <2>4, <2>5, SameTyped
<1>21. ASSUME PortRow
       PROVE  BoxTypes'
  <2>1. /\ cmd["host"].box \in Boxes /\ ledger[cmd["host"].box] \in Entry
        /\ cmd["host"].app \in Apps
    BY <1>21, Works, BoxAssumption DEF PortRow, At, Unmade, Unlisted, Actors
  <2> DEFINE pub == CHOOSE p \in ledger[cmd["host"].box].pubs :
                       p[1] = cmd["host"].app
  <2>2. pub[2] \in Pubs
    <3>1. \E p \in ledger[cmd["host"].box].pubs : p[1] = cmd["host"].app
      BY <1>21, TabHas DEF PortRow, At
    <3>2. pub \in Publish
      BY <2>1, <3>1 DEF Entry
    <3> QED
      BY <3>2 DEF Publish
  <2>3. PICK web \in BOOLEAN :
           tabs' \subseteq tabs \cup
              {[box |-> cmd["host"].box, app |-> cmd["host"].app,
                                    pub |-> pub[2], web |-> web]}
    BY <1>21 DEF PortRow, pub
  <2>4. Finish("host") /\ UNCHANGED <<ledger, cont, world>>
    BY <1>21 DEF PortRow
  <2>5. cmd' \in [Actors -> CmdType]
    BY <2>4, FinishTyped DEF Actors
  <2> HIDE DEF pub
  <2>6. tabs' \in SUBSET TabType
    BY <2>1, <2>2, <2>3 DEF BoxTypes, TabType
  <2> QED
    BY <2>4, <2>5, <2>6, TabsTyped
<1>22. ASSUME PortRemove
       PROVE  BoxTypes'
  <2>1. PICK t \in tabs :
           cmd' = [cmd EXCEPT !["host"] =
                     [verb |-> "unexpose", pc |-> "save", box |-> t.box,
                      app |-> t.app, kind |-> "plain", set |-> {},
                      todo |-> {}]]
    BY <1>22 DEF PortRemove, Begin
  <2> DEFINE c == [verb |-> "unexpose", pc |-> "save", box |-> t.box,
                   app |-> t.app, kind |-> "plain", set |-> {}, todo |-> {}]
  <2>2. t.box \in Boxes /\ t.app \in Apps
    BY DEF BoxTypes, TabType
  <2>3. c \in CmdType
    BY <2>2 DEF CmdType, Verbs, Places, Kinds
  <2>4. cmd' = [cmd EXCEPT !["host"] = c]
    BY <2>1
  <2>5. UNCHANGED <<ledger, cont, tabs, world>>
    BY <1>22 DEF PortRemove
  <2> HIDE DEF c
  <2>6. cmd' \in [Actors -> CmdType]
    BY <2>3, <2>4, CmdTyped DEF Actors
  <2> QED
    BY <2>5, <2>6, SameTyped
<1>23. ASSUME PortDrop
       PROVE  BoxTypes'
  <2>1. /\ tabs' \subseteq tabs /\ Finish("host")
        /\ UNCHANGED <<ledger, cont, world>>
    BY <1>23 DEF PortDrop
  <2>2. cmd' \in [Actors -> CmdType] /\ tabs' \in SUBSET TabType
    BY <2>1, FinishTyped DEF Actors, BoxTypes
  <2> QED
    BY <2>1, <2>2, TabsTyped
<1>24. ASSUME NEW b \in Boxes, BoxFolders(b)
       PROVE  BoxTypes'
  <2>1. PICK pc \in {"save"}, app \in Apps, kind \in Kinds,
             set \in SUBSET Folders :
             cmd' = [cmd EXCEPT !["host"] =
                       [verb |-> "folders", pc |-> pc, box |-> b, app |-> app,
                        kind |-> kind, set |-> set, todo |-> {}]]
    BY <1>24, BoxAssumption DEF BoxFolders, Begin, Kinds
  <2> DEFINE c == [verb |-> "folders", pc |-> pc, box |-> b, app |-> app,
                   kind |-> kind, set |-> set, todo |-> {}]
  <2>2. c \in CmdType
    BY DEF CmdType, Verbs, Places
  <2>3. cmd' = [cmd EXCEPT !["host"] = c]
    BY <2>1
  <2>4. UNCHANGED <<ledger, cont, tabs, world>>
    BY <1>24 DEF BoxFolders
  <2> HIDE DEF c
  <2>5. cmd' \in [Actors -> CmdType]
    BY <2>2, <2>3, CmdTyped DEF Actors
  <2> QED
    BY <2>4, <2>5, SameTyped
<1>25. ASSUME NEW b \in Boxes, BoxRemove(b)
       PROVE  BoxTypes'
  <2>1. PICK pc \in {"kill"}, app \in Apps, kind \in Kinds,
             set \in SUBSET Folders :
             cmd' = [cmd EXCEPT !["host"] =
                       [verb |-> "remove", pc |-> pc, box |-> b, app |-> app,
                        kind |-> kind, set |-> set, todo |-> {}]]
    BY <1>25, BoxAssumption DEF BoxRemove, Begin, Kinds
  <2> DEFINE c == [verb |-> "remove", pc |-> pc, box |-> b, app |-> app,
                   kind |-> kind, set |-> set, todo |-> {}]
  <2>2. c \in CmdType
    BY DEF CmdType, Verbs, Places
  <2>3. cmd' = [cmd EXCEPT !["host"] = c]
    BY <2>1
  <2>4. UNCHANGED <<ledger, cont, tabs, world>>
    BY <1>25 DEF BoxRemove
  <2> HIDE DEF c
  <2>5. cmd' \in [Actors -> CmdType]
    BY <2>2, <2>3, CmdTyped DEF Actors
  <2> QED
    BY <2>4, <2>5, SameTyped
<1>26. ASSUME DiscardContainer
       PROVE  BoxTypes'
  <2>1. cmd["host"].box \in Boxes /\ cont[cmd["host"].box] \in ContType
    BY <1>26, Works
    DEF DiscardContainer, At, Unmade, Unlisted, Actors, BoxTypes
  <2> DEFINE old == cont[cmd["host"].box]
             c == [old EXCEPT !.missed = @ \cup {"rm"}]
  <2>2. Gone \in ContType /\ c \in ContType
    BY <2>1 DEF Gone, ContType
  <2>3. \/ cont' = [cont EXCEPT ![cmd["host"].box] = Gone]
        \/ cont' = [cont EXCEPT ![cmd["host"].box] = c]
    BY <1>26, <2>1 DEF DiscardContainer, BoxTypes
  <2>4. Goto("host", "del") /\ UNCHANGED <<ledger, tabs, world>>
    BY <1>26 DEF DiscardContainer
  <2>5. cmd' \in [Actors -> CmdType]
    BY <2>4, GotoTyped DEF Actors, Places
  <2> HIDE DEF c
  <2> QED
    BY <2>1, <2>2, <2>3, <2>4, <2>5, ContTyped
<1>27. ASSUME DiscardEntry
       PROVE  BoxTypes'
  <2>1. /\ cmd["host"].box \in Boxes
        /\ ledger' = [ledger EXCEPT ![cmd["host"].box] = NoEntry]
        /\ Goto("host", "sweep") /\ UNCHANGED <<cont, tabs, world>>
    BY <1>27, Works DEF DiscardEntry, At, Actors
  <2>2. cmd' \in [Actors -> CmdType]
    BY <2>1, GotoTyped DEF Actors, Places
  <2> QED
    BY <2>1, <2>2, LedgerTyped
<1>28. ASSUME SweepTabs
       PROVE  BoxTypes'
  <2>1. /\ tabs' \subseteq tabs /\ Finish("host")
        /\ UNCHANGED <<ledger, cont, world>>
    BY <1>28 DEF SweepTabs
  <2>2. cmd' \in [Actors -> CmdType] /\ tabs' \in SUBSET TabType
    BY <2>1, FinishTyped DEF Actors, BoxTypes
  <2> QED
    BY <2>1, <2>2, TabsTyped
<1>29. ASSUME Recreate
       PROVE  BoxTypes'
  <2>1. cmd' \in [Actors -> CmdType]
    BY <1>29, BoxAssumption
       DEF Recreate, Scar, Idle, CmdType, Verbs, Places, Kinds, Actors, Saved
  <2>2. cont' = [b \in Boxes |-> Gone] /\ UNCHANGED <<ledger, tabs, world>>
    BY <1>29 DEF Recreate, Scar, Idle, Actors, Saved
  <2>3. cont' \in [Boxes -> ContType]
    BY <2>2 DEF Gone, ContType
  <2> QED
    BY <2>1, <2>2, <2>3 DEF BoxTypes
<1>30. ASSUME Attach
       PROVE  BoxTypes'
  <2>1. /\ cmd' = [cmd EXCEPT !["host"] =
                     [Idle EXCEPT !.verb = "attach", !.pc = "loop",
                                  !.todo = {b \in Boxes : NeedsGitea(b)}]]
        /\ world' = [world EXCEPT !.staged = world.gitea]
        /\ UNCHANGED <<ledger, cont, tabs>>
    BY <1>30 DEF Attach
  <2>2. [Idle EXCEPT !.verb = "attach", !.pc = "loop",
                     !.todo = {b \in Boxes : NeedsGitea(b)}] \in CmdType
    BY BoxAssumption DEF Idle, CmdType, Verbs, Places, Kinds
  <2>3. cmd' \in [Actors -> CmdType]
    BY ONLY <2>1, <2>2, BoxTypes DEF BoxTypes, Actors
  <2> QED
    BY <2>1, <2>3 DEF BoxTypes
<1>31. ASSUME LoopBox
       PROVE  BoxTypes'
  <2>1. PICK b \in cmd["host"].todo :
           \E to \in {NoBox, b}, pc \in {"loop", "rm"} :
              cmd' = [cmd EXCEPT !["host"].todo = @ \ {b},
                              !["host"].box = to, !["host"].pc = pc]
    BY <1>31 DEF LoopBox
  <2>0. PICK to \in {NoBox, b}, pc \in {"loop", "rm"} :
           cmd' = [cmd EXCEPT !["host"].todo = @ \ {b},
                              !["host"].box = to, !["host"].pc = pc]
    BY <2>1
  <2> DEFINE c == [cmd["host"] EXCEPT !.todo = @ \ {b}, !.box = to, !.pc = pc]
  <2>2. cmd["host"] \in CmdType /\ to \in Boxes \cup {NoBox}
    BY DEF BoxTypes, Actors, CmdType
  <2>3. c \in CmdType
    BY <2>2 DEF CmdType, Places
  <2>4. cmd' = [cmd EXCEPT !["host"] = c]
    BY <2>0 DEF BoxTypes, Actors
  <2> HIDE DEF c
  <2>5. cmd' \in [Actors -> CmdType]
    BY ONLY <2>3, <2>4, BoxTypes DEF BoxTypes, Actors
  <2>6. UNCHANGED <<ledger, cont, tabs, world>>
    BY <1>31 DEF LoopBox
  <2> QED
    BY <2>5, <2>6, SameTyped
<1>32. ASSUME LoopEnds
       PROVE  BoxTypes'
  <2>1. Finish("host") /\ UNCHANGED <<ledger, cont, tabs, world>>
    BY <1>32 DEF LoopEnds
  <2> QED
    BY <2>1, FinishTyped, SameTyped DEF Actors, Places
<1>33. ASSUME GiteaMoves
       PROVE  BoxTypes'
  BY <1>33 DEF GiteaMoves, BoxTypes
<1>34. ASSUME NEW f \in Folders, FolderChanges(f)
       PROVE  BoxTypes'
  BY <1>34 DEF FolderChanges, BoxTypes
<1>35. ASSUME NEW b \in Boxes, BoxRestarts(b)
       PROVE  BoxTypes'
  <2>1. cont[b] \in ContType /\ cmd' \in [Actors -> CmdType]
    BY <1>35 DEF BoxRestarts, BoxTypes
  <2> DEFINE c == [cont[b] EXCEPT !.fwd = {}]
  <2>2. c \in ContType
    BY <2>1 DEF ContType
  <2>3. cont' = [cont EXCEPT ![b] = c] /\ UNCHANGED <<ledger, tabs, world>>
    BY <1>35 DEF BoxRestarts, BoxTypes
  <2> HIDE DEF c
  <2> QED
    BY <2>1, <2>2, <2>3, ContTyped
<1>36. CASE UNCHANGED vars
  BY <1>36 DEF vars, BoxTypes
<1> QED
  BY ONLY <1>1, <1>2, <1>3, <1>4, <1>5, <1>6, <1>7, <1>8, <1>9, <1>10, <1>11,
  <1>12, <1>13, <1>14, <1>15, <1>16, <1>17, <1>18, <1>19, <1>20, <1>21,
  <1>22, <1>23, <1>24, <1>25, <1>26, <1>27, <1>28, <1>29, <1>30, <1>31,
  <1>32, <1>33, <1>34, <1>35, <1>36,
     [Next]_vars DEF Next, LedgerStep, RunStep, HostStep, Request, BoxFails,
                      Actors

-----------------------------------------------------------------------------
(* The boxes: the two commands                                             *)

(* A command that ends or goes on takes no box more.                       *)
LEMMA ApartLess ==
    ASSUME BoxTypes, CmdKnows, NEW a \in Actors,
           Finish(a) \/ Resume(a) \/ (\E to : Goto(a, to)) \/ UNCHANGED cmd
    PROVE  Apart'
<1>1. Apart /\ cmd["inside"] \in CmdType /\ cmd["host"] \in CmdType
  BY DEF CmdKnows, BoxTypes, Actors
<1>2. CASE UNCHANGED cmd
  BY <1>1, <1>2 DEF Apart
<1>3. ASSUME NEW to, NEW box \in {cmd[a].box, NoBox},
             \A e \in Actors \ {a} : cmd'[e] = cmd[e],
             \/ cmd'[a] = Idle
             \/ /\ cmd'[a].verb = cmd[a].verb /\ cmd'[a].box = box
                /\ cmd'[a].todo = cmd[a].todo
      PROVE  Apart'
  BY <1>1, <1>3 DEF Apart, Actors, Idle
<1>4. CASE Finish(a)
  BY <1>3, <1>4 DEF Finish, BoxTypes
<1>5. ASSUME NEW to, Goto(a, to) PROVE Apart'
  BY <1>3, <1>5 DEF Goto, BoxTypes, CmdType
<1>6. ASSUME cmd' = [cmd EXCEPT ![a].pc = "loop", ![a].box = NoBox]
      PROVE  Apart'
  BY <1>3, <1>6 DEF BoxTypes, CmdType
<1> QED
  BY <1>2, <1>4, <1>5, <1>6 DEF Resume

(* A command that begins takes a box that no other has.                    *)
LEMMA ApartBegin ==
    ASSUME CmdKnows, NEW a \in Actors, cmd'[a].box \notin Busy,
           \A e \in Actors \ {a} : cmd'[e] = cmd[e], cmd'[a].todo = {},
           cmd'[a].verb \in {"restart", "start"} <=> a = "inside"
    PROVE  Apart'
<1>1. Apart /\ \A e \in Actors : /\ cmd'[a].box # cmd[e].box
                                 /\ cmd'[a].box \notin cmd[e].todo
  BY DEF CmdKnows, Busy
<1> QED
  BY <1>1 DEF Apart, Actors

(* Every step keeps the commands apart.                                    *)
LEMMA ApartStep ==
    ASSUME BoxTypes, CmdKnows,
           [Next]_vars
    PROVE  Apart'
<1>1. ASSUME NEW a \in Actors, CommandDies(a)
       PROVE  Apart'
  BY <1>1, ApartLess DEF CommandDies
<1>2. ASSUME CreateSave("host")
       PROVE  Apart'
  BY <1>2, ApartLess DEF CreateSave, Actors
<1>3. ASSUME ExposeAgain("host")
       PROVE  Apart'
  BY <1>3, ApartLess DEF ExposeAgain, Actors
<1>4. ASSUME ExposeSave("host")
       PROVE  Apart'
  BY <1>4, ApartLess DEF ExposeSave, Actors
<1>5. ASSUME UnexposeSave("host")
       PROVE  Apart'
  BY <1>5, ApartLess DEF UnexposeSave, Actors
<1>6. ASSUME FoldersSame("host")
       PROVE  Apart'
  BY <1>6, ApartLess DEF FoldersSame, Actors
<1>7. ASSUME FoldersSave("host")
       PROVE  Apart'
  BY <1>7, ApartLess DEF FoldersSave, Actors
<1>8. ASSUME PoolEmpty("host")
       PROVE  Apart'
  BY <1>8, ApartLess DEF PoolEmpty, Actors
<1>9. ASSUME NEW a \in Actors, DropContainer(a)
       PROVE  Apart'
  BY <1>9, ApartLess DEF DropContainer
<1>10. ASSUME NEW a \in Actors, RunBox(a)
       PROVE  Apart'
  BY <1>10, ApartLess DEF RunBox
<1>11. ASSUME NEW a \in Actors, BoxFails(a)
       PROVE  Apart'
  BY <1>11, ApartLess, FailureIs
<1>12. ASSUME NEW a \in Actors, LaunchForwarders(a)
       PROVE  Apart'
  BY <1>12, ApartLess DEF LaunchForwarders
<1>13. ASSUME PlainStart
       PROVE  Apart'
  BY <1>13, ApartLess DEF PlainStart, Actors
<1>14. ASSUME NEW b \in Boxes, Stop(b)
       PROVE  Apart'
  BY <1>14, ApartLess DEF Stop, Actors
<1>15. ASSUME NEW b \in Boxes, Restart(b)
       PROVE  Apart'
  <2>1. /\ cmd'["inside"].box \notin Busy
        /\ cmd'["host"] = cmd["host"] /\ cmd'["inside"].todo = {}
        /\ cmd'["inside"].verb = "restart"
    BY <1>15 DEF Restart, Begin, BoxTypes, Actors
  <2> QED
    BY <2>1, ApartBegin DEF Actors
<1>16. ASSUME NEW b \in Boxes, Start(b)
       PROVE  Apart'
  <2>1. /\ cmd'["inside"].box \notin Busy
        /\ cmd'["host"] = cmd["host"] /\ cmd'["inside"].todo = {}
        /\ cmd'["inside"].verb = "start"
    BY <1>16 DEF Start, Begin, BoxTypes, Actors
  <2> QED
    BY <2>1, ApartBegin DEF Actors
<1>17. ASSUME NEW b \in Boxes, BoxAdd(b)
       PROVE  Apart'
  <2>1. /\ cmd'["host"].box \notin Busy
        /\ cmd'["inside"] = cmd["inside"] /\ cmd'["host"].todo = {}
        /\ cmd'["host"].verb = "add"
    BY <1>17 DEF BoxAdd, Begin, BoxTypes, Actors
  <2> QED
    BY <2>1, ApartBegin DEF Actors
<1>18. ASSUME WireBox
       PROVE  Apart'
  BY <1>18, ApartLess DEF WireBox, Actors
<1>19. ASSUME RegisterWebTab
       PROVE  Apart'
  BY <1>19, ApartLess DEF RegisterWebTab, Actors
<1>20. ASSUME NEW b \in Boxes, PortAdd(b)
       PROVE  Apart'
  <2>1. /\ cmd'["host"].box \notin Busy
        /\ cmd'["inside"] = cmd["inside"] /\ cmd'["host"].todo = {}
        /\ cmd'["host"].verb = "expose"
    BY <1>20 DEF PortAdd, Begin, BoxTypes, Actors
  <2> QED
    BY <2>1, ApartBegin DEF Actors
<1>21. ASSUME PortRow
       PROVE  Apart'
  BY <1>21, ApartLess DEF PortRow, Actors
<1>22. ASSUME PortRemove
       PROVE  Apart'
  <2>1. /\ cmd'["host"].box \notin Busy
        /\ cmd'["inside"] = cmd["inside"] /\ cmd'["host"].todo = {}
        /\ cmd'["host"].verb = "unexpose"
    BY <1>22 DEF PortRemove, Begin, BoxTypes, Actors
  <2> QED
    BY <2>1, ApartBegin DEF Actors
<1>23. ASSUME PortDrop
       PROVE  Apart'
  BY <1>23, ApartLess DEF PortDrop, Actors
<1>24. ASSUME NEW b \in Boxes, BoxFolders(b)
       PROVE  Apart'
  <2>1. /\ cmd'["host"].box \notin Busy
        /\ cmd'["inside"] = cmd["inside"] /\ cmd'["host"].todo = {}
        /\ cmd'["host"].verb = "folders"
    BY <1>24 DEF BoxFolders, Begin, BoxTypes, Actors
  <2> QED
    BY <2>1, ApartBegin DEF Actors
<1>25. ASSUME NEW b \in Boxes, BoxRemove(b)
       PROVE  Apart'
  <2>1. /\ cmd'["host"].box \notin Busy
        /\ cmd'["inside"] = cmd["inside"] /\ cmd'["host"].todo = {}
        /\ cmd'["host"].verb = "remove"
    BY <1>25 DEF BoxRemove, Begin, BoxTypes, Actors
  <2> QED
    BY <2>1, ApartBegin DEF Actors
<1>26. ASSUME DiscardContainer
       PROVE  Apart'
  BY <1>26, ApartLess DEF DiscardContainer, Actors
<1>27. ASSUME DiscardEntry
       PROVE  Apart'
  BY <1>27, ApartLess DEF DiscardEntry, Actors
<1>28. ASSUME SweepTabs
       PROVE  Apart'
  BY <1>28, ApartLess DEF SweepTabs, Actors
<1>29. ASSUME Recreate
       PROVE  Apart'
  <2>1. cmd'["inside"] = Idle /\ cmd'["host"].verb = "recreate"
    BY <1>29 DEF Recreate, Scar, Idle, Actors, Saved
  <2> QED
    BY <2>1 DEF Apart, Idle
<1>30. ASSUME Attach
       PROVE  Apart'
  <2>1. cmd'["inside"] = Idle /\ cmd'["host"].verb = "attach"
    BY <1>30 DEF Attach, Idle, Actors, BoxTypes
  <2> QED
    BY <2>1 DEF Apart, Idle
<1>31. ASSUME LoopBox
       PROVE  Apart'
  <2>1. PICK b \in cmd["host"].todo : \E to \in {NoBox, b} :
           /\ cmd'["host"].verb = cmd["host"].verb /\ cmd'["host"].box = to
           /\ cmd'["host"].todo \subseteq cmd["host"].todo
           /\ cmd'["inside"] = cmd["inside"]
    BY <1>31 DEF LoopBox, BoxTypes, CmdType, Actors
  <2> QED
    BY <2>1 DEF Apart, CmdKnows
<1>32. ASSUME LoopEnds
       PROVE  Apart'
  BY <1>32, ApartLess DEF LoopEnds, Actors
<1>33. ASSUME GiteaMoves
       PROVE  Apart'
  BY <1>33, ApartLess DEF GiteaMoves, Actors
<1>34. ASSUME NEW f \in Folders, FolderChanges(f)
       PROVE  Apart'
  BY <1>34, ApartLess DEF FolderChanges, Actors
<1>35. ASSUME NEW b \in Boxes, BoxRestarts(b)
       PROVE  Apart'
  BY <1>35, ApartLess DEF BoxRestarts, Actors
<1>36. CASE UNCHANGED vars
  BY <1>36, ApartLess DEF vars, Actors
<1> QED
  BY ONLY <1>1, <1>2, <1>3, <1>4, <1>5, <1>6, <1>7, <1>8, <1>9, <1>10, <1>11,
  <1>12, <1>13, <1>14, <1>15, <1>16, <1>17, <1>18, <1>19, <1>20, <1>21,
  <1>22, <1>23, <1>24, <1>25, <1>26, <1>27, <1>28, <1>29, <1>30, <1>31,
  <1>32, <1>33, <1>34, <1>35, <1>36,
     [Next]_vars DEF Next, LedgerStep, RunStep, HostStep, Request, BoxFails,
                      Actors

(* What a command knows stands while nothing of its box changes.           *)
LEMMA KnowsKept ==
    ASSUME BoxTypes, NEW e \in Actors, Knows(e), cmd'[e] = cmd[e],
           cmd[e].box # NoBox => ledger'[cmd[e].box] = ledger[cmd[e].box],
           \A b \in cmd[e].todo : Saved(b)',
           cmd[e].verb = "unexpose" => tabs' \subseteq tabs
    PROVE  Knows(e)'
<1> USE BoxAssumption DEF Knows, Saved
<1>1. Unmade(cmd[e])' = Unmade(cmd[e]) /\ Unlisted(cmd[e])' = Unlisted(cmd[e])
  BY DEF Unmade, Unlisted
<1>2. cmd[e].verb = "none" => cmd[e] = Idle
  OBVIOUS
<1>3. cmd[e].verb \in {"add", "expose", "unexpose"} => cmd[e].box # NoBox
  BY DEF StepsOf, Running
<1> QED
  BY <1>1, <1>2, <1>3, Idle' = Idle DEF Idle

(* An idle command knows nothing.                                          *)
LEMMA KnowsIdle ==
    ASSUME NEW e \in Actors, cmd'[e] = Idle
    PROVE  Knows(e)'
BY DEF Knows, Idle, StepsOf

(* A command that goes on, with no file changed.                           *)
LEMMA KnowsOn ==
    ASSUME BoxTypes, NEW e \in Actors, Knows(e), NEW to,
           cmd'[e] = [cmd[e] EXCEPT !.pc = to],
           to \in StepsOf(cmd[e].verb), to \notin {"idle", "loop"},
           cmd[e].pc \notin {"idle", "loop"},
           to = "tab" => cmd[e].kind = "web",
           cmd[e].verb = "add" =>
              (cmd[e].pc \in {"wire", "save"} <=> to \in {"wire", "save"}),
           cmd[e].pc = "sweep" <=> to = "sweep",
           cmd[e].verb = "expose" /\ to # "save" =>
              cmd[e].app \in AppsOf(ledger[cmd[e].box].pubs),
           UNCHANGED <<ledger, tabs>>
    PROVE  Knows(e)'
<1>0. cmd[e] \in CmdType
  BY DEF BoxTypes
<1>1. /\ cmd'[e].pc = to /\ cmd'[e].verb = cmd[e].verb
      /\ cmd'[e].box = cmd[e].box /\ cmd'[e].app = cmd[e].app
      /\ cmd'[e].kind = cmd[e].kind /\ cmd'[e].todo = cmd[e].todo
  BY <1>0 DEF CmdType
<1>2. cmd[e].verb # "none"
  BY DEF StepsOf
<1>3. (Unmade(cmd[e]) \/ Unlisted(cmd[e]))'
         <=> Unmade(cmd[e]) \/ Unlisted(cmd[e])
  BY <1>1 DEF Unmade, Unlisted
<1> QED
  BY <1>1, <1>2, <1>3 DEF Knows, Saved

(* A command goes on after its box runs with what it knew.                 *)
LEMMA KnowsRuns ==
    ASSUME BoxTypes, NEW a \in Actors, Knows(a), Resume(a),
           cmd[a].pc \in Running, UNCHANGED <<ledger, tabs>>
    PROVE  Knows(a)'
<1>0. cmd[a] \in CmdType
  BY DEF BoxTypes
<1>1. CASE Finish(a)
  <2>1. cmd'[a] = Idle
    BY <1>1 DEF Finish, BoxTypes
  <2> QED
    BY <2>1, KnowsIdle
<1>2. CASE /\ cmd' = [cmd EXCEPT ![a].pc = "loop", ![a].box = NoBox]
           /\ cmd[a].verb \in {"attach", "recreate"}
  <2>1. /\ cmd'[a].pc = "loop" /\ cmd'[a].verb = cmd[a].verb
        /\ cmd'[a].box = NoBox /\ cmd'[a].todo = cmd[a].todo
    BY <1>2 DEF BoxTypes, CmdType
  <2>2. "loop" \in StepsOf(cmd[a].verb)
    BY <1>2 DEF StepsOf
  <2> QED
    BY <1>2, <2>1, <2>2 DEF Knows, Saved
<1>3. ASSUME NEW to \in {"tab", "row"}, Goto(a, to),
             to = "tab" => cmd[a].verb = "add" /\ cmd[a].kind = "web",
             to = "row" => cmd[a].verb \in {"expose", "unexpose"}
      PROVE  Knows(a)'
  <2>1. cmd'[a] = [cmd[a] EXCEPT !.pc = to]
    BY <1>3 DEF Goto, BoxTypes
  <2>2. to \in StepsOf(cmd[a].verb)
    BY <1>3 DEF StepsOf
  <2>3. cmd[a].verb = "expose" => cmd[a].app \in AppsOf(ledger[cmd[a].box].pubs)
    BY DEF Knows, Running
  <2> QED
    BY <1>3, <2>1, <2>2, <2>3, KnowsOn DEF Running
<1> QED
  BY <1>1, <1>2, <1>3 DEF Resume, After

(* A command that ends or goes on leaves the other as it is.               *)
LEMMA ResumeOthers ==
    ASSUME BoxTypes, NEW a \in Actors, Resume(a) \/ Finish(a),
           NEW e \in Actors, e # a
    PROVE  cmd'[e] = cmd[e]
BY DEF BoxTypes, Resume, Finish, Goto

(* The command typed inside reads neither the rows nor another box.        *)
LEMMA InsideKept ==
    ASSUME BoxTypes, CmdKnows, cmd'["inside"] = cmd["inside"],
           cmd["inside"].box # NoBox =>
              ledger'[cmd["inside"].box] = ledger[cmd["inside"].box]
    PROVE  Knows("inside")'
<1>1. Knows("inside") /\ "inside" \in Actors
  BY DEF CmdKnows, Actors
<1>2. cmd["inside"].todo = {} /\ cmd["inside"].verb # "unexpose"
  BY DEF CmdKnows, Apart
<1> QED
  BY ONLY <1>1, <1>2, BoxTypes, KnowsKept, cmd'["inside"] = cmd["inside"],
     cmd["inside"].box # NoBox =>
        ledger'[cmd["inside"].box] = ledger[cmd["inside"].box]

(* Nor does either of a step that writes neither ledger nor rows.          *)
LEMMA OthersKept ==
    ASSUME BoxTypes, CmdKnows, NEW a \in Actors, NEW e \in Actors \ {a},
           cmd'[e] = cmd[e], UNCHANGED <<ledger, tabs>>
    PROVE  Knows(e)'
<1>1. Knows(e) /\ e \in Actors
  BY DEF CmdKnows
<1>2. \A b \in cmd[e].todo : Saved(b)'
  BY <1>1 DEF Knows, Saved
<1> QED
  BY <1>1, <1>2, KnowsKept

(* The steps for which the proof needs the lemmas above.                   *)
LongStep ==
    \/ ExposeAgain("host") \/ ExposeSave("host") \/ UnexposeSave("host")
    \/ FoldersSave("host") \/ WireBox \/ DiscardContainer \/ DiscardEntry
    \/ Attach
    \/ \E a \in Actors : \/ DropContainer(a) \/ RunBox(a) \/ BoxFails(a)
                         \/ LaunchForwarders(a) \/ CommandDies(a)

(* The steps that run a box leave both with what they knew.                *)
LEMMA LongKnows ==
    ASSUME BoxTypes, CmdKnows, LongStep, NEW e \in Actors
    PROVE  Knows(e)'
<1>0. Knows("host") /\ Knows("inside") /\ Knows(e)
  BY DEF CmdKnows, Actors
<1>1. ASSUME ExposeAgain("host") PROVE Knows(e)'
  <2>1. /\ cmd["host"].verb = "expose" /\ cmd["host"].pc = "save"
        /\ cmd["host"].app \in AppsOf(ledger[cmd["host"].box].pubs)
        /\ cmd' = [cmd EXCEPT !["host"].pc = "row"]
        /\ UNCHANGED <<ledger, tabs>>
    BY <1>1 DEF ExposeAgain, At, Goto
  <2>2. "row" \in StepsOf(cmd["host"].verb)
    BY <2>1 DEF StepsOf
  <2>3. /\ cmd'["host"] = [cmd["host"] EXCEPT !.pc = "row"]
        /\ cmd'["inside"] = cmd["inside"]
    BY <2>1 DEF BoxTypes, Actors
  <2>4. Knows("host")'
    BY <1>0, <2>1, <2>2, <2>3, KnowsOn DEF Actors
  <2> QED
    BY <2>1, <2>3, <2>4, InsideKept DEF Actors
<1>2. ASSUME NEW set, NEW field \in {"pubs", "folders"}, NEW to,
             cmd["host"].pc = "save",
             cmd["host"].verb \in {"expose", "unexpose", "folders"},
             to \in {"rm", "row"}, to = "row" => cmd["host"].verb = "unexpose",
             field = "pubs" => set \in SUBSET Publish,
             field = "folders" => set \in SUBSET Folders,
             cmd["host"].verb = "expose" =>
                field = "pubs" /\ cmd["host"].app \in AppsOf(set),
             ledger' = [ledger EXCEPT ![cmd["host"].box] =
                          IF field = "pubs" THEN [@ EXCEPT !.pubs = set]
                          ELSE [@ EXCEPT !.folders = set]],
             cmd' = [cmd EXCEPT !["host"].pc = to], UNCHANGED tabs
      PROVE  Knows(e)'
  <2>1. /\ cmd["host"].box \in Boxes /\ ledger[cmd["host"].box] \in Entry
        /\ cmd["host"] \in CmdType
    BY <1>2, Works DEF Actors, Unmade, Unlisted, BoxTypes
  <2>2. /\ cmd'["host"] = [cmd["host"] EXCEPT !.pc = to]
        /\ cmd'["inside"] = cmd["inside"]
    BY <1>2 DEF BoxTypes, Actors
  <2>3. ledger'[cmd["host"].box] =
           IF field = "pubs" THEN [ledger[cmd["host"].box] EXCEPT !.pubs = set]
           ELSE [ledger[cmd["host"].box] EXCEPT !.folders = set]
    BY <1>2, <2>1 DEF BoxTypes
  <2>4. /\ ledger'[cmd["host"].box] \in Entry
        /\ field = "pubs" => ledger'[cmd["host"].box].pubs = set
    BY <1>2, <2>1, <2>3 DEF Entry
  <2>5. \A b \in Boxes \ {cmd["host"].box} : ledger'[b] = ledger[b]
    BY <1>2 DEF BoxTypes
  <2>6. Knows("inside")'
    <3>1. cmd["inside"].box # NoBox =>
             cmd["inside"].box \in Boxes \ {cmd["host"].box}
      BY DEF CmdKnows, Apart, BoxTypes, CmdType, Actors
    <3> QED
      BY <2>2, <2>5, <3>1, InsideKept
  <2>7. Knows("host")'
    <3>1. /\ cmd'["host"].pc = to /\ cmd'["host"].verb = cmd["host"].verb
          /\ cmd'["host"].box = cmd["host"].box
          /\ cmd'["host"].app = cmd["host"].app
          /\ cmd'["host"].todo = cmd["host"].todo
      BY <2>1, <2>2 DEF CmdType
    <3>2. to \in StepsOf(cmd["host"].verb) /\ to \notin {"idle", "loop", "tab"}
      BY <1>2 DEF StepsOf, Running
    <3>3. cmd["host"].todo = {}
      BY <1>0, <1>2 DEF Knows
    <3>4. Saved(cmd["host"].box)' /\ cmd["host"].box # NoBox
      BY <2>1, <2>2, <2>4, <3>1, EntryAssumption, BoxAssumption DEF Saved
    <3>5. cmd["host"].verb = "unexpose" =>
             \A t \in tabs : t.box = cmd["host"].box /\ t.app = cmd["host"].app
                => ~t.web
      BY <1>0 DEF Knows
    <3>6. ~(Unmade(cmd["host"]) \/ Unlisted(cmd["host"]))'
      BY <1>2, <3>1 DEF Unmade, Unlisted
    <3> QED
      BY <1>2, <2>4, <3>1, <3>2, <3>3, <3>4, <3>5, <3>6 DEF Knows
  <2> QED
    BY <2>6, <2>7 DEF Actors
<1>3. ASSUME ExposeSave("host") PROVE Knows(e)'
  <2> DEFINE c == cmd["host"]
             set == ledger[c.box].pubs \cup {<<c.app, Lowest(FreePubs)>>}
  <2>1. /\ c.box \in Boxes /\ ledger[c.box] \in Entry /\ c.app \in Apps
    BY <1>3, Works DEF ExposeSave, At, Unmade, Unlisted, Actors
  <2>2. set \in SUBSET Publish
    BY <1>3, <2>1, PubIs DEF ExposeSave, Entry, Publish
  <2>3. c.app \in AppsOf(set)
    <3>1. <<c.app, Lowest(FreePubs)>> \in set /\
          <<c.app, Lowest(FreePubs)>>[1] = c.app
      OBVIOUS
    <3> QED
      BY <3>1 DEF AppsOf
  <2>4. ledger' = [ledger EXCEPT ![c.box] =
                     IF "pubs" = "pubs" THEN [@ EXCEPT !.pubs = set]
                     ELSE [@ EXCEPT !.folders = set]]
    BY <1>3 DEF ExposeSave
  <2>5. /\ c.pc = "save" /\ c.verb = "expose" /\ UNCHANGED tabs
        /\ cmd' = [cmd EXCEPT !["host"].pc = "rm"]
    BY <1>3 DEF ExposeSave, At, Goto
  <2>6. "rm" \in {"rm", "row"} /\ "pubs" \in {"pubs", "folders"}
    OBVIOUS
  <2> HIDE DEF set
  <2> QED
    BY ONLY <1>2, <2>2, <2>3, <2>4, <2>5, <2>6
<1>4. ASSUME UnexposeSave("host") PROVE Knows(e)'
  <2> DEFINE c == cmd["host"]
             set == {p \in ledger[c.box].pubs : p[1] # c.app}
  <2>1. c.box \in Boxes /\ ledger[c.box] \in Entry
    BY <1>4, Works DEF UnexposeSave, At, Unmade, Unlisted, Actors
  <2>2. set \in SUBSET Publish
    BY <2>1 DEF Entry
  <2>4. ledger' = [ledger EXCEPT ![c.box] =
                     IF "pubs" = "pubs" THEN [@ EXCEPT !.pubs = set]
                     ELSE [@ EXCEPT !.folders = set]]
    BY <1>4 DEF UnexposeSave
  <2>5. c.pc = "save" /\ c.verb = "unexpose" /\ UNCHANGED tabs
    BY <1>4 DEF UnexposeSave, At
  <2>6. PICK to \in {"row", "rm"} : cmd' = [cmd EXCEPT !["host"].pc = to]
    BY <1>4 DEF UnexposeSave, Goto
  <2> HIDE DEF set
  <2> QED
    BY <1>2, <2>2, <2>4, <2>5, <2>6
<1>5. ASSUME FoldersSave("host") PROVE Knows(e)'
  <2> DEFINE c == cmd["host"]
  <2>1. c.set \in SUBSET Folders
    BY <1>5, Works DEF FoldersSave, At, Actors
  <2>4. ledger' = [ledger EXCEPT ![c.box] =
                     IF "folders" = "pubs" THEN [@ EXCEPT !.pubs = c.set]
                     ELSE [@ EXCEPT !.folders = c.set]]
    BY <1>5 DEF FoldersSave
  <2>5. /\ c.pc = "save" /\ c.verb = "folders" /\ UNCHANGED tabs
        /\ cmd' = [cmd EXCEPT !["host"].pc = "rm"]
    BY <1>5 DEF FoldersSave, At, Goto
  <2>6. "rm" \in {"rm", "row"} /\ "folders" \in {"pubs", "folders"}
    OBVIOUS
  <2> QED
    BY ONLY <1>2, <2>1, <2>4, <2>5, <2>6
<1>6. ASSUME WireBox PROVE Knows(e)'
  <2>1. /\ cmd["host"].verb = "add" /\ cmd["host"].pc = "wire"
        /\ cmd' = [cmd EXCEPT !["host"].pc = "save"]
        /\ UNCHANGED <<ledger, tabs>>
    BY <1>6 DEF WireBox, At, Goto
  <2>2. "save" \in StepsOf(cmd["host"].verb)
    BY <2>1 DEF StepsOf
  <2>3. /\ cmd'["host"] = [cmd["host"] EXCEPT !.pc = "save"]
        /\ cmd'["inside"] = cmd["inside"]
    BY <2>1 DEF BoxTypes, Actors
  <2>4. Knows("host")'
    BY <1>0, <2>1, <2>2, <2>3, KnowsOn DEF Actors
  <2> QED
    BY <2>1, <2>3, <2>4, InsideKept DEF Actors
<1>7. ASSUME DiscardContainer PROVE Knows(e)'
  <2>1. /\ cmd["host"].pc = "kill"
        /\ cmd' = [cmd EXCEPT !["host"].pc = "del"]
        /\ UNCHANGED <<ledger, tabs>>
    BY <1>7 DEF DiscardContainer, At, Goto
  <2>2. cmd["host"].verb = "remove" /\ "del" \in StepsOf(cmd["host"].verb)
    BY <1>0, <2>1 DEF Knows, StepsOf, BoxTypes, CmdType, Verbs, Running, Actors
  <2>3. /\ cmd'["host"] = [cmd["host"] EXCEPT !.pc = "del"]
        /\ cmd'["inside"] = cmd["inside"]
    BY <2>1 DEF BoxTypes, Actors
  <2>4. Knows("host")'
    BY <1>0, <2>1, <2>2, <2>3, KnowsOn DEF Actors
  <2> QED
    BY <2>1, <2>3, <2>4, InsideKept DEF Actors
<1>8. ASSUME DiscardEntry PROVE Knows(e)'
  <2>1. /\ cmd["host"].pc = "del"
        /\ cmd' = [cmd EXCEPT !["host"].pc = "sweep"]
        /\ ledger' = [ledger EXCEPT ![cmd["host"].box] = NoEntry]
        /\ UNCHANGED tabs
    BY <1>8 DEF DiscardEntry, At, Goto
  <2>2. cmd["host"].verb = "remove" /\ "sweep" \in StepsOf(cmd["host"].verb)
    BY <1>0, <2>1 DEF Knows, StepsOf, BoxTypes, CmdType, Verbs, Running, Actors
  <2>3. /\ cmd'["host"].pc = "sweep" /\ cmd'["host"].verb = "remove"
        /\ cmd'["host"].box = cmd["host"].box
        /\ cmd'["host"].todo = cmd["host"].todo
        /\ cmd'["inside"] = cmd["inside"]
    BY <2>1, <2>2 DEF BoxTypes, Actors, CmdType
  <2>4. cmd["host"].box \in Boxes /\ cmd["host"].box # NoBox
    BY <2>1, Works, BoxAssumption DEF Actors
  <2>5. /\ ledger'[cmd["host"].box] = NoEntry
        /\ \A b \in Boxes \ {cmd["host"].box} : ledger'[b] = ledger[b]
    BY <2>1, <2>4 DEF BoxTypes
  <2>6. Knows("host")'
    <3>1. cmd["host"].todo = {}
      BY <1>0, <2>2 DEF Knows
    <3>2. Unlisted(cmd["host"])'
      BY <2>3 DEF Unlisted
    <3> QED
      BY <2>2, <2>3, <2>4, <2>5, <3>1, <3>2 DEF Knows, Saved
  <2>7. Knows("inside")'
    <3>1. cmd["inside"].box # NoBox =>
             cmd["inside"].box \in Boxes \ {cmd["host"].box}
      BY DEF CmdKnows, Apart, BoxTypes, CmdType, Actors
    <3> QED
      BY <2>3, <2>5, <3>1, InsideKept
  <2> QED
    BY <2>6, <2>7 DEF Actors
<1>9. ASSUME Attach PROVE Knows(e)'
  <2>1. /\ cmd' = [cmd EXCEPT !["host"] =
                     [Idle EXCEPT !.verb = "attach", !.pc = "loop",
                                  !.todo = {b \in Boxes : NeedsGitea(b)}]]
        /\ UNCHANGED <<ledger, tabs>>
    BY <1>9 DEF Attach
  <2>2. /\ cmd'["host"].verb = "attach" /\ cmd'["host"].pc = "loop"
        /\ cmd'["host"].box = NoBox
        /\ \A b \in cmd'["host"].todo : Saved(b)
        /\ cmd'["inside"] = cmd["inside"]
    BY <2>1 DEF BoxTypes, Actors, Idle, NeedsGitea
  <2>3. Knows("host")'
    BY <2>1, <2>2 DEF Knows, Saved, StepsOf
  <2> QED
    BY <2>1, <2>2, <2>3, InsideKept DEF Actors
<1>10. ASSUME NEW a \in Actors, NEW to,
              \/ cmd[a].pc = "rm" /\ to = "run"
              \/ cmd[a].pc = "run" /\ to = "fwd",
              cmd' = [cmd EXCEPT ![a].pc = to],
              UNCHANGED <<ledger, tabs>>
       PROVE  Knows(e)'
  <2>1. to \in StepsOf(cmd[a].verb) /\ Knows(a)
    <3>1. Knows(a)
      BY DEF CmdKnows
    <3> QED
      BY <1>10, <3>1 DEF Knows, StepsOf, BoxTypes, CmdType, Verbs, Running
  <2>2. /\ cmd'[a] = [cmd[a] EXCEPT !.pc = to]
        /\ e # a => cmd'[e] = cmd[e]
    BY <1>10 DEF BoxTypes
  <2>3. cmd[a].verb = "expose" => cmd[a].app \in AppsOf(ledger[cmd[a].box].pubs)
    BY <1>10, <2>1 DEF Knows
  <2>4. Knows(a)'
    BY <1>10, <2>1, <2>2, <2>3, KnowsOn
  <2> QED
    BY <1>10, <2>2, <2>4, OthersKept
<1>11. ASSUME NEW a \in Actors,
              Finish(a) \/ (Resume(a) /\ cmd[a].pc \in Running),
              UNCHANGED <<ledger, tabs>>
       PROVE  Knows(e)'
  <2>1. e # a => Knows(e)'
    BY <1>11, ResumeOthers, OthersKept
  <2>2. Resume(a) /\ cmd[a].pc \in Running => Knows(a)'
    BY <1>11, KnowsRuns DEF CmdKnows
  <2>3. Finish(a) => Knows(a)'
    <3>1. Finish(a) => cmd'[a] = Idle
      BY DEF Finish, BoxTypes
    <3> QED
      BY <3>1, KnowsIdle
  <2> QED
    BY <1>11, <2>1, <2>2, <2>3
<1>12. ASSUME NEW a \in Actors,
              \/ DropContainer(a) \/ RunBox(a) \/ BoxFails(a)
              \/ LaunchForwarders(a) \/ CommandDies(a)
       PROVE  Knows(e)'
  <2>1. CASE DropContainer(a)
    <3>1. /\ cmd[a].pc = "rm" /\ cmd' = [cmd EXCEPT ![a].pc = "run"]
          /\ UNCHANGED <<ledger, tabs>>
      BY <2>1 DEF DropContainer, At, Goto
    <3> QED
      BY ONLY <1>10, a \in Actors, <3>1
  <2>2. CASE RunBox(a)
    <3>1. /\ cmd[a].pc = "run" /\ cmd' = [cmd EXCEPT ![a].pc = "fwd"]
          /\ UNCHANGED <<ledger, tabs>>
      BY <2>2 DEF RunBox, At, Goto
    <3> QED
      BY ONLY <1>10, a \in Actors, <3>1
  <2>3. CASE BoxFails(a)
    BY <1>11, <2>3, FailureIs DEF Running
  <2>4. CASE LaunchForwarders(a)
    BY <1>11, <2>4 DEF LaunchForwarders, At, Running
  <2>5. CASE CommandDies(a)
    BY <1>11, <2>5 DEF CommandDies
  <2> QED
    BY ONLY <1>12, <2>1, <2>2, <2>3, <2>4, <2>5
<1> QED
  BY ONLY <1>1, <1>3, <1>4, <1>5, <1>6, <1>7, <1>8, <1>9, <1>12, LongStep
     DEF LongStep

(* What a save of the ledger changes.                                      *)
LEMMA CreateLedger ==
    ASSUME BoxTypes, CmdKnows, CreateSave("host")
    PROVE  LET b == cmd["host"].box IN
           /\ b \in Boxes /\ ~Saved(b) /\ ledger'[b] # NoEntry
           /\ \A d \in Boxes \ {b} : ledger'[d] = ledger[d]
           /\ ledger'[b].kind = cmd["host"].kind
           /\ \A p \in ledger'[b].pubs : p[2] \in FreePubs /\ p[1] = WebApp
           /\ \A p, q \in ledger'[b].pubs : p = q
<1> DEFINE c == cmd["host"]
           e == [kind |-> c.kind, slot |-> Lowest(FreeSlots(c.kind)),
                 pubs |-> IF c.kind = "web" THEN {<<WebApp, Lowest(FreePubs)>>}
                          ELSE {},
                 folders |-> c.set]
<1>1. /\ c.box \in Boxes /\ c.kind \in Kinds /\ c.set \in SUBSET Folders
  BY Works DEF CreateSave, At, Actors
<1>2. ledger' = [ledger EXCEPT ![c.box] = e]
  BY DEF CreateSave
<1>3. e \in Entry
  <2>1. Lowest(FreeSlots(c.kind)) \in Slots
    BY SlotIs DEF CreateSave
  <2>2. c.kind = "web" => Lowest(FreePubs) \in Pubs
    BY PubIs DEF CreateSave
  <2> QED
    BY <1>1, <2>1, <2>2, BoxAssumption DEF Entry, Publish
<1>4. /\ e.kind = c.kind
      /\ \A p \in e.pubs : c.kind = "web" /\ p = <<WebApp, Lowest(FreePubs)>>
  OBVIOUS
<1>5. c.kind = "web" => Lowest(FreePubs) \in FreePubs
  BY PubIs DEF CreateSave
<1>6. ~Saved(c.box)
  BY <1>1, BoxAssumption
     DEF CreateSave, At, CmdKnows, Knows, Unmade, Actors
<1> HIDE DEF e
<1>7. /\ ledger'[c.box] = e /\ \A d \in Boxes \ {c.box} : ledger'[d] = ledger[d]
  BY <1>1, <1>2 DEF BoxTypes
<1>8. \A p \in e.pubs : p[2] \in FreePubs /\ p[1] = WebApp
  BY <1>4, <1>5
<1> QED
  BY <1>1, <1>3, <1>4, <1>6, <1>7, <1>8, EntryAssumption DEF Saved

(* What ExposeSave writes: a publish more, of a free port.                 *)
LEMMA ExposeLedger ==
    ASSUME BoxTypes, CmdKnows, ExposeSave("host")
    PROVE  LET b == cmd["host"].box IN
           /\ b \in Boxes /\ Saved(b) /\ ledger'[b] # NoEntry
           /\ \A d \in Boxes \ {b} : ledger'[d] = ledger[d]
           /\ ledger'[b].kind = ledger[b].kind
           /\ ledger'[b].folders = ledger[b].folders
           /\ ledger[b].pubs \subseteq ledger'[b].pubs
           /\ \A p \in ledger'[b].pubs : p \in ledger[b].pubs \/
                 /\ p = <<cmd["host"].app, Lowest(FreePubs)>>
                 /\ p[2] \in FreePubs /\ p[1] = cmd["host"].app
<1> DEFINE c == cmd["host"]
           set == ledger[c.box].pubs \cup {<<c.app, Lowest(FreePubs)>>}
<1>1. /\ c.box \in Boxes /\ ledger[c.box] \in Entry /\ c.app \in Apps
      /\ Saved(c.box)
  BY Works DEF ExposeSave, At, Unmade, Unlisted, Actors
<1>2. set \in SUBSET Publish /\ Lowest(FreePubs) \in FreePubs
  BY <1>1, PubIs DEF ExposeSave, Entry, Publish
<1>3. ledger' = [ledger EXCEPT ![c.box].pubs = set]
  BY DEF ExposeSave
<1>4. \A p \in set : p \in ledger[c.box].pubs \/
         /\ p = <<c.app, Lowest(FreePubs)>>
         /\ p[2] \in FreePubs /\ p[1] = c.app
  BY <1>2
<1>5. ledger[c.box].pubs \subseteq set
  OBVIOUS
<1> HIDE DEF set
<1>6. /\ ledger'[c.box] = [ledger[c.box] EXCEPT !.pubs = set]
      /\ \A d \in Boxes \ {c.box} : ledger'[d] = ledger[d]
  BY <1>1, <1>3 DEF BoxTypes
<1>7. /\ ledger'[c.box] \in Entry /\ ledger'[c.box].pubs = set
      /\ ledger'[c.box].kind = ledger[c.box].kind
      /\ ledger'[c.box].folders = ledger[c.box].folders
  BY <1>1, <1>2, <1>6 DEF Entry
<1> QED
  BY <1>1, <1>4, <1>5, <1>6, <1>7, EntryAssumption DEF Saved

(* What UnexposeSave writes: the publishes of other ports.                 *)
LEMMA UnexposeLedger ==
    ASSUME BoxTypes, CmdKnows, UnexposeSave("host")
    PROVE  LET b == cmd["host"].box IN
           /\ b \in Boxes /\ Saved(b) /\ ledger'[b] # NoEntry
           /\ \A d \in Boxes \ {b} : ledger'[d] = ledger[d]
           /\ ledger'[b].kind = ledger[b].kind
           /\ ledger'[b].folders = ledger[b].folders
           /\ ledger'[b].pubs =
                 {p \in ledger[b].pubs : p[1] # cmd["host"].app}
<1> DEFINE c == cmd["host"]
           set == {p \in ledger[c.box].pubs : p[1] # c.app}
<1>1. c.box \in Boxes /\ ledger[c.box] \in Entry /\ Saved(c.box)
  BY Works DEF UnexposeSave, At, Unmade, Unlisted, Actors
<1>2. set \in SUBSET Publish
  BY <1>1 DEF Entry
<1>3. ledger' = [ledger EXCEPT ![c.box].pubs = set]
  BY DEF UnexposeSave
<1> HIDE DEF set
<1>6. /\ ledger'[c.box] = [ledger[c.box] EXCEPT !.pubs = set]
      /\ \A d \in Boxes \ {c.box} : ledger'[d] = ledger[d]
  BY <1>1, <1>3 DEF BoxTypes
<1>7. /\ ledger'[c.box] \in Entry /\ ledger'[c.box].pubs = set
      /\ ledger'[c.box].kind = ledger[c.box].kind
      /\ ledger'[c.box].folders = ledger[c.box].folders
  BY <1>1, <1>2, <1>6 DEF Entry
<1> QED
  BY <1>1, <1>6, <1>7, EntryAssumption DEF Saved, set

(* What FoldersSave writes: nothing of the publishes.                      *)
LEMMA FoldersLedger ==
    ASSUME BoxTypes, CmdKnows, FoldersSave("host")
    PROVE  LET b == cmd["host"].box IN
           /\ b \in Boxes /\ Saved(b) /\ ledger'[b] # NoEntry
           /\ \A d \in Boxes \ {b} : ledger'[d] = ledger[d]
           /\ ledger'[b].kind = ledger[b].kind
           /\ ledger'[b].pubs = ledger[b].pubs
<1> DEFINE c == cmd["host"]
<1>1. /\ c.box \in Boxes /\ ledger[c.box] \in Entry /\ Saved(c.box)
      /\ c.set \in SUBSET Folders
  BY Works DEF FoldersSave, At, Unmade, Unlisted, Actors
<1>3. ledger' = [ledger EXCEPT ![c.box].folders = c.set]
  BY DEF FoldersSave
<1>6. /\ ledger'[c.box] = [ledger[c.box] EXCEPT !.folders = c.set]
      /\ \A d \in Boxes \ {c.box} : ledger'[d] = ledger[d]
  BY <1>1, <1>3 DEF BoxTypes
<1>7. /\ ledger'[c.box] \in Entry /\ ledger'[c.box].pubs = ledger[c.box].pubs
      /\ ledger'[c.box].kind = ledger[c.box].kind
  BY <1>1, <1>6 DEF Entry
<1> QED
  BY <1>1, <1>6, <1>7, EntryAssumption DEF Saved

(* What DiscardEntry writes: the entry is gone.                            *)
LEMMA DiscardLedger ==
    ASSUME BoxTypes, CmdKnows, DiscardEntry
    PROVE  LET b == cmd["host"].box IN
           /\ b \in Boxes /\ Saved(b) /\ ledger'[b] = NoEntry
           /\ \A d \in Boxes \ {b} : ledger'[d] = ledger[d]
BY Works DEF DiscardEntry, At, Actors, BoxTypes, Unmade, Unlisted

(* A command that ends, and one that begins.                               *)
LEMMA HostEnds ==
    ASSUME BoxTypes, CmdKnows, Finish("host"), UNCHANGED ledger,
           NEW e \in Actors
    PROVE  Knows(e)'
<1>1. cmd'["host"] = Idle /\ cmd'["inside"] = cmd["inside"]
  BY DEF BoxTypes, Finish, Actors
<1> QED
  BY <1>1, KnowsIdle, InsideKept DEF Actors

(* A command that begins knows what the gates of its verb tested.          *)
LEMMA KnowsBegun ==
    ASSUME BoxTypes, CmdKnows, NEW a \in Actors, NEW b \in Boxes,
           \A e \in Actors \ {a} : cmd'[e] = cmd[e],
           cmd'[a].box = b, cmd'[a].todo = {}, cmd'[a].verb # "none",
           cmd'[a].pc \in StepsOf(cmd'[a].verb),
           cmd'[a].pc \in {"wire", "save", "kill", "start", "rm"},
           cmd'[a].verb = "add" => ~Saved(b) /\ cmd'[a].pc \in {"wire", "save"},
           cmd'[a].verb # "add" => Saved(b),
           cmd'[a].verb = "expose" => cmd'[a].pc = "save",
           cmd'[a].verb = "unexpose" =>
              \A t \in tabs : t.box = b /\ t.app = cmd'[a].app => ~t.web,
           UNCHANGED <<ledger, tabs>>, NEW e \in Actors
    PROVE  Knows(e)'
<1>1. b # NoBox
  BY BoxAssumption
<1>2. Knows(a)'
  BY <1>1 DEF Knows, Unmade, Unlisted, Saved
<1> QED
  BY <1>2, OthersKept

(* A step that changes no command, entry or row.                           *)
LEMMA KnowsSame ==
    ASSUME BoxTypes, CmdKnows, UNCHANGED <<cmd, ledger, tabs>>,
           NEW e \in Actors
    PROVE  Knows(e)'
<1>1. Knows(e) /\ \A b \in cmd[e].todo : Saved(b)'
  BY DEF CmdKnows, Knows, Saved
<1> QED
  BY <1>1, KnowsKept

(* Every step of either leaves every command with what it knows.           *)
LEMMA KnowsStep ==
    ASSUME BoxTypes, CmdKnows, RowsKnow, NEW e \in Actors,
           [Next]_vars
    PROVE  Knows(e)'
<1>1. ASSUME NEW a \in Actors, CommandDies(a)
       PROVE  Knows(e)'
  <2>1. LongStep
    BY <1>1 DEF LongStep
  <2> QED
    BY <2>1, LongKnows
<1>2. ASSUME CreateSave("host")
       PROVE  Knows(e)'
  <2> DEFINE b == cmd["host"].box
  <2>1. /\ b \in Boxes /\ cmd["host"] \in CmdType /\ Knows("host")
        /\ cmd["host"].kind \in Kinds
    BY <1>2, Works DEF CreateSave, At, BoxTypes, Actors, CmdKnows
  <2>2. /\ cmd'["host"] = [cmd["host"] EXCEPT !.pc = "rm"]
        /\ cmd["host"].verb = "add" /\ UNCHANGED tabs
        /\ cmd'["inside"] = cmd["inside"]
    BY <1>2 DEF CreateSave, Goto, BoxTypes, Actors
  <2>3. /\ cmd'["host"].pc = "rm" /\ cmd'["host"].verb = "add"
        /\ cmd'["host"].box = b /\ cmd'["host"].kind = cmd["host"].kind
        /\ cmd'["host"].todo = cmd["host"].todo
    BY <2>1, <2>2 DEF CmdType
  <2>4. /\ ledger'[b].kind = cmd["host"].kind /\ ledger'[b] # NoEntry
        /\ \A d \in Boxes \ {b} : ledger'[d] = ledger[d]
    BY <1>2, CreateLedger
  <2>5. cmd["host"].kind = "web" => WebApp \in AppsOf(ledger'[b].pubs)
    <3> DEFINE p == <<WebApp, Lowest(FreePubs)>>
    <3>1. cmd["host"].kind = "web" => p \in ledger'[b].pubs
      BY <1>2, <2>1 DEF CreateSave, BoxTypes
    <3>2. p[1] = WebApp
      OBVIOUS
    <3> QED
      BY <3>1, <3>2 DEF AppsOf
  <2>6. cmd["host"].todo = {}
    BY <2>1, <2>2 DEF Knows
  <2>7. b # NoBox /\ "rm" \in StepsOf("add")
    BY <2>1, BoxAssumption DEF StepsOf, Running
  <2>8. Knows("host")'
    BY <2>1, <2>3, <2>4, <2>5, <2>6, <2>7
       DEF Knows, Saved, Unmade, Unlisted
  <2>9. cmd["inside"].box # NoBox => cmd["inside"].box \in Boxes \ {b}
    BY DEF CmdKnows, Apart, BoxTypes, CmdType, Actors
  <2>10. Knows("inside")'
    BY <2>2, <2>4, <2>9, InsideKept
  <2> QED
    BY <2>8, <2>10 DEF Actors
<1>3. ASSUME ExposeAgain("host")
       PROVE  Knows(e)'
  <2>1. LongStep
    BY <1>3 DEF LongStep
  <2> QED
    BY <2>1, LongKnows
<1>4. ASSUME ExposeSave("host")
       PROVE  Knows(e)'
  <2>1. LongStep
    BY <1>4 DEF LongStep
  <2> QED
    BY <2>1, LongKnows
<1>5. ASSUME UnexposeSave("host")
       PROVE  Knows(e)'
  <2>1. LongStep
    BY <1>5 DEF LongStep
  <2> QED
    BY <2>1, LongKnows
<1>6. ASSUME FoldersSame("host")
       PROVE  Knows(e)'
  BY <1>6, HostEnds DEF FoldersSame
<1>7. ASSUME FoldersSave("host")
       PROVE  Knows(e)'
  <2>1. LongStep
    BY <1>7 DEF LongStep
  <2> QED
    BY <2>1, LongKnows
<1>8. ASSUME PoolEmpty("host")
       PROVE  Knows(e)'
  BY <1>8, HostEnds DEF PoolEmpty
<1>9. ASSUME NEW a \in Actors, DropContainer(a)
       PROVE  Knows(e)'
  <2>1. LongStep
    BY <1>9 DEF LongStep
  <2> QED
    BY <2>1, LongKnows
<1>10. ASSUME NEW a \in Actors, RunBox(a)
       PROVE  Knows(e)'
  <2>1. LongStep
    BY <1>10 DEF LongStep
  <2> QED
    BY <2>1, LongKnows
<1>11. ASSUME NEW a \in Actors, BoxFails(a)
       PROVE  Knows(e)'
  <2>1. LongStep
    BY <1>11 DEF LongStep
  <2> QED
    BY <2>1, LongKnows
<1>12. ASSUME NEW a \in Actors, LaunchForwarders(a)
       PROVE  Knows(e)'
  <2>1. LongStep
    BY <1>12 DEF LongStep
  <2> QED
    BY <2>1, LongKnows
<1>13. ASSUME PlainStart
       PROVE  Knows(e)'
  <2>1. /\ cmd'["inside"] = Idle /\ cmd'["host"] = cmd["host"]
        /\ UNCHANGED <<ledger, tabs>>
    BY <1>13 DEF PlainStart, Finish, BoxTypes, Actors
  <2> QED
    BY <2>1, KnowsIdle, OthersKept DEF Actors
<1>14. ASSUME NEW b \in Boxes, Stop(b)
       PROVE  Knows(e)'
  BY <1>14, KnowsSame DEF Stop
<1>15. ASSUME NEW b \in Boxes, Restart(b)
       PROVE  Knows(e)'
  <2>1. /\ cmd'["inside"].verb = "restart" /\ cmd'["inside"].pc \in {"rm"}
        /\ cmd'["inside"].box = b /\ cmd'["inside"].todo = {}
        /\ Saved(b) /\ UNCHANGED <<ledger, tabs>>
        /\ \A d \in Actors \ {"inside"} : cmd'[d] = cmd[d]
    BY <1>15 DEF Restart, Begin, BoxTypes, Actors
  <2>2. cmd'["inside"].pc \in StepsOf(cmd'["inside"].verb)
    BY <2>1 DEF StepsOf, Running
  <2> QED
    BY <2>1, <2>2, KnowsBegun DEF Actors
<1>16. ASSUME NEW b \in Boxes, Start(b)
       PROVE  Knows(e)'
  <2>1. /\ cmd'["inside"].verb = "start"
        /\ cmd'["inside"].pc \in {"rm", "start"}
        /\ cmd'["inside"].box = b /\ cmd'["inside"].todo = {}
        /\ Saved(b) /\ UNCHANGED <<ledger, tabs>>
        /\ \A d \in Actors \ {"inside"} : cmd'[d] = cmd[d]
    BY <1>16 DEF Start, Begin, BoxTypes, Actors
  <2>2. cmd'["inside"].pc \in StepsOf(cmd'["inside"].verb)
    BY <2>1 DEF StepsOf, Running
  <2> QED
    BY <2>1, <2>2, KnowsBegun DEF Actors
<1>17. ASSUME NEW b \in Boxes, BoxAdd(b)
       PROVE  Knows(e)'
  <2>1. /\ cmd'["host"].verb = "add" /\ cmd'["host"].pc \in {"wire", "save"}
        /\ cmd'["host"].box = b /\ cmd'["host"].todo = {}
        /\ ~Saved(b) /\ UNCHANGED <<ledger, tabs>>
        /\ \A d \in Actors \ {"host"} : cmd'[d] = cmd[d]
    BY <1>17 DEF BoxAdd, Begin, BoxTypes, Actors, Addable
  <2>2. cmd'["host"].pc \in StepsOf(cmd'["host"].verb)
    BY <2>1 DEF StepsOf, Running
  <2> QED
    BY <2>1, <2>2, KnowsBegun DEF Actors
<1>18. ASSUME WireBox
       PROVE  Knows(e)'
  <2>1. LongStep
    BY <1>18 DEF LongStep
  <2> QED
    BY <2>1, LongKnows
<1>19. ASSUME RegisterWebTab
       PROVE  Knows(e)'
  BY <1>19, HostEnds DEF RegisterWebTab
<1>20. ASSUME NEW b \in Boxes, PortAdd(b)
       PROVE  Knows(e)'
  <2>1. /\ cmd'["host"].verb = "expose" /\ cmd'["host"].pc \in {"save"}
        /\ cmd'["host"].box = b /\ cmd'["host"].todo = {}
        /\ Saved(b) /\ UNCHANGED <<ledger, tabs>>
        /\ \A d \in Actors \ {"host"} : cmd'[d] = cmd[d]
    BY <1>20 DEF PortAdd, Begin, BoxTypes, Actors
  <2>2. cmd'["host"].pc \in StepsOf(cmd'["host"].verb)
    BY <2>1 DEF StepsOf, Running
  <2> QED
    BY <2>1, <2>2, KnowsBegun DEF Actors
<1>21. ASSUME PortRow
       PROVE  Knows(e)'
  BY <1>21, HostEnds DEF PortRow
<1>22. ASSUME PortRemove
       PROVE  Knows(e)'
  <2>1. PICK t \in tabs :
             /\ ~t.web /\ Saved(t.box)
             /\ Begin("host", "unexpose", "save", t.box, t.app, "plain", {})
             /\ UNCHANGED <<ledger, tabs>>
    BY <1>22 DEF PortRemove
  <2>2. /\ cmd'["host"].verb = "unexpose" /\ cmd'["host"].pc = "save"
        /\ cmd'["host"].box = t.box /\ cmd'["host"].todo = {}
        /\ cmd'["host"].app = t.app
        /\ \A d \in Actors \ {"host"} : cmd'[d] = cmd[d]
    BY <2>1 DEF Begin, BoxTypes, Actors
  <2>3. \A u \in tabs : u.box = t.box /\ u.app = t.app => ~u.web
    BY <2>1 DEF RowsKnow
  <2>4. t.box \in Boxes /\ cmd'["host"].pc \in StepsOf(cmd'["host"].verb)
    BY <2>2 DEF BoxTypes, TabType, StepsOf, Running
  <2> QED
    BY <2>1, <2>2, <2>3, <2>4, KnowsBegun DEF Actors
<1>23. ASSUME PortDrop
       PROVE  Knows(e)'
  BY <1>23, HostEnds DEF PortDrop
<1>24. ASSUME NEW b \in Boxes, BoxFolders(b)
       PROVE  Knows(e)'
  <2>1. /\ cmd'["host"].verb = "folders" /\ cmd'["host"].pc \in {"save"}
        /\ cmd'["host"].box = b /\ cmd'["host"].todo = {}
        /\ Saved(b) /\ UNCHANGED <<ledger, tabs>>
        /\ \A d \in Actors \ {"host"} : cmd'[d] = cmd[d]
    BY <1>24 DEF BoxFolders, Begin, BoxTypes, Actors
  <2>2. cmd'["host"].pc \in StepsOf(cmd'["host"].verb)
    BY <2>1 DEF StepsOf, Running
  <2> QED
    BY <2>1, <2>2, KnowsBegun DEF Actors
<1>25. ASSUME NEW b \in Boxes, BoxRemove(b)
       PROVE  Knows(e)'
  <2>1. /\ cmd'["host"].verb = "remove" /\ cmd'["host"].pc \in {"kill"}
        /\ cmd'["host"].box = b /\ cmd'["host"].todo = {}
        /\ Saved(b) /\ UNCHANGED <<ledger, tabs>>
        /\ \A d \in Actors \ {"host"} : cmd'[d] = cmd[d]
    BY <1>25 DEF BoxRemove, Begin, BoxTypes, Actors
  <2>2. cmd'["host"].pc \in StepsOf(cmd'["host"].verb)
    BY <2>1 DEF StepsOf, Running
  <2> QED
    BY <2>1, <2>2, KnowsBegun DEF Actors
<1>26. ASSUME DiscardContainer
       PROVE  Knows(e)'
  <2>1. LongStep
    BY <1>26 DEF LongStep
  <2> QED
    BY <2>1, LongKnows
<1>27. ASSUME DiscardEntry
       PROVE  Knows(e)'
  <2>1. LongStep
    BY <1>27 DEF LongStep
  <2> QED
    BY <2>1, LongKnows
<1>28. ASSUME SweepTabs
       PROVE  Knows(e)'
  BY <1>28, HostEnds DEF SweepTabs
<1>29. ASSUME Recreate
       PROVE  Knows(e)'
  <2>1. /\ cmd'["inside"] = Idle /\ cmd'["host"].verb = "recreate"
        /\ cmd'["host"].pc = "loop" /\ cmd'["host"].box = NoBox
        /\ \A b \in cmd'["host"].todo : ledger[b] # NoEntry
        /\ UNCHANGED <<ledger, tabs>>
    BY <1>29 DEF Recreate, Scar, Idle, Actors, Saved
  <2>2. Knows("host")'
    BY <2>1 DEF Knows, Saved, StepsOf
  <2> QED
    BY <2>1, <2>2, KnowsIdle DEF Actors
<1>30. ASSUME Attach
       PROVE  Knows(e)'
  <2>1. LongStep
    BY <1>30 DEF LongStep
  <2> QED
    BY <2>1, LongKnows
<1>31. ASSUME LoopBox
       PROVE  Knows(e)'
  <2>0. Knows("host") /\ cmd["host"] \in CmdType
    BY DEF CmdKnows, BoxTypes, Actors
  <2>1. PICK b \in cmd["host"].todo :
           /\ cmd'["host"].verb = cmd["host"].verb
           /\ cmd'["host"].todo = cmd["host"].todo \ {b}
           /\ \/ cmd'["host"].box = NoBox /\ cmd'["host"].pc = "loop"
              \/ cmd'["host"].box = b /\ cmd'["host"].pc = "rm"
           /\ cmd'["inside"] = cmd["inside"]
           /\ UNCHANGED <<ledger, tabs>>
    BY <1>31 DEF LoopBox, BoxTypes, CmdType, Actors
  <2>2. /\ b \in Boxes /\ b # NoBox /\ Saved(b)
        /\ cmd["host"].verb \in {"recreate", "attach"}
        /\ \A d \in cmd["host"].todo : Saved(d)
    BY <2>0, <2>1, BoxAssumption DEF Knows, CmdType
  <2>3. cmd'["host"].pc \in StepsOf(cmd'["host"].verb)
    BY <2>1, <2>2 DEF StepsOf, Running
  <2>4. Knows("host")'
    BY <2>1, <2>2, <2>3 DEF Knows, Saved, Unmade, Unlisted
  <2>5. Knows("inside")'
    BY <2>1, InsideKept
  <2> QED
    BY <2>4, <2>5 DEF Actors
<1>32. ASSUME LoopEnds
       PROVE  Knows(e)'
  BY <1>32, HostEnds DEF LoopEnds
<1>33. ASSUME GiteaMoves
       PROVE  Knows(e)'
  BY <1>33, KnowsSame DEF GiteaMoves
<1>34. ASSUME NEW f \in Folders, FolderChanges(f)
       PROVE  Knows(e)'
  BY <1>34, KnowsSame DEF FolderChanges
<1>35. ASSUME NEW b \in Boxes, BoxRestarts(b)
       PROVE  Knows(e)'
  BY <1>35, KnowsSame DEF BoxRestarts
<1>36. CASE UNCHANGED vars
  BY <1>36, KnowsSame DEF vars
<1> QED
  BY ONLY <1>1, <1>2, <1>3, <1>4, <1>5, <1>6, <1>7, <1>8, <1>9, <1>10, <1>11,
  <1>12, <1>13, <1>14, <1>15, <1>16, <1>17, <1>18, <1>19, <1>20, <1>21,
  <1>22, <1>23, <1>24, <1>25, <1>26, <1>27, <1>28, <1>29, <1>30, <1>31,
  <1>32, <1>33, <1>34, <1>35, <1>36,
     [Next]_vars DEF Next, LedgerStep, RunStep, HostStep, Request, BoxFails,
                      Actors

(* Saves.                                                                  *)
SaveStep ==
    \/ CreateSave("host") \/ ExposeSave("host") \/ UnexposeSave("host")
    \/ FoldersSave("host") \/ DiscardEntry

-----------------------------------------------------------------------------
(* The boxes: publishes and rows                                           *)

(* The ledger is written by five steps, and by no other.                   *)
LEMMA OthersSave ==
    ASSUME [Next]_vars
    PROVE  SaveStep \/ UNCHANGED ledger
<1>1. ASSUME NEW a \in Actors, CommandDies(a)
       PROVE  SaveStep \/ UNCHANGED ledger
  BY <1>1 DEF CommandDies
<1>2. ASSUME CreateSave("host")
       PROVE  SaveStep \/ UNCHANGED ledger
  BY <1>2 DEF SaveStep
<1>3. ASSUME ExposeAgain("host")
       PROVE  SaveStep \/ UNCHANGED ledger
  BY <1>3 DEF ExposeAgain
<1>4. ASSUME ExposeSave("host")
       PROVE  SaveStep \/ UNCHANGED ledger
  BY <1>4 DEF SaveStep
<1>5. ASSUME UnexposeSave("host")
       PROVE  SaveStep \/ UNCHANGED ledger
  BY <1>5 DEF SaveStep
<1>6. ASSUME FoldersSame("host")
       PROVE  SaveStep \/ UNCHANGED ledger
  BY <1>6 DEF FoldersSame
<1>7. ASSUME FoldersSave("host")
       PROVE  SaveStep \/ UNCHANGED ledger
  BY <1>7 DEF SaveStep
<1>8. ASSUME PoolEmpty("host")
       PROVE  SaveStep \/ UNCHANGED ledger
  BY <1>8 DEF PoolEmpty
<1>9. ASSUME NEW a \in Actors, DropContainer(a)
       PROVE  SaveStep \/ UNCHANGED ledger
  BY <1>9 DEF DropContainer
<1>10. ASSUME NEW a \in Actors, RunBox(a)
       PROVE  SaveStep \/ UNCHANGED ledger
  BY <1>10 DEF RunBox
<1>11. ASSUME NEW a \in Actors, BoxFails(a)
       PROVE  SaveStep \/ UNCHANGED ledger
  BY <1>11, FailureIs
<1>12. ASSUME NEW a \in Actors, LaunchForwarders(a)
       PROVE  SaveStep \/ UNCHANGED ledger
  BY <1>12 DEF LaunchForwarders
<1>13. ASSUME PlainStart
       PROVE  SaveStep \/ UNCHANGED ledger
  BY <1>13 DEF PlainStart
<1>14. ASSUME NEW b \in Boxes, Stop(b)
       PROVE  SaveStep \/ UNCHANGED ledger
  BY <1>14 DEF Stop
<1>15. ASSUME NEW b \in Boxes, Restart(b)
       PROVE  SaveStep \/ UNCHANGED ledger
  BY <1>15 DEF Restart
<1>16. ASSUME NEW b \in Boxes, Start(b)
       PROVE  SaveStep \/ UNCHANGED ledger
  BY <1>16 DEF Start
<1>17. ASSUME NEW b \in Boxes, BoxAdd(b)
       PROVE  SaveStep \/ UNCHANGED ledger
  BY <1>17 DEF BoxAdd
<1>18. ASSUME WireBox
       PROVE  SaveStep \/ UNCHANGED ledger
  BY <1>18 DEF WireBox
<1>19. ASSUME RegisterWebTab
       PROVE  SaveStep \/ UNCHANGED ledger
  BY <1>19 DEF RegisterWebTab
<1>20. ASSUME NEW b \in Boxes, PortAdd(b)
       PROVE  SaveStep \/ UNCHANGED ledger
  BY <1>20 DEF PortAdd
<1>21. ASSUME PortRow
       PROVE  SaveStep \/ UNCHANGED ledger
  BY <1>21 DEF PortRow
<1>22. ASSUME PortRemove
       PROVE  SaveStep \/ UNCHANGED ledger
  BY <1>22 DEF PortRemove
<1>23. ASSUME PortDrop
       PROVE  SaveStep \/ UNCHANGED ledger
  BY <1>23 DEF PortDrop
<1>24. ASSUME NEW b \in Boxes, BoxFolders(b)
       PROVE  SaveStep \/ UNCHANGED ledger
  BY <1>24 DEF BoxFolders
<1>25. ASSUME NEW b \in Boxes, BoxRemove(b)
       PROVE  SaveStep \/ UNCHANGED ledger
  BY <1>25 DEF BoxRemove
<1>26. ASSUME DiscardContainer
       PROVE  SaveStep \/ UNCHANGED ledger
  BY <1>26 DEF DiscardContainer
<1>27. ASSUME DiscardEntry
       PROVE  SaveStep \/ UNCHANGED ledger
  BY <1>27 DEF SaveStep
<1>28. ASSUME SweepTabs
       PROVE  SaveStep \/ UNCHANGED ledger
  BY <1>28 DEF SweepTabs
<1>29. ASSUME Recreate
       PROVE  SaveStep \/ UNCHANGED ledger
  BY <1>29 DEF Recreate
<1>30. ASSUME Attach
       PROVE  SaveStep \/ UNCHANGED ledger
  BY <1>30 DEF Attach
<1>31. ASSUME LoopBox
       PROVE  SaveStep \/ UNCHANGED ledger
  BY <1>31 DEF LoopBox
<1>32. ASSUME LoopEnds
       PROVE  SaveStep \/ UNCHANGED ledger
  BY <1>32 DEF LoopEnds
<1>33. ASSUME GiteaMoves
       PROVE  SaveStep \/ UNCHANGED ledger
  BY <1>33 DEF GiteaMoves
<1>34. ASSUME NEW f \in Folders, FolderChanges(f)
       PROVE  SaveStep \/ UNCHANGED ledger
  BY <1>34 DEF FolderChanges
<1>35. ASSUME NEW b \in Boxes, BoxRestarts(b)
       PROVE  SaveStep \/ UNCHANGED ledger
  BY <1>35 DEF BoxRestarts
<1>36. CASE UNCHANGED vars
  BY <1>36 DEF vars
<1> QED
  BY ONLY <1>1, <1>2, <1>3, <1>4, <1>5, <1>6, <1>7, <1>8, <1>9, <1>10, <1>11,
  <1>12, <1>13, <1>14, <1>15, <1>16, <1>17, <1>18, <1>19, <1>20, <1>21,
  <1>22, <1>23, <1>24, <1>25, <1>26, <1>27, <1>28, <1>29, <1>30, <1>31,
  <1>32, <1>33, <1>34, <1>35, <1>36,
     [Next]_vars DEF Next, LedgerStep, RunStep, HostStep, Request, BoxFails,
                      Actors

(* A step that adds no publish keeps each one's own.                       *)
LEMMA OwnKept ==
    ASSUME OwnPubs, \A b \in Boxes : Saved(b)' =>
              Saved(b) /\ ledger'[b].pubs \subseteq ledger[b].pubs
    PROVE  OwnPubs'
BY DEF OwnPubs

(* A free publish is no box's.                                             *)
LEMMA FreeIsFree ==
    ASSUME NEW b \in Boxes, Saved(b), NEW p \in ledger[b].pubs
    PROVE  p[2] \notin FreePubs
BY DEF FreePubs

(* Every step keeps each publish of one box and one program.               *)
LEMMA OwnStep ==
    ASSUME BoxTypes, CmdKnows, OwnPubs, [Next]_vars
    PROVE  OwnPubs'
<1>1. CASE UNCHANGED ledger
  BY <1>1, OwnKept DEF Saved
<1>2. CASE CreateSave("host")
  <2>1. \A b, d \in Boxes : Saved(b)' /\ Saved(d)' =>
          \A p \in ledger'[b].pubs, q \in ledger'[d].pubs :
             p[2] = q[2] => b = d /\ p = q
    BY <1>2, CreateLedger, FreeIsFree DEF OwnPubs, Saved
  <2>2. \A b \in Boxes : Saved(b)' =>
          \A p, q \in ledger'[b].pubs : p[1] = q[1] => p = q
    BY <1>2, CreateLedger DEF OwnPubs, Saved
  <2> QED
    BY <2>1, <2>2 DEF OwnPubs
<1>3. CASE ExposeSave("host")
  <2>0. cmd["host"].app \notin AppsOf(ledger[cmd["host"].box].pubs)
    BY <1>3 DEF ExposeSave
  <2>1. \A b, d \in Boxes : Saved(b)' /\ Saved(d)' =>
          \A p \in ledger'[b].pubs, q \in ledger'[d].pubs :
             p[2] = q[2] => b = d /\ p = q
    BY <1>3, ExposeLedger, FreeIsFree DEF OwnPubs, Saved
  <2>2. \A b \in Boxes : Saved(b)' =>
          \A p, q \in ledger'[b].pubs : p[1] = q[1] => p = q
    BY <1>3, <2>0, ExposeLedger DEF OwnPubs, Saved, AppsOf
  <2> QED
    BY <2>1, <2>2 DEF OwnPubs
<1>4. CASE UnexposeSave("host")
  BY <1>4, OwnKept, UnexposeLedger DEF Saved
<1>5. CASE FoldersSave("host")
  BY <1>5, OwnKept, FoldersLedger DEF Saved
<1>6. CASE DiscardEntry
  BY <1>6, OwnKept, DiscardLedger DEF Saved
<1> QED
  BY ONLY <1>1, <1>2, <1>3, <1>4, <1>5, <1>6, OthersSave, [Next]_vars
     DEF SaveStep

(* What a row needs to be known still, when no row is written.             *)
LEMMA RowsKept ==
    ASSUME BoxTypes, RowsKnow, UNCHANGED tabs,
           \A b \in Boxes, app \in Apps :
              <<b, app>> \in torn => <<b, app>> \in torn',
           \A t \in tabs : Known(t) \/ Mid(t) =>
              Known(t)' \/ Mid(t)' \/ RowTorn(t)',
           \A b \in Boxes : Saved(b)' /\ ledger'[b].kind = "web" =>
              \/ <<b, WebApp>> \in torn'
              \/ cmd'["host"].verb = "add" /\ cmd'["host"].box = b
              \/ /\ Saved(b) /\ ledger[b].kind = "web"
                 /\ ~(cmd["host"].verb = "add" /\ cmd["host"].box = b)
    PROVE  RowsKnow'
<1> USE BoxAssumption
<1>1. \A t \in tabs : t.box \in Boxes /\ t.app \in Apps
  BY DEF BoxTypes, TabType
<1>2. \A t \in tabs : RowTorn(t) => RowTorn(t)'
  BY <1>1 DEF RowTorn
<1>3. \A t \in tabs' : (RowTorn(t) \/ Known(t) \/ Mid(t))'
  BY <1>2 DEF RowsKnow
<1>4. \A b \in Boxes : (Saved(b) /\ ledger[b].kind = "web")' =>
          \/ <<b, WebApp>> \in torn'
          \/ \E t \in tabs' : t.box = b /\ t.app = WebApp /\ t.web
          \/ cmd'["host"].verb = "add" /\ cmd'["host"].box = b
  BY DEF RowsKnow
<1> QED
  BY <1>2, <1>3, <1>4 DEF RowsKnow

(* A host command that dies leaves torn whatever row it was to write or to *)
(* drop.                                                                   *)
LEMMA ScarRows ==
    ASSUME BoxTypes, CmdKnows
    PROVE  /\ \A t \in tabs : Mid(t) => <<t.box, t.app>> \in Scar("host")
           /\ \A b \in Boxes : /\ Saved(b) /\ ledger[b].kind = "web"
                               /\ cmd["host"].verb = "add"
                               /\ cmd["host"].box = b
                 => <<b, WebApp>> \in Scar("host")
<1> DEFINE c == cmd["host"]
<1>0. Knows("host") /\ c \in CmdType
  BY DEF CmdKnows, Actors, BoxTypes
<1>1. ASSUME NEW t \in tabs, Mid(t) PROVE <<t.box, t.app>> \in Scar("host")
  <2>1. CASE c.verb = "unexpose" /\ c.pc # "save" /\ t.app = c.app
    <3>1. c.pc \in {"rm", "run", "fwd", "row"}
      BY <1>0, <2>1 DEF Knows, StepsOf, Running
    <3> QED
      BY <1>1, <2>1, <3>1 DEF Mid, Scar
  <2>2. CASE c.pc = "sweep"
    <3>1. c.verb = "remove"
      BY <1>0, <2>2 DEF Knows, StepsOf, Running, CmdType, Verbs
    <3>2. t \in RowsOf(c.box) /\ t.box = c.box
      BY <1>1 DEF Mid, RowsOf
    <3>3. <<c.box, t.app>> \in {<<c.box, u.app>> : u \in RowsOf(c.box)}
      BY <3>2
    <3> QED
      BY <2>2, <3>1, <3>2, <3>3 DEF Scar
  <2> QED
    BY <1>1, <2>1, <2>2 DEF Mid
<1>2. ASSUME NEW b \in Boxes, Saved(b), ledger[b].kind = "web",
             c.verb = "add", c.box = b
      PROVE  <<b, WebApp>> \in Scar("host")
  <2>1. b # NoBox
    BY BoxAssumption
  <2>2. /\ c.kind = "web" /\ c.pc \notin {"wire", "save"}
    BY <1>0, <1>2, <2>1 DEF Knows, Unmade
  <2>3. c.pc \in {"rm", "run", "fwd", "tab"}
    BY <1>0, <1>2, <2>2 DEF Knows, StepsOf, Running
  <2> QED
    BY <1>2, <2>2, <2>3 DEF Scar
<1> QED
  BY <1>1, <1>2

(* A row that is written is that of its box and app, the only one with its *)
(* publish that nothing tore.                                              *)
Written(b, app, n, web) ==
    /\ Saved(b) /\ <<app, n>> \in ledger[b].pubs
    /\ \A t \in tabs : ~Mid(t)
    /\ tabs' = {t \in tabs : ~(t.box = b /\ t.app = app)}
               \cup {[box |-> b, app |-> app, pub |-> n, web |-> web]}
    /\ torn' = torn \ Mended(b, app, tabs')
    /\ UNCHANGED ledger /\ cmd'["host"] = Idle
    /\ web = FALSE => \A t \in tabs : t.box = b /\ t.app = app => ~t.web
    /\ cmd["host"].verb = "add" =>
          cmd["host"].box = b /\ app = WebApp /\ web = TRUE

(* A row written with the publish of the ledger: rows that shared it go,   *)
(* or are torn.                                                            *)
LEMMA RowWritten ==
    ASSUME BoxTypes, OwnPubs, RowsKnow, NEW b \in Boxes, NEW app \in Apps,
           NEW n, NEW web \in BOOLEAN, Written(b, app, n, web)
    PROVE  RowsKnow'
<1> USE DEF Written
<1> DEFINE r == [box |-> b, app |-> app, pub |-> n, web |-> web]
           old == {t \in tabs : ~(t.box = b /\ t.app = app)}
<1>0. r.box = b /\ r.app = app /\ r.pub = n /\ r.web = web
  OBVIOUS
<1>1. \A x \in Boxes, y \in Apps :
         <<x, y>> \in torn /\ ~(x = b /\ y = app) => <<x, y>> \in torn'
  BY DEF Mended
<1>2. \A t \in old : /\ t \in tabs /\ t.box \in Boxes /\ t.app \in Apps
                     /\ RowTorn(t) => RowTorn(t)'
                     /\ Known(t) => Known(t)'
                     /\ RowTorn(t) \/ Known(t)
  <2>1. \A t \in tabs : t.box \in Boxes /\ t.app \in Apps
    BY DEF BoxTypes, TabType
  <2> QED
    BY <1>1, <2>1 DEF RowTorn, Known, Saved, RowsKnow
<1>3. Known(r)'
  BY <1>0 DEF Known, Saved
<1>4. \A t \in old : t.pub = n => RowTorn(t)
  <2> SUFFICES ASSUME NEW t \in old, t.pub = n, Known(t) PROVE FALSE
    BY <1>2
  <2>1. Saved(t.box) /\ <<t.app, n>> \in ledger[t.box].pubs
    BY DEF Known
  <2>2. t.box = b /\ <<t.app, n>> = <<app, n>>
    <3>1. <<t.app, n>>[2] = n /\ <<app, n>>[2] = n
      OBVIOUS
    <3> QED
      BY <1>2, <2>1, <3>1 DEF OwnPubs
  <2> QED
    BY <2>2
<1>5. tabs' = old \cup {r}
  OBVIOUS
<1>6. \A t \in tabs' : (RowTorn(t) \/ Known(t) \/ Mid(t))'
  BY <1>2, <1>3, <1>5
<1>7. \A t, u \in tabs' : t.box = u.box /\ t.app = u.app => t = u
  BY <1>0, <1>5 DEF RowsKnow
<1>8. \A t, u \in tabs' :
         t.pub = u.pub => t = u \/ RowTorn(t)' \/ RowTorn(u)'
  <2>1. \A t, u \in old :
           t.pub = u.pub => t = u \/ RowTorn(t)' \/ RowTorn(u)'
    BY <1>2 DEF RowsKnow
  <2>2. \A t \in old : t.pub = n => RowTorn(t)'
    BY <1>2, <1>4
  <2> QED
    BY <1>0, <1>5, <2>1, <2>2
<1>9. ASSUME NEW d \in Boxes, Saved(d), ledger[d].kind = "web"
      PROVE  \/ <<d, WebApp>> \in torn'
             \/ \E t \in tabs' : t.box = d /\ t.app = WebApp /\ t.web
  <2>1. CASE d = b /\ app = WebApp /\ web = TRUE
    BY <1>0, <1>5, <2>1
  <2>2. CASE d = b /\ app = WebApp /\ web = FALSE
    <3>1. <<d, WebApp>> \in torn
      BY <1>9, <2>2 DEF RowsKnow
    <3>2. \A t \in tabs' : t.box = b /\ t.app = app => ~t.web
      BY <1>0, <1>5, <2>2
    <3>3. Mended(b, app, tabs') = {}
      BY <1>9, <2>2, <3>2 DEF Mended
    <3> QED
      BY <3>1, <3>3
  <2>3. CASE ~(d = b /\ app = WebApp)
    <3>1. ~(cmd["host"].verb = "add" /\ cmd["host"].box = d)
      BY <2>3
    <3>2. <<d, WebApp>> \in torn => <<d, WebApp>> \in torn'
      BY <1>1, <2>3, BoxAssumption
    <3>3. \A t \in tabs : t.box = d /\ t.app = WebApp => t \in tabs'
      BY <1>5, <2>3
    <3> QED
      BY <1>9, <3>1, <3>2, <3>3 DEF RowsKnow
  <2> QED
    BY <2>1, <2>2, <2>3
<1>10. \A d \in Boxes : (Saved(d) /\ ledger[d].kind = "web")' =>
          \/ <<d, WebApp>> \in torn'
          \/ \E t \in tabs' : t.box = d /\ t.app = WebApp /\ t.web
  BY <1>9 DEF Saved
<1> HIDE DEF old
<1> QED
  BY <1>6, <1>7, <1>8, <1>10 DEF RowsKnow

(* So the two steps that write a row keep what is known of the rows,       *)
LEMMA PortRowKeeps ==
    ASSUME BoxTypes, CmdKnows, OwnPubs, RowsKnow, PortRow \/ RegisterWebTab
    PROVE  RowsKnow'
<1> DEFINE c == cmd["host"]
<1>0. Knows("host") /\ c \in CmdType /\ c.pc \in {"row", "tab"}
  BY DEF CmdKnows, BoxTypes, Actors, PortRow, RegisterWebTab, At
<1>1. c.box \in Boxes /\ c.app \in Apps /\ Saved(c.box)
  BY <1>0, Works DEF Actors, Unmade, Unlisted
<1>2. cmd'["host"] = Idle /\ UNCHANGED ledger
  BY DEF PortRow, RegisterWebTab, Finish, BoxTypes, Actors
<1>3. ASSUME PortRow PROVE RowsKnow'
  <2> DEFINE pub == CHOOSE p \in ledger[c.box].pubs : p[1] = c.app
             old == {t \in tabs : t.box = c.box /\ t.app = c.app}
             web == \E t \in old : t.web
             r == [box |-> c.box, app |-> c.app, pub |-> pub[2], web |-> web]
             rows == (tabs \ old) \cup {r}
  <2>1. /\ tabs' = rows /\ torn' = torn \ Mended(c.box, c.app, rows)
        /\ c.pc = "row" /\ c.verb = "expose"
    BY <1>3 DEF PortRow, At
  <2>2. pub \in ledger[c.box].pubs /\ pub[1] = c.app
    <3>1. \E p \in ledger[c.box].pubs : p[1] = c.app
      BY <2>1, TabHas
    <3> QED
      BY <3>1
  <2>3. <<c.app, pub[2]>> \in ledger[c.box].pubs
    <3>1. ledger[c.box].pubs \in SUBSET Publish
      BY <1>1 DEF BoxTypes, Saved, Entry
    <3>2. pub = <<pub[1], pub[2]>>
      BY <2>2, <3>1 DEF Publish
    <3> QED
      BY <2>2, <3>2
  <2>4. web \in BOOLEAN /\
           (web = FALSE => \A t \in tabs : t.box = c.box /\ t.app = c.app
                                             => ~t.web)
    OBVIOUS
  <2>5. rows = {t \in tabs : ~(t.box = c.box /\ t.app = c.app)} \cup {r}
    OBVIOUS
  <2>6. \A t \in tabs : ~Mid(t)
    BY <2>1 DEF Mid
  <2>7. r = [box |-> c.box, app |-> c.app, pub |-> pub[2], web |-> web]
    OBVIOUS
  <2>8. torn' = torn \ Mended(c.box, c.app, tabs')
    BY <2>1
  <2>9. tabs' = {t \in tabs : ~(t.box = c.box /\ t.app = c.app)} \cup {r}
    BY <2>1, <2>5
  <2>10. Written(c.box, c.app, pub[2], web)
    <3> HIDE DEF pub, web, r, rows
    <3> QED
      BY <1>1, <1>2, <2>1, <2>3, <2>4, <2>6, <2>7, <2>8, <2>9 DEF Written
  <2> HIDE DEF pub, old, web, r, rows
  <2> QED
    BY ONLY <1>1, <2>4, <2>10, BoxTypes, OwnPubs, RowsKnow, RowWritten
<1>4. ASSUME RegisterWebTab PROVE RowsKnow'
  <2> DEFINE pub == CHOOSE p \in ledger[c.box].pubs : p[1] = WebApp
             r == [box |-> c.box, app |-> WebApp, pub |-> pub[2], web |-> TRUE]
             rows == {t \in tabs : ~(t.box = c.box /\ t.app = WebApp)} \cup {r}
  <2>1. /\ tabs' = rows /\ torn' = torn \ Mended(c.box, WebApp, rows)
        /\ c.pc = "tab"
    BY <1>4 DEF RegisterWebTab, At
  <2>2. pub \in ledger[c.box].pubs /\ pub[1] = WebApp
    <3>1. \E p \in ledger[c.box].pubs : p[1] = WebApp
      BY <2>1, TabHas
    <3> QED
      BY <3>1
  <2>3. <<WebApp, pub[2]>> \in ledger[c.box].pubs
    <3>1. ledger[c.box].pubs \in SUBSET Publish
      BY <1>1 DEF BoxTypes, Saved, Entry
    <3>2. pub = <<pub[1], pub[2]>>
      BY <2>2, <3>1 DEF Publish
    <3> QED
      BY <2>2, <3>2
  <2>4. c.verb = "add"
    BY <1>0, <2>1 DEF Knows, StepsOf, Running, CmdType, Verbs
  <2>6. \A t \in tabs : ~Mid(t)
    BY <2>1, <2>4 DEF Mid
  <2>7. r = [box |-> c.box, app |-> WebApp, pub |-> pub[2], web |-> TRUE]
    OBVIOUS
  <2>8. /\ torn' = torn \ Mended(c.box, WebApp, tabs')
        /\ tabs' = {t \in tabs : ~(t.box = c.box /\ t.app = WebApp)} \cup {r}
    BY <2>1
  <2>9. WebApp \in Apps /\ TRUE \in BOOLEAN
    BY BoxAssumption
  <2>10. Written(c.box, WebApp, pub[2], TRUE)
    <3> HIDE DEF pub, r, rows
    <3> QED
      BY <1>1, <1>2, <2>3, <2>4, <2>6, <2>7, <2>8, <2>9 DEF Written
  <2> HIDE DEF pub, r, rows
  <2> QED
    BY ONLY <1>1, <2>9, <2>10, BoxTypes, OwnPubs, RowsKnow, RowWritten
<1> QED
  BY <1>3, <1>4

(* and the two that drop rows.                                             *)
LEMMA PortDropKeeps ==
    ASSUME BoxTypes, CmdKnows, OwnPubs, RowsKnow, PortDrop
    PROVE  RowsKnow'
<1> DEFINE c == cmd["host"]
           ports == {t.pub : t \in {x \in tabs : x.box = c.box
                                           /\ x.app = c.app}}
           rows == {t \in tabs : t.pub \notin ports}
           lost == {<<t.box, t.app>> : t \in tabs \ rows}
<1>1. /\ tabs' = rows /\ UNCHANGED ledger /\ c.verb = "unexpose"
      /\ torn' = (torn \ Mended(c.box, c.app, rows))
                 \cup (lost \ {<<c.box, c.app>>})
      /\ cmd'["host"] = Idle /\ c \in CmdType /\ c.pc = "row"
  BY DEF PortDrop, At, Finish, BoxTypes, Actors
<1>2. \A t \in rows : t \in tabs /\ ~(t.box = c.box /\ t.app = c.app)
  OBVIOUS
<1>3. \A x \in Boxes, y \in Apps :
         <<x, y>> \in torn /\ ~(x = c.box /\ y = c.app) => <<x, y>> \in torn'
  BY <1>1 DEF Mended
<1>4. \A t \in tabs : t.box \in Boxes /\ t.app \in Apps
  BY DEF BoxTypes, TabType
<1>5. \A t \in rows : /\ RowTorn(t) => RowTorn(t)'
                      /\ Known(t) => Known(t)'
                      /\ ~Mid(t)
  BY <1>1, <1>2, <1>3, <1>4 DEF RowTorn, Known, Mid, Saved
<1>6. ASSUME NEW d \in Boxes, Saved(d), ledger[d].kind = "web"
      PROVE  \/ <<d, WebApp>> \in torn'
             \/ \E t \in tabs' : t.box = d /\ t.app = WebApp /\ t.web
  <2>1. CASE <<d, WebApp>> \in torn
    <3>1. CASE d = c.box /\ c.app = WebApp
      <4>1. Mended(c.box, c.app, rows) = {}
        BY <1>2, <1>6, <3>1 DEF Mended
      <4> QED
        BY <1>1, <2>1, <4>1
    <3>2. CASE ~(d = c.box /\ c.app = WebApp)
      BY <1>3, <2>1, <3>2, BoxAssumption
    <3> QED
      BY <3>1, <3>2
  <2>2. ASSUME NEW t \in tabs, t.box = d, t.app = WebApp, t.web
        PROVE  <<d, WebApp>> \in torn' \/ t \in tabs'
    <3>1. ~(d = c.box /\ c.app = WebApp)
      BY <1>1, <2>2 DEF CmdKnows, Knows, Actors
    <3>2. t \notin rows => <<d, WebApp>> \in lost \ {<<c.box, c.app>>}
      BY <2>2, <3>1
    <3> QED
      BY <1>1, <3>2
  <2> QED
    BY <1>1, <1>6, <2>1, <2>2 DEF RowsKnow
<1>7. \A d \in Boxes : (Saved(d) /\ ledger[d].kind = "web")' =>
          \/ <<d, WebApp>> \in torn'
          \/ \E t \in tabs' : t.box = d /\ t.app = WebApp /\ t.web
  BY <1>1, <1>6 DEF Saved
<1>8. \A t \in tabs' : (RowTorn(t) \/ Known(t) \/ Mid(t))'
  BY <1>1, <1>2, <1>5 DEF RowsKnow
<1>9. \A t, u \in tabs' : t.pub = u.pub => t = u \/ RowTorn(t)' \/ RowTorn(u)'
  BY <1>1, <1>2, <1>5 DEF RowsKnow
<1>10. \A t, u \in tabs' : t.box = u.box /\ t.app = u.app => t = u
  BY <1>1, <1>2 DEF RowsKnow
<1> HIDE DEF rows, lost
<1> QED
  BY <1>7, <1>8, <1>9, <1>10 DEF RowsKnow

(* A removed box's rows are what its sweep drops.                          *)
LEMMA SweepKeeps ==
    ASSUME BoxTypes, CmdKnows, RowsKnow, SweepTabs
    PROVE  RowsKnow'
<1> DEFINE b == cmd["host"].box
<1>1. /\ tabs' = {t \in tabs : t.box # b} /\ UNCHANGED ledger
      /\ \A x \in Boxes \ {b}, y \in Apps :
            <<x, y>> \in torn => <<x, y>> \in torn'
      /\ cmd'["host"] = Idle /\ cmd["host"].pc = "sweep"
  BY DEF SweepTabs, At, Finish, BoxTypes, Actors, RowsOf
<1>2. b \in Boxes /\ ~Saved(b)
  BY <1>1, Works DEF CmdKnows, Knows, Unlisted, Actors
<1>3. \A t \in tabs : t.box \in Boxes /\ t.app \in Apps
  BY DEF BoxTypes, TabType
<1>4. \A t \in tabs' : /\ t \in tabs
                       /\ RowTorn(t) => RowTorn(t)'
                       /\ Known(t) => Known(t)'
                       /\ ~Mid(t)
  BY <1>1, <1>3 DEF RowTorn, Known, Mid, Saved
<1>5. ASSUME NEW d \in Boxes, Saved(d), ledger[d].kind = "web"
      PROVE  \/ <<d, WebApp>> \in torn'
             \/ \E t \in tabs' : t.box = d /\ t.app = WebApp /\ t.web
  <2>1. d # b /\ WebApp \in Apps
    BY <1>2, <1>5, BoxAssumption
  <2> QED
    BY <1>1, <1>5, <2>1 DEF RowsKnow
<1>6. \A d \in Boxes : (Saved(d) /\ ledger[d].kind = "web")' =>
          \/ <<d, WebApp>> \in torn'
          \/ \E t \in tabs' : t.box = d /\ t.app = WebApp /\ t.web
  BY <1>1, <1>5 DEF Saved
<1>7. \A t \in tabs' : (RowTorn(t) \/ Known(t) \/ Mid(t))'
  BY <1>4 DEF RowsKnow
<1>8. \A t, u \in tabs' : t.pub = u.pub => t = u \/ RowTorn(t)' \/ RowTorn(u)'
  BY <1>4 DEF RowsKnow
<1>9. \A t, u \in tabs' : t.box = u.box /\ t.app = u.app => t = u
  BY <1>4 DEF RowsKnow
<1> QED
  BY <1>6, <1>7, <1>8, <1>9 DEF RowsKnow

(* Every step keeps what is known of the rows.                             *)
LEMMA RowsStep ==
    ASSUME BoxTypes, CmdKnows, OwnPubs, RowsKnow,
           [Next]_vars
    PROVE  RowsKnow'
<1> USE BoxAssumption, EntryAssumption
    DEF RowTorn, Known, Mid, At, Goto, Finish, Actors, Idle, Saved
<1>1. ASSUME NEW a \in Actors, CommandDies(a)
       PROVE  RowsKnow'
  <2>0. /\ torn = {} /\ torn' = Scar(a) /\ UNCHANGED <<ledger, tabs>>
        /\ a = "host" \/ cmd'["host"] = cmd["host"]
    BY <1>1 DEF CommandDies, BoxTypes
  <2>1. UNCHANGED tabs
    BY <2>0
  <2>2. \A b \in Boxes, app \in Apps :
           <<b, app>> \in torn => <<b, app>> \in torn'
    BY <2>0
  <2>3. \A t \in tabs : Known(t) \/ Mid(t) =>
           Known(t)' \/ Mid(t)' \/ RowTorn(t)'
    BY <2>0, ScarRows
  <2>4. \A b \in Boxes : Saved(b)' /\ ledger'[b].kind = "web" =>
           \/ <<b, WebApp>> \in torn'
           \/ cmd'["host"].verb = "add" /\ cmd'["host"].box = b
           \/ /\ Saved(b) /\ ledger[b].kind = "web"
              /\ ~(cmd["host"].verb = "add" /\ cmd["host"].box = b)
    BY <2>0, ScarRows
  <2> QED
    BY ONLY <2>1, <2>2, <2>3, <2>4, BoxTypes, RowsKnow, RowsKept
<1>2. ASSUME CreateSave("host")
       PROVE  RowsKnow'
  <2>0. /\ cmd["host"].verb = "add" /\ cmd["host"].pc = "save"
        /\ cmd'["host"].verb = "add" /\ cmd'["host"].box = cmd["host"].box
        /\ UNCHANGED <<tabs, torn>>
    BY <1>2 DEF CreateSave, BoxTypes, CmdType
  <2>1. UNCHANGED tabs
    BY <2>0
  <2>2. \A b \in Boxes, app \in Apps :
           <<b, app>> \in torn => <<b, app>> \in torn'
    BY <2>0
  <2>3. \A t \in tabs : Known(t) \/ Mid(t) =>
           Known(t)' \/ Mid(t)' \/ RowTorn(t)'
    BY <1>2, <2>0, CreateLedger DEF BoxTypes, TabType
  <2>4. \A b \in Boxes : Saved(b)' /\ ledger'[b].kind = "web" =>
           \/ <<b, WebApp>> \in torn'
           \/ cmd'["host"].verb = "add" /\ cmd'["host"].box = b
           \/ /\ Saved(b) /\ ledger[b].kind = "web"
              /\ ~(cmd["host"].verb = "add" /\ cmd["host"].box = b)
    BY <1>2, <2>0, CreateLedger
  <2> QED
    BY ONLY <2>1, <2>2, <2>3, <2>4, BoxTypes, RowsKnow, RowsKept
<1>3. ASSUME ExposeAgain("host")
       PROVE  RowsKnow'
  BY <1>3, RowsKept DEF ExposeAgain
<1>4. ASSUME ExposeSave("host")
       PROVE  RowsKnow'
  <2>0. /\ cmd["host"].verb = "expose" /\ cmd["host"].pc = "save"
        /\ UNCHANGED <<tabs, torn>>
    BY <1>4 DEF ExposeSave
  <2>1. UNCHANGED tabs
    BY <2>0
  <2>2. \A b \in Boxes, app \in Apps :
           <<b, app>> \in torn => <<b, app>> \in torn'
    BY <2>0
  <2>3. \A t \in tabs : Known(t) \/ Mid(t) =>
           Known(t)' \/ Mid(t)' \/ RowTorn(t)'
    BY <1>4, <2>0, ExposeLedger DEF BoxTypes, TabType
  <2>4. \A b \in Boxes : Saved(b)' /\ ledger'[b].kind = "web" =>
           \/ <<b, WebApp>> \in torn'
           \/ cmd'["host"].verb = "add" /\ cmd'["host"].box = b
           \/ /\ Saved(b) /\ ledger[b].kind = "web"
              /\ ~(cmd["host"].verb = "add" /\ cmd["host"].box = b)
    BY <1>4, <2>0, ExposeLedger
  <2> QED
    BY ONLY <2>1, <2>2, <2>3, <2>4, BoxTypes, RowsKnow, RowsKept
<1>5. ASSUME UnexposeSave("host")
       PROVE  RowsKnow'
  <2>0. /\ cmd["host"].verb = "unexpose" /\ cmd["host"].pc = "save"
        /\ cmd'["host"].verb = "unexpose" /\ cmd'["host"].pc # "save"
        /\ cmd'["host"].app = cmd["host"].app
        /\ cmd'["host"].box = cmd["host"].box
        /\ UNCHANGED <<tabs, torn>>
    BY <1>5 DEF UnexposeSave, BoxTypes, CmdType
  <2>1. UNCHANGED tabs
    BY <2>0
  <2>2. \A b \in Boxes, app \in Apps :
           <<b, app>> \in torn => <<b, app>> \in torn'
    BY <2>0
  <2>3. \A t \in tabs : Known(t) \/ Mid(t) =>
           Known(t)' \/ Mid(t)' \/ RowTorn(t)'
    BY <1>5, <2>0, UnexposeLedger DEF BoxTypes, TabType
  <2>4. \A b \in Boxes : Saved(b)' /\ ledger'[b].kind = "web" =>
           \/ <<b, WebApp>> \in torn'
           \/ cmd'["host"].verb = "add" /\ cmd'["host"].box = b
           \/ /\ Saved(b) /\ ledger[b].kind = "web"
              /\ ~(cmd["host"].verb = "add" /\ cmd["host"].box = b)
    BY <1>5, <2>0, UnexposeLedger
  <2> QED
    BY ONLY <2>1, <2>2, <2>3, <2>4, BoxTypes, RowsKnow, RowsKept
<1>6. ASSUME FoldersSame("host")
       PROVE  RowsKnow'
  BY <1>6, RowsKept DEF FoldersSame
<1>7. ASSUME FoldersSave("host")
       PROVE  RowsKnow'
  <2>0. /\ cmd["host"].verb = "folders" /\ cmd["host"].pc = "save"
        /\ UNCHANGED <<tabs, torn>>
    BY <1>7 DEF FoldersSave
  <2>1. UNCHANGED tabs
    BY <2>0
  <2>2. \A b \in Boxes, app \in Apps :
           <<b, app>> \in torn => <<b, app>> \in torn'
    BY <2>0
  <2>3. \A t \in tabs : Known(t) \/ Mid(t) =>
           Known(t)' \/ Mid(t)' \/ RowTorn(t)'
    BY <1>7, <2>0, FoldersLedger DEF BoxTypes, TabType
  <2>4. \A b \in Boxes : Saved(b)' /\ ledger'[b].kind = "web" =>
           \/ <<b, WebApp>> \in torn'
           \/ cmd'["host"].verb = "add" /\ cmd'["host"].box = b
           \/ /\ Saved(b) /\ ledger[b].kind = "web"
              /\ ~(cmd["host"].verb = "add" /\ cmd["host"].box = b)
    BY <1>7, <2>0, FoldersLedger
  <2> QED
    BY ONLY <2>1, <2>2, <2>3, <2>4, BoxTypes, RowsKnow, RowsKept
<1>8. ASSUME PoolEmpty("host")
       PROVE  RowsKnow'
  <2>0. /\ cmd["host"].pc = "save" /\ cmd'["host"] = Idle
        /\ Knows("host") /\ UNCHANGED <<ledger, tabs, torn>>
    BY <1>8 DEF PoolEmpty, BoxTypes, CmdKnows
  <2>5. \A b \in Boxes : cmd["host"].verb = "add" /\ cmd["host"].box = b =>
           ~Saved(b)
    BY <2>0 DEF Knows, Unmade
  <2>1. UNCHANGED tabs
    BY <2>0
  <2>2. \A b \in Boxes, app \in Apps :
           <<b, app>> \in torn => <<b, app>> \in torn'
    BY <2>0
  <2>3. \A t \in tabs : Known(t) \/ Mid(t) =>
           Known(t)' \/ Mid(t)' \/ RowTorn(t)'
    BY <2>0
  <2>4. \A b \in Boxes : Saved(b)' /\ ledger'[b].kind = "web" =>
           \/ <<b, WebApp>> \in torn'
           \/ cmd'["host"].verb = "add" /\ cmd'["host"].box = b
           \/ /\ Saved(b) /\ ledger[b].kind = "web"
              /\ ~(cmd["host"].verb = "add" /\ cmd["host"].box = b)
    BY <2>0, <2>5
  <2> QED
    BY ONLY <2>1, <2>2, <2>3, <2>4, BoxTypes, RowsKnow, RowsKept
<1>9. ASSUME NEW a \in Actors, DropContainer(a)
       PROVE  RowsKnow'
  BY <1>9, RowsKept DEF DropContainer
<1>10. ASSUME NEW a \in Actors, RunBox(a)
       PROVE  RowsKnow'
  BY <1>10, RowsKept DEF RunBox, Baked
<1>11. ASSUME NEW a \in Actors, BoxFails(a)
       PROVE  RowsKnow'
  <2>0. /\ torn = {}
        /\ torn' = Scar(a) \/ torn' = Scar(a) \ {<<cmd[a].box, "run">>}
        /\ UNCHANGED <<ledger, tabs>>
        /\ \A b \in Boxes, app \in Apps : <<b, app>> # <<cmd[a].box, "run">>
    BY <1>11, FailureIs
  <2>1. UNCHANGED tabs
    BY <2>0
  <2>2. \A b \in Boxes, app \in Apps :
           <<b, app>> \in torn => <<b, app>> \in torn'
    BY <2>0
  <2>5. CASE a = "inside"
    <3>1. cmd'["host"] = cmd["host"]
      BY <1>11, <2>5, FailureIs DEF Finish, Resume, BoxTypes
    <3> QED
      BY <2>0, <2>2, <3>1, RowsKept
  <2>6. CASE a = "host"
    <3>1. \A t \in tabs : Mid(t) => RowTorn(t)'
      BY <2>0, <2>6, ScarRows DEF BoxTypes, TabType
    <3>2. \A b \in Boxes : Saved(b) /\ ledger[b].kind = "web" =>
             \/ <<b, WebApp>> \in torn'
             \/ ~(cmd["host"].verb = "add" /\ cmd["host"].box = b)
      BY <2>0, <2>6, ScarRows
    <3> QED
      BY <2>0, <2>2, <3>1, <3>2, RowsKept
  <2> QED
    BY <2>5, <2>6
<1>12. ASSUME NEW a \in Actors, LaunchForwarders(a)
       PROVE  RowsKnow'
  <2>0. /\ torn' = torn \ {<<cmd[a].box, "run">>} /\ cmd[a].pc = "fwd"
        /\ Resume(a) /\ UNCHANGED <<ledger, tabs>>
        /\ \A b \in Boxes, app \in Apps : <<b, app>> # <<cmd[a].box, "run">>
    BY <1>12 DEF LaunchForwarders
  <2>1. UNCHANGED tabs
    BY <2>0
  <2>2. \A b \in Boxes, app \in Apps :
           <<b, app>> \in torn => <<b, app>> \in torn'
    BY <2>0
  <2>5. CASE a = "inside"
    <3>1. cmd'["host"] = cmd["host"]
      BY <2>0, <2>5 DEF Resume, BoxTypes
    <3> QED
      BY <2>0, <2>2, <3>1, RowsKept
  <2>6. CASE a = "host"
    <3>1. Knows("host") /\ cmd["host"] \in CmdType /\ cmd["host"].box # NoBox
      BY <2>0, <2>6 DEF CmdKnows, BoxTypes, Knows
    <3>2. cmd["host"].verb = "unexpose" =>
             /\ cmd'["host"].verb = "unexpose" /\ cmd'["host"].pc = "row"
             /\ cmd'["host"].app = cmd["host"].app
             /\ cmd'["host"].box = cmd["host"].box
      BY <2>0, <2>6, <3>1 DEF Resume, After, CmdType, BoxTypes
    <3>3. cmd["host"].verb = "add" /\ cmd["host"].kind = "web" =>
             cmd'["host"].verb = "add" /\ cmd'["host"].box = cmd["host"].box
      BY <2>0, <2>6, <3>1 DEF Resume, After, CmdType, BoxTypes
    <3>4. cmd["host"].verb = "add" /\ Saved(cmd["host"].box) =>
             ledger[cmd["host"].box].kind = cmd["host"].kind
      BY <3>1 DEF Knows
    <3>5. \A t \in tabs : Known(t) \/ Mid(t) => Known(t)' \/ Mid(t)'
      BY <2>0, <2>6, <3>2
    <3>6. \A b \in Boxes : Saved(b) /\ ledger[b].kind = "web" =>
             \/ cmd'["host"].verb = "add" /\ cmd'["host"].box = b
             \/ ~(cmd["host"].verb = "add" /\ cmd["host"].box = b)
      BY <3>3, <3>4
    <3> QED
      BY <2>0, <2>2, <3>5, <3>6, RowsKept
  <2> QED
    BY <2>5, <2>6
<1>13. ASSUME PlainStart
       PROVE  RowsKnow'
  BY <1>13, RowsKept DEF PlainStart
<1>14. ASSUME NEW b \in Boxes, Stop(b)
       PROVE  RowsKnow'
  BY <1>14, RowsKept DEF Stop
<1>15. ASSUME NEW b \in Boxes, Restart(b)
       PROVE  RowsKnow'
  BY <1>15, RowsKept DEF Restart, Begin
<1>16. ASSUME NEW b \in Boxes, Start(b)
       PROVE  RowsKnow'
  BY <1>16, RowsKept DEF Start, Begin
<1>17. ASSUME NEW b \in Boxes, BoxAdd(b)
       PROVE  RowsKnow'
  BY <1>17, RowsKept DEF BoxAdd, Begin, Addable
<1>18. ASSUME WireBox
       PROVE  RowsKnow'
  BY <1>18, RowsKept DEF WireBox
<1>19. ASSUME RegisterWebTab
       PROVE  RowsKnow'
  BY ONLY <1>19, BoxTypes, CmdKnows, OwnPubs, RowsKnow, PortRowKeeps
<1>20. ASSUME NEW b \in Boxes, PortAdd(b)
       PROVE  RowsKnow'
  BY <1>20, RowsKept DEF PortAdd, Begin
<1>21. ASSUME PortRow
       PROVE  RowsKnow'
  BY ONLY <1>21, BoxTypes, CmdKnows, OwnPubs, RowsKnow, PortRowKeeps
<1>22. ASSUME PortRemove
       PROVE  RowsKnow'
  BY <1>22, RowsKept DEF PortRemove, Begin
<1>23. ASSUME PortDrop
       PROVE  RowsKnow'
  BY ONLY <1>23, BoxTypes, CmdKnows, OwnPubs, RowsKnow, PortDropKeeps
<1>24. ASSUME NEW b \in Boxes, BoxFolders(b)
       PROVE  RowsKnow'
  BY <1>24, RowsKept DEF BoxFolders, Begin
<1>25. ASSUME NEW b \in Boxes, BoxRemove(b)
       PROVE  RowsKnow'
  BY <1>25, RowsKept DEF BoxRemove, Begin
<1>26. ASSUME DiscardContainer
       PROVE  RowsKnow'
  BY <1>26, RowsKept DEF DiscardContainer
<1>27. ASSUME DiscardEntry
       PROVE  RowsKnow'
  <2>0. /\ cmd["host"].pc = "del" /\ cmd'["host"].pc = "sweep"
        /\ cmd["host"].verb = "remove"
        /\ cmd'["host"].box = cmd["host"].box
        /\ UNCHANGED <<tabs, torn>>
    <3>1. Knows("host") /\ cmd["host"] \in CmdType /\ cmd["host"].pc = "del"
      BY <1>27 DEF DiscardEntry, BoxTypes, CmdKnows
    <3>2. cmd["host"].verb = "remove"
      BY <3>1 DEF Knows, StepsOf, Running, CmdType, Verbs
    <3> QED
      BY <1>27, <3>1, <3>2 DEF DiscardEntry, BoxTypes, CmdType
  <2>1. UNCHANGED tabs
    BY <2>0
  <2>2. \A b \in Boxes, app \in Apps :
           <<b, app>> \in torn => <<b, app>> \in torn'
    BY <2>0
  <2>3. \A t \in tabs : Known(t) \/ Mid(t) =>
           Known(t)' \/ Mid(t)' \/ RowTorn(t)'
    BY <1>27, <2>0, DiscardLedger DEF BoxTypes, TabType
  <2>4. \A b \in Boxes : Saved(b)' /\ ledger'[b].kind = "web" =>
           \/ <<b, WebApp>> \in torn'
           \/ cmd'["host"].verb = "add" /\ cmd'["host"].box = b
           \/ /\ Saved(b) /\ ledger[b].kind = "web"
              /\ ~(cmd["host"].verb = "add" /\ cmd["host"].box = b)
    BY <1>27, <2>0, DiscardLedger
  <2> QED
    BY ONLY <2>1, <2>2, <2>3, <2>4, BoxTypes, RowsKnow, RowsKept
<1>28. ASSUME SweepTabs
       PROVE  RowsKnow'
  BY ONLY <1>28, BoxTypes, CmdKnows, OwnPubs, RowsKnow, SweepKeeps
<1>29. ASSUME Recreate
       PROVE  RowsKnow'
  <2>0. /\ cmd["host"] = Idle /\ cmd'["host"].pc = "loop"
        /\ cmd'["host"].verb = "recreate" /\ torn \subseteq torn'
        /\ UNCHANGED <<ledger, tabs>>
    BY <1>29 DEF Recreate
  <2>1. UNCHANGED tabs
    BY <2>0
  <2>2. \A b \in Boxes, app \in Apps :
           <<b, app>> \in torn => <<b, app>> \in torn'
    BY <2>0
  <2>3. \A t \in tabs : Known(t) \/ Mid(t) =>
           Known(t)' \/ Mid(t)' \/ RowTorn(t)'
    BY <2>0
  <2>4. \A b \in Boxes : Saved(b)' /\ ledger'[b].kind = "web" =>
           \/ <<b, WebApp>> \in torn'
           \/ cmd'["host"].verb = "add" /\ cmd'["host"].box = b
           \/ /\ Saved(b) /\ ledger[b].kind = "web"
              /\ ~(cmd["host"].verb = "add" /\ cmd["host"].box = b)
    BY <2>0
  <2> QED
    BY ONLY <2>1, <2>2, <2>3, <2>4, BoxTypes, RowsKnow, RowsKept
<1>30. ASSUME Attach
       PROVE  RowsKnow'
  BY <1>30, RowsKept DEF Attach
<1>31. ASSUME LoopBox
       PROVE  RowsKnow'
  <2>0. /\ cmd["host"].pc = "loop"
        /\ cmd["host"].verb \in {"recreate", "attach"}
        /\ UNCHANGED <<ledger, tabs, torn>>
    <3>1. Knows("host") /\ cmd["host"] \in CmdType /\ cmd["host"].pc = "loop"
      BY <1>31 DEF LoopBox, BoxTypes, CmdKnows
    <3>2. cmd["host"].verb \in {"recreate", "attach"}
      BY <3>1 DEF Knows, StepsOf, Running, CmdType, Verbs
    <3> QED
      BY <1>31, <3>1, <3>2 DEF LoopBox
  <2>1. UNCHANGED tabs
    BY <2>0
  <2>2. \A b \in Boxes, app \in Apps :
           <<b, app>> \in torn => <<b, app>> \in torn'
    BY <2>0
  <2>3. \A t \in tabs : Known(t) \/ Mid(t) =>
           Known(t)' \/ Mid(t)' \/ RowTorn(t)'
    BY <2>0
  <2>4. \A b \in Boxes : Saved(b)' /\ ledger'[b].kind = "web" =>
           \/ <<b, WebApp>> \in torn'
           \/ cmd'["host"].verb = "add" /\ cmd'["host"].box = b
           \/ /\ Saved(b) /\ ledger[b].kind = "web"
              /\ ~(cmd["host"].verb = "add" /\ cmd["host"].box = b)
    BY <2>0
  <2> QED
    BY ONLY <2>1, <2>2, <2>3, <2>4, BoxTypes, RowsKnow, RowsKept
<1>32. ASSUME LoopEnds
       PROVE  RowsKnow'
  <2>0. /\ cmd["host"].pc = "loop"
        /\ cmd["host"].verb \in {"recreate", "attach"}
        /\ UNCHANGED <<ledger, tabs, torn>>
    <3>1. Knows("host") /\ cmd["host"] \in CmdType /\ cmd["host"].pc = "loop"
      BY <1>32 DEF LoopEnds, BoxTypes, CmdKnows
    <3>2. cmd["host"].verb \in {"recreate", "attach"}
      BY <3>1 DEF Knows, StepsOf, Running, CmdType, Verbs
    <3> QED
      BY <1>32, <3>1, <3>2 DEF LoopEnds
  <2>1. UNCHANGED tabs
    BY <2>0
  <2>2. \A b \in Boxes, app \in Apps :
           <<b, app>> \in torn => <<b, app>> \in torn'
    BY <2>0
  <2>3. \A t \in tabs : Known(t) \/ Mid(t) =>
           Known(t)' \/ Mid(t)' \/ RowTorn(t)'
    BY <2>0
  <2>4. \A b \in Boxes : Saved(b)' /\ ledger'[b].kind = "web" =>
           \/ <<b, WebApp>> \in torn'
           \/ cmd'["host"].verb = "add" /\ cmd'["host"].box = b
           \/ /\ Saved(b) /\ ledger[b].kind = "web"
              /\ ~(cmd["host"].verb = "add" /\ cmd["host"].box = b)
    BY <2>0
  <2> QED
    BY ONLY <2>1, <2>2, <2>3, <2>4, BoxTypes, RowsKnow, RowsKept
<1>33. ASSUME GiteaMoves
       PROVE  RowsKnow'
  BY <1>33, RowsKept DEF GiteaMoves
<1>34. ASSUME NEW f \in Folders, FolderChanges(f)
       PROVE  RowsKnow'
  BY <1>34, RowsKept DEF FolderChanges
<1>35. ASSUME NEW b \in Boxes, BoxRestarts(b)
       PROVE  RowsKnow'
  BY <1>35, RowsKept DEF BoxRestarts
<1>36. CASE UNCHANGED vars
  BY ONLY <1>36, RowsKnow DEF vars, RowsKnow, RowTorn, Known, Mid, Saved
<1> QED
  BY ONLY <1>1, <1>2, <1>3, <1>4, <1>5, <1>6, <1>7, <1>8, <1>9, <1>10, <1>11,
  <1>12, <1>13, <1>14, <1>15, <1>16, <1>17, <1>18, <1>19, <1>20, <1>21,
  <1>22, <1>23, <1>24, <1>25, <1>26, <1>27, <1>28, <1>29, <1>30, <1>31,
  <1>32, <1>33, <1>34, <1>35, <1>36,
     [Next]_vars DEF Next, LedgerStep, RunStep, HostStep, Request, BoxFails,
                      Actors

(* The container, the entry and the world of a box keep fitting.           *)
Unmoved(x) ==
    /\ cont'[x] = cont[x] /\ ledger'[x] = ledger[x]
    /\ x \in moved => x \in moved'
    /\ Saved(x) => x \in moved' \/
          /\ KeptFolders(x)' = KeptFolders(x)
          /\ NeedsGitea(x) => world'.staged = world.staged
    /\ <<x, "run">> \in torn => <<x, "run">> \in torn'

(* The commands are where they were with a box, or one died running it.    *)
SameWork(x) ==
    /\ \A e \in Actors : cmd'[e].box = x
          /\ cmd'[e].pc \in {"run", "del", "sweep", "fwd", "start"} =>
             cmd[e].box = x /\ cmd[e].pc = cmd'[e].pc
    /\ \A e \in Actors : cmd[e].box = x /\ cmd[e].pc \in {"rm", "fwd"} =>
          \/ cmd'[e].box = x /\ cmd'[e].pc \in {"rm", "fwd"}
          \/ <<x, "run">> \in torn'

-----------------------------------------------------------------------------
(* The boxes: containers                                                   *)

(* A box that a step leaves alone, with the same work on it.               *)
LEMMA ContKept ==
    ASSUME NEW x \in Boxes, ContOk(x), Unmoved(x), SameWork(x)
    PROVE  ContOk(x)'
<1>1. \A pcs \in {{"run"}, {"del", "sweep"}, {"fwd"}, {"start"}} :
         BoxAt(x, pcs)' => BoxAt(x, pcs)
  BY DEF SameWork, BoxAt
<1>2. BoxAt(x, {"rm", "fwd"}) =>
         BoxAt(x, {"rm", "fwd"})' \/ <<x, "run">> \in torn'
  BY DEF SameWork, BoxAt
<1>3. Fits(x) /\ Saved(x) => Fits(x)'
  BY DEF Fits, Unmoved, NeedsGitea, Saved
<1>4. (Up(x)' <=> Up(x)) /\ (Saved(x)' <=> Saved(x))
  BY DEF Up, Saved, Unmoved
<1>5. Saved(x) /\ (x \in moved \/ ~Stale(x)) => (x \in moved \/ ~Stale(x))'
  BY DEF Stale, Unmoved, NeedsGitea, Saved
<1>6. /\ BoxAt(x, {"run"})' => cont'[x] = Gone
      /\ BoxAt(x, {"del", "sweep"})' => cont'[x] = Gone \/ LeftOver(x)'
  BY <1>1 DEF ContOk, Unmoved, LeftOver
<1>7. BoxAt(x, {"fwd"})' => Saved(x)' /\ Up(x)' /\ Fits(x)'
  BY <1>1, <1>3, <1>4 DEF ContOk, Up
<1>8. BoxAt(x, {"start"})' =>
         /\ Saved(x)' /\ cont'[x].state # "absent"
         /\ (x \in moved \/ ~Stale(x))'
  BY <1>1, <1>4, <1>5 DEF ContOk, Unmoved
<1>9. Saved(x)' /\ cont'[x].state # "absent" /\ ~BoxAt(x, {"rm", "fwd"})'
      /\ <<x, "run">> \notin torn' =>
         /\ Fits(x)'
         /\ Up(x)' =>
               cont'[x].fwd = AppsOf(ledger'[x].pubs) \ cont'[x].missed
  BY <1>2, <1>3, <1>4 DEF ContOk, Unmoved
<1>10. cont'[x].state # "absent" => Saved(x)' \/ LeftOver(x)'
  BY <1>4 DEF ContOk, Unmoved, LeftOver
<1> QED
  BY <1>6, <1>7, <1>8, <1>9, <1>10, Gone' = Gone
     DEF ContOk, Up, Saved, Fits, AppsOf, Gone, LeftOver

(* A container that was dropped has nothing to show,                       *)
LEMMA GoneOk ==
    ASSUME NEW x \in Boxes, cont'[x] = Gone,
           \A e \in Actors : cmd'[e].box = x =>
              cmd'[e].pc \notin {"fwd", "start"}
    PROVE  ContOk(x)'
BY DEF ContOk, BoxAt, Gone, Up

(* and one about to be dropped little.                                     *)
LEMMA RmOk ==
    ASSUME NEW x \in Boxes, NEW a \in Actors,
           cmd'[a].box = x, cmd'[a].pc = "rm",
           \A e \in Actors \ {a} : cmd'[e].box # x,
           cont'[x].state # "absent" => ledger'[x] # NoEntry
    PROVE  ContOk(x)'
BY DEF ContOk, BoxAt, Saved

(* A command that another actor's box is not disturbed by.                 *)
LEMMA QuietWork ==
    ASSUME NEW a \in Actors, NEW x \in Boxes,
           \A e \in Actors \ {a} : cmd'[e] = cmd[e],
           cmd[a].box = x => cmd[a].pc \notin {"rm", "fwd"},
           cmd'[a].box = x =>
              cmd'[a].pc \notin {"run", "del", "sweep", "fwd", "start"}
    PROVE  SameWork(x)
BY DEF SameWork

(* A mended row is the one that was written.                               *)
LEMMA MendedOnly ==
    ASSUME NEW b, NEW app, NEW rows, NEW y, y[2] # app
    PROVE  y \notin Mended(b, app, rows)
BY DEF Mended

(* One command has a box at a time.                                        *)
LEMMA Alone ==
    ASSUME CmdKnows, NEW a \in Actors, NEW x \in Boxes, cmd[a].box = x
    PROVE  \A e \in Actors \ {a} : cmd[e].box # x
BY BoxAssumption DEF CmdKnows, Apart, Actors

(* A box that is not busy is no command's.                                 *)
LEMMA NotBusy ==
    ASSUME NEW x, x \notin Busy
    PROVE  \A e \in Actors : cmd[e].box # x
BY DEF Busy

(* A step of one actor alone.                                              *)
Lone(a) == \A e \in Actors \ {a} : cmd'[e] = cmd[e]

(* The steps of a command change its own record alone.                     *)
LEMMA LoneSteps ==
    ASSUME BoxTypes, NEW a \in Actors,
           \/ Finish(a) \/ Resume(a) \/ \E to : Goto(a, to)
           \/ \E verb, pc, b, app, kind, set :
                 Begin(a, verb, pc, b, app, kind, set)
    PROVE  Lone(a)
BY DEF BoxTypes, Lone, Finish, Resume, Goto, Begin

(* Every step keeps the address that boxes are run with.                   *)
LEMMA StagedStep ==
    ASSUME BoxTypes, CmdKnows, Staged,
           [Next]_vars
    PROVE  Staged'
<1> USE BoxAssumption, EntryAssumption
    DEF BoxTypes, ContType, Gone, Staged
<1>1. ASSUME NEW a \in Actors, CommandDies(a)
       PROVE  Staged'
  BY <1>1 DEF CommandDies
<1>2. ASSUME CreateSave("host")
       PROVE  Staged'
  BY <1>2 DEF CreateSave
<1>3. ASSUME ExposeAgain("host")
       PROVE  Staged'
  BY <1>3 DEF ExposeAgain
<1>4. ASSUME ExposeSave("host")
       PROVE  Staged'
  BY <1>4 DEF ExposeSave
<1>5. ASSUME UnexposeSave("host")
       PROVE  Staged'
  BY <1>5 DEF UnexposeSave
<1>6. ASSUME FoldersSame("host")
       PROVE  Staged'
  BY <1>6 DEF FoldersSame
<1>7. ASSUME FoldersSave("host")
       PROVE  Staged'
  BY <1>7 DEF FoldersSave
<1>8. ASSUME PoolEmpty("host")
       PROVE  Staged'
  BY <1>8 DEF PoolEmpty
<1>9. ASSUME NEW a \in Actors, DropContainer(a)
       PROVE  Staged'
  BY <1>9 DEF DropContainer
<1>10. ASSUME NEW a \in Actors, RunBox(a)
       PROVE  Staged'
  BY <1>10 DEF RunBox, Baked
<1>11. ASSUME NEW a \in Actors, BoxFails(a)
       PROVE  Staged'
  BY <1>11 DEF BoxFails, DropFails, RunFails, RunLeavesHusk, Baked
<1>12. ASSUME NEW a \in Actors, LaunchForwarders(a)
       PROVE  Staged'
  <2>1. PICK set : cont' = [cont EXCEPT ![cmd[a].box] =
                              Serving(@, ledger[cmd[a].box].pubs, set)]
    BY <1>12 DEF LaunchForwarders
  <2> QED
    BY <1>12, <2>1 DEF LaunchForwarders, Serving
<1>13. ASSUME PlainStart
       PROVE  Staged'
  <2> DEFINE d == cmd["inside"].box
  <2>1. PICK set : cont' = [cont EXCEPT ![d] = Serving(@, ledger[d].pubs, set)]
    BY <1>13 DEF PlainStart
  <2> QED
    BY <1>13, <2>1 DEF PlainStart, Serving
<1>14. ASSUME NEW b \in Boxes, Stop(b)
       PROVE  Staged'
  BY <1>14 DEF Stop
<1>15. ASSUME NEW b \in Boxes, Restart(b)
       PROVE  Staged'
  BY <1>15 DEF Restart, Begin
<1>16. ASSUME NEW b \in Boxes, Start(b)
       PROVE  Staged'
  BY <1>16 DEF Start, Begin
<1>17. ASSUME NEW b \in Boxes, BoxAdd(b)
       PROVE  Staged'
  BY <1>17 DEF BoxAdd, Begin, Addable
<1>18. ASSUME WireBox
       PROVE  Staged'
  BY <1>18 DEF WireBox
<1>19. ASSUME RegisterWebTab
       PROVE  Staged'
  BY <1>19 DEF RegisterWebTab
<1>20. ASSUME NEW b \in Boxes, PortAdd(b)
       PROVE  Staged'
  BY <1>20 DEF PortAdd, Begin
<1>21. ASSUME PortRow
       PROVE  Staged'
  BY <1>21 DEF PortRow
<1>22. ASSUME PortRemove
       PROVE  Staged'
  BY <1>22 DEF PortRemove, Begin
<1>23. ASSUME PortDrop
       PROVE  Staged'
  BY <1>23 DEF PortDrop
<1>24. ASSUME NEW b \in Boxes, BoxFolders(b)
       PROVE  Staged'
  BY <1>24 DEF BoxFolders, Begin
<1>25. ASSUME NEW b \in Boxes, BoxRemove(b)
       PROVE  Staged'
  BY <1>25 DEF BoxRemove, Begin
<1>26. ASSUME DiscardContainer
       PROVE  Staged'
  BY <1>26 DEF DiscardContainer
<1>27. ASSUME DiscardEntry
       PROVE  Staged'
  BY <1>27 DEF DiscardEntry
<1>28. ASSUME SweepTabs
       PROVE  Staged'
  BY <1>28 DEF SweepTabs
<1>29. ASSUME Recreate
       PROVE  Staged'
  <2>1. cont' = [b \in Boxes |-> Gone] /\ world' = world
    BY <1>29 DEF Recreate, Scar, Idle, Saved, Actors
  <2>2. \A b \in Boxes : cont'[b].gitea = 0
    BY ONLY <2>1 DEF Gone
  <2> QED
    BY ONLY Staged, <2>1, <2>2 DEF Staged
<1>30. ASSUME Attach
       PROVE  Staged'
  BY <1>30 DEF Attach
<1>31. ASSUME LoopBox
       PROVE  Staged'
  BY <1>31 DEF LoopBox
<1>32. ASSUME LoopEnds
       PROVE  Staged'
  BY <1>32 DEF LoopEnds
<1>33. ASSUME GiteaMoves
       PROVE  Staged'
  BY <1>33 DEF GiteaMoves
<1>34. ASSUME NEW f \in Folders, FolderChanges(f)
       PROVE  Staged'
  BY <1>34 DEF FolderChanges
<1>35. ASSUME NEW b \in Boxes, BoxRestarts(b)
       PROVE  Staged'
  BY <1>35 DEF BoxRestarts
<1>36. CASE UNCHANGED vars
  BY <1>36 DEF vars
<1> QED
  BY ONLY <1>1, <1>2, <1>3, <1>4, <1>5, <1>6, <1>7, <1>8, <1>9, <1>10, <1>11,
  <1>12, <1>13, <1>14, <1>15, <1>16, <1>17, <1>18, <1>19, <1>20, <1>21,
  <1>22, <1>23, <1>24, <1>25, <1>26, <1>27, <1>28, <1>29, <1>30, <1>31,
  <1>32, <1>33, <1>34, <1>35, <1>36,
     [Next]_vars DEF Next, LedgerStep, RunStep, HostStep, Request, BoxFails,
                      Actors

(* Every step leaves every container as known.                             *)
LEMMA ContStep ==
    ASSUME BoxTypes, CmdKnows, ContKnows, NEW x \in Boxes,
           [Next]_vars
    PROVE  ContOk(x)'
<1> USE BoxAssumption, EntryAssumption
    DEF At, Goto, Finish, Actors, Idle, Saved
<1>1. ASSUME NEW a \in Actors, CommandDies(a)
       PROVE  ContOk(x)'
  <2>1. SameWork(x)
    BY <1>1 DEF CommandDies, SameWork, Scar, BoxTypes, CmdType
  <2>2. Unmoved(x)
    BY <1>1 DEF CommandDies, Unmoved, KeptFolders, NeedsGitea
  <2> QED
    BY <2>1, <2>2, ContKept DEF ContKnows
<1>2. ASSUME CreateSave("host")
       PROVE  ContOk(x)'
  <2> DEFINE b == cmd["host"].box
  <2>1. /\ b \in Boxes /\ ledger'[b] # NoEntry
        /\ x # b => ledger'[x] = ledger[x]
    BY <1>2, CreateLedger
  <2>2. /\ cmd["host"].pc \in {"save", "del"} /\ Lone("host")
        /\ cmd'["host"].box = b /\ cmd'["host"].pc = "rm"
        /\ UNCHANGED <<cont, world, moved, torn>>
    BY <1>2, LoneSteps DEF CreateSave, BoxTypes, CmdType
  <2>3. CASE x = b
    BY <2>1, <2>2, <2>3, RmOk, Alone DEF Lone
  <2>4. CASE x # b
    <3>1. SameWork(x)
      BY <2>2, <2>4, QuietWork DEF Lone
    <3>2. Unmoved(x)
      BY <2>1, <2>2, <2>4 DEF Unmoved, KeptFolders, NeedsGitea
    <3> QED
      BY <3>1, <3>2, ContKept DEF ContKnows
  <2> QED
    BY <2>3, <2>4
<1>3. ASSUME ExposeAgain("host")
       PROVE  ContOk(x)'
  <2>1. Lone("host")
    BY <1>3, LoneSteps DEF ExposeAgain
  <2>2. SameWork(x)
    BY <1>3, <2>1, QuietWork DEF Lone, ExposeAgain
  <2>3. Unmoved(x)
    BY <1>3 DEF Unmoved, KeptFolders, NeedsGitea, ExposeAgain
  <2> QED
    BY <2>2, <2>3, ContKept DEF ContKnows
<1>4. ASSUME ExposeSave("host")
       PROVE  ContOk(x)'
  <2> DEFINE b == cmd["host"].box
  <2>1. /\ b \in Boxes /\ ledger'[b] # NoEntry
        /\ x # b => ledger'[x] = ledger[x]
    BY <1>4, ExposeLedger
  <2>2. /\ cmd["host"].pc \in {"save", "del"} /\ Lone("host")
        /\ cmd'["host"].box = b /\ cmd'["host"].pc = "rm"
        /\ UNCHANGED <<cont, world, moved, torn>>
    BY <1>4, LoneSteps DEF ExposeSave, BoxTypes, CmdType
  <2>3. CASE x = b
    BY <2>1, <2>2, <2>3, RmOk, Alone DEF Lone
  <2>4. CASE x # b
    <3>1. SameWork(x)
      BY <2>2, <2>4, QuietWork DEF Lone
    <3>2. Unmoved(x)
      BY <2>1, <2>2, <2>4 DEF Unmoved, KeptFolders, NeedsGitea
    <3> QED
      BY <3>1, <3>2, ContKept DEF ContKnows
  <2> QED
    BY <2>3, <2>4
<1>5. ASSUME UnexposeSave("host")
       PROVE  ContOk(x)'
  <2> DEFINE b == cmd["host"].box
             kept == {p \in ledger[b].pubs : p[1] # cmd["host"].app}
  <2>1. /\ b \in Boxes /\ ledger'[b] # NoEntry /\ ledger[b] \in Entry
        /\ x # b => ledger'[x] = ledger[x]
    BY <1>5, UnexposeLedger, Works
       DEF UnexposeSave, At, Unmade, Unlisted, Actors
  <2>2. /\ cmd["host"].pc = "save" /\ Lone("host")
        /\ cmd'["host"].box = b /\ cmd'["host"].pc \in {"rm", "row"}
        /\ UNCHANGED <<cont, world, moved, torn>>
    BY <1>5, LoneSteps DEF UnexposeSave, BoxTypes, CmdType
  <2>3. CASE x = b /\ cmd'["host"].pc = "rm"
    BY <2>1, <2>2, <2>3, RmOk, Alone DEF Lone
  <2>4. ASSUME x # b \/ cmd'["host"].pc = "row" PROVE ContOk(x)'
    <3>1. SameWork(x)
      BY <2>2, <2>4, QuietWork DEF Lone
    <3>2. cmd'["host"].pc = "row" => kept = ledger[b].pubs
      BY <1>5 DEF UnexposeSave, BoxTypes, CmdType
    <3>3. kept = ledger[b].pubs => ledger' = ledger
      <4>1. ledger' = [ledger EXCEPT ![b].pubs = kept]
        BY <1>5 DEF UnexposeSave
      <4> HIDE DEF kept
      <4> QED
        BY <2>1, <4>1 DEF BoxTypes, Entry
    <3>4. ledger'[x] = ledger[x]
      BY <2>1, <2>4, <3>2, <3>3
    <3>5. Unmoved(x)
      BY <2>2, <3>4 DEF Unmoved, KeptFolders, NeedsGitea
    <3> QED
      BY <3>1, <3>5, ContKept DEF ContKnows
  <2> QED
    BY <2>2, <2>3, <2>4
<1>6. ASSUME FoldersSame("host")
       PROVE  ContOk(x)'
  <2>1. Lone("host")
    BY <1>6, LoneSteps DEF FoldersSame
  <2>2. SameWork(x)
    BY <1>6, <2>1, QuietWork DEF Lone, FoldersSame
  <2>3. Unmoved(x)
    BY <1>6 DEF Unmoved, KeptFolders, NeedsGitea, FoldersSame
  <2> QED
    BY <2>2, <2>3, ContKept DEF ContKnows
<1>7. ASSUME FoldersSave("host")
       PROVE  ContOk(x)'
  <2> DEFINE b == cmd["host"].box
  <2>1. /\ b \in Boxes /\ ledger'[b] # NoEntry
        /\ x # b => ledger'[x] = ledger[x]
    BY <1>7, FoldersLedger
  <2>2. /\ cmd["host"].pc \in {"save", "del"} /\ Lone("host")
        /\ cmd'["host"].box = b /\ cmd'["host"].pc = "rm"
        /\ UNCHANGED <<cont, world, moved, torn>>
    BY <1>7, LoneSteps DEF FoldersSave, BoxTypes, CmdType
  <2>3. CASE x = b
    BY <2>1, <2>2, <2>3, RmOk, Alone DEF Lone
  <2>4. CASE x # b
    <3>1. SameWork(x)
      BY <2>2, <2>4, QuietWork DEF Lone
    <3>2. Unmoved(x)
      BY <2>1, <2>2, <2>4 DEF Unmoved, KeptFolders, NeedsGitea
    <3> QED
      BY <3>1, <3>2, ContKept DEF ContKnows
  <2> QED
    BY <2>3, <2>4
<1>8. ASSUME PoolEmpty("host")
       PROVE  ContOk(x)'
  <2>1. Lone("host")
    BY <1>8, LoneSteps DEF PoolEmpty
  <2>2. SameWork(x)
    BY <1>8, <2>1, QuietWork DEF Lone, PoolEmpty
  <2>3. Unmoved(x)
    BY <1>8 DEF Unmoved, KeptFolders, NeedsGitea, PoolEmpty
  <2> QED
    BY <2>2, <2>3, ContKept DEF ContKnows
<1>9. ASSUME NEW a \in Actors, DropContainer(a)
       PROVE  ContOk(x)'
  <2> DEFINE b == cmd[a].box
  <2>1. /\ b \in Boxes /\ cmd[a].pc = "rm" /\ Lone(a)
        /\ cmd'[a].box = b /\ cmd'[a].pc = "run"
    BY <1>9, Works, LoneSteps DEF DropContainer, BoxTypes, CmdType
  <2>2. CASE x = b
    <3>1. cont'[x] = Gone
      BY <1>9, <2>1, <2>2 DEF DropContainer, BoxTypes
    <3> QED
      BY <2>1, <2>2, <3>1, GoneOk, Alone DEF Lone
  <2>3. CASE x # b
    <3>1. SameWork(x)
      BY <2>1, <2>3, QuietWork DEF Lone
    <3>2. Unmoved(x)
      BY <1>9, <2>1, <2>3
      DEF DropContainer, BoxTypes, Unmoved, KeptFolders, NeedsGitea
    <3> QED
      BY <3>1, <3>2, ContKept DEF ContKnows
  <2> QED
    BY <2>2, <2>3
<1>10. ASSUME NEW a \in Actors, RunBox(a)
       PROVE  ContOk(x)'
  <2> DEFINE b == cmd[a].box
  <2>1. /\ b \in Boxes /\ cmd[a].pc = "run" /\ Lone(a)
        /\ cmd'[a].box = b /\ cmd'[a].pc = "fwd"
        /\ Saved(b) /\ ledger[b] \in Entry
    BY <1>10, Works, LoneSteps
       DEF RunBox, BoxTypes, CmdType, Unmade, Unlisted
  <2>2. CASE x = b
    <3>1. cont'[b] = Baked(b) /\ UNCHANGED <<ledger, world>>
      BY <1>10, <2>1 DEF RunBox, BoxTypes
    <3>2. /\ cont'[b].state = "up" /\ cont'[b].pubs = ledger[b].pubs
          /\ cont'[b].gitea = IF NeedsGitea(b) THEN world.staged ELSE 0
          /\ cont'[b].folders = KeptFolders(b)
      BY <3>1 DEF Baked
    <3>3. Fits(b)' /\ Up(b)' /\ Saved(b)'
      BY <2>1, <3>1, <3>2 DEF Fits, Up, KeptFolders, NeedsGitea, Entry
    <3>4. \A e \in Actors \ {a} : cmd'[e].box # b
      BY <2>1, Alone DEF Lone
    <3> QED
      BY <2>1, <2>2, <3>3, <3>4 DEF ContOk, BoxAt, Up
  <2>3. CASE x # b
    <3>1. SameWork(x)
      BY <2>1, <2>3, QuietWork DEF Lone
    <3>2. Unmoved(x)
      BY <1>10, <2>1, <2>3
      DEF RunBox, BoxTypes, Unmoved, KeptFolders, NeedsGitea
    <3> QED
      BY <3>1, <3>2, ContKept DEF ContKnows
  <2> QED
    BY <2>2, <2>3
<1>11. ASSUME NEW a \in Actors, BoxFails(a)
       PROVE  ContOk(x)'
  <2> DEFINE b == cmd[a].box
  <2>1. /\ b \in Boxes /\ cmd[a].pc \in {"rm", "run"} /\ Lone(a)
        /\ cmd[a] \in CmdType /\ torn = {}
        /\ Saved(b) /\ ledger[b] \in Entry
    BY <1>11, FailureIs, Works, LoneSteps DEF BoxTypes, Unmade, Unlisted
  <2>4. cmd'[a].pc \in {"idle", "loop"} /\ cmd'[a].box = NoBox
    BY <1>11, <2>1, FailureIs
       DEF BoxFails, DropFails, RunFails, RunLeavesHusk, Abandon, Resume,
           After, BoxTypes, CmdType
  <2>5. \A e \in Actors \ {a} : cmd[e].box = b => FALSE
    BY <2>1, Alone
  <2>6. ASSUME x = b PROVE \A e \in Actors : cmd'[e].box # x
    BY <2>1, <2>4, <2>5, <2>6, BoxAssumption DEF Lone
  <2>2. CASE x = b
    <3>1. CASE DropFails(a)
      <4>1. /\ SameWork(x)
            /\ cont' = cont /\ UNCHANGED <<ledger, world, moved>>
        BY <2>2, <2>6, <3>1 DEF SameWork, DropFails, Scar
      <4>2. Unmoved(x)
        BY <2>1, <4>1 DEF Unmoved, KeptFolders, NeedsGitea
      <4> QED
        BY <4>1, <4>2, ContKept DEF ContKnows
    <3>2. CASE RunFails(a)
      <4>1. cont'[x] = Gone
        BY <2>1, <2>2, <3>2 DEF RunFails, ContKnows, ContOk, BoxAt
      <4> QED
        BY <2>2, <2>6, <4>1, GoneOk
    <3>3. CASE RunLeavesHusk(a)
      <4>1. /\ cont'[x] = [Baked(x) EXCEPT !.state = "down"]
            /\ UNCHANGED <<ledger, world>>
        BY <2>1, <2>2, <3>3 DEF RunLeavesHusk, BoxTypes
      <4>2. /\ cont'[x].state = "down" /\ cont'[x].pubs = ledger[x].pubs
            /\ cont'[x].gitea = IF NeedsGitea(x) THEN world.staged ELSE 0
            /\ cont'[x].folders = KeptFolders(x)
        BY <4>1 DEF Baked
      <4>3. ~Up(x)' /\ Saved(x)'
        BY <2>1, <2>2, <4>1, <4>2 DEF Up
      <4>4. Fits(x)'
        BY <2>1, <2>2, <4>1, <4>2 DEF Fits, KeptFolders, NeedsGitea, Entry
      <4>5. \A pcs : ~BoxAt(x, pcs)'
        BY <2>2, <2>6 DEF BoxAt
      <4> QED
        BY <2>2, <4>3, <4>4, <4>5 DEF ContOk
    <3> QED
      BY <1>11, <3>1, <3>2, <3>3 DEF BoxFails
  <2>3. CASE x # b
    <3>1. SameWork(x)
      BY <2>1, <2>3, <2>4 DEF SameWork, Lone
    <3>2. Unmoved(x)
      BY <1>11, <2>1, <2>3
         DEF BoxFails, DropFails, RunFails, RunLeavesHusk, BoxTypes, Unmoved,
             KeptFolders, NeedsGitea
    <3> QED
      BY <3>1, <3>2, ContKept DEF ContKnows
  <2> QED
    BY <2>2, <2>3
<1>12. ASSUME NEW a \in Actors, LaunchForwarders(a)
       PROVE  ContOk(x)'
  <2>0. PICK b \in Boxes : b = cmd[a].box
    BY <1>12, Works DEF LaunchForwarders
  <2>1. /\ cmd[a].box = b /\ cmd[a].pc = "fwd" /\ Lone(a)
        /\ Saved(b) /\ ledger[b] \in Entry /\ cmd[a] \in CmdType
    BY <1>12, <2>0, Works, LoneSteps
       DEF LaunchForwarders, BoxTypes, Unmade, Unlisted
  <2>4. cmd'[a].pc \in {"idle", "loop", "tab", "row"}
    BY <1>12, <2>1 DEF LaunchForwarders, Resume, After, BoxTypes, CmdType
  <2>2. CASE x = b
    <3>1. Up(b) /\ Fits(b)
      BY <2>1, <2>2 DEF ContKnows, ContOk, BoxAt
    <3>2. /\ cont[b] \in ContType
          /\ UNCHANGED <<ledger, world, moved>>
          /\ \E set \in Launched(b) :
                cont'[b] = Serving(cont[b], ledger[b].pubs, set)
      BY <1>12, <2>1 DEF LaunchForwarders, BoxTypes
    <3>3. /\ cont'[b].state = "up" /\ cont'[b].pubs = cont[b].pubs
          /\ cont'[b].gitea = cont[b].gitea
          /\ cont'[b].folders = cont[b].folders
          /\ cont'[b].fwd = AppsOf(ledger[b].pubs) \ cont'[b].missed
      BY <2>1, <3>2, ServingIs
    <3>4. Fits(b)' /\ Up(b)' /\ Saved(b)'
      BY <2>1, <3>1, <3>2, <3>3 DEF Fits, Up, KeptFolders, NeedsGitea
    <3>5. \A e \in Actors \ {a} : cmd'[e].box # b
      BY <2>1, Alone DEF Lone
    <3>6. cont'[b].fwd = AppsOf(ledger'[b].pubs) \ cont'[b].missed
      BY <3>2, <3>3
    <3> QED
      BY <2>1, <2>2, <2>4, <3>4, <3>5, <3>6 DEF ContOk, BoxAt
  <2>3. CASE x # b
    <3>1. SameWork(x)
      BY <2>1, <2>3, <2>4, QuietWork DEF Lone
    <3>2. Unmoved(x)
      BY <1>12, <2>1, <2>3
      DEF LaunchForwarders, BoxTypes, Unmoved, KeptFolders, NeedsGitea
    <3> QED
      BY <3>1, <3>2, ContKept DEF ContKnows
  <2> QED
    BY <2>2, <2>3
<1>13. ASSUME PlainStart
       PROVE  ContOk(x)'
  <2>0. PICK b \in Boxes : b = cmd["inside"].box
    BY <1>13, Works DEF PlainStart
  <2>1. /\ cmd["inside"].box = b /\ cmd["inside"].pc = "start" /\ Lone("inside")
        /\ Saved(b) /\ ledger[b] \in Entry /\ cmd'["inside"] = Idle
    BY <1>13, <2>0, Works, LoneSteps
       DEF PlainStart, BoxTypes, Unmade, Unlisted
  <2>2. CASE x = b
    <3>1. ContOk(b) /\ BoxAt(b, {"start"}) /\ ~BoxAt(b, {"rm", "fwd"})
      BY <2>1, <2>2, Alone DEF ContKnows, BoxAt
    <3>2. /\ cont[b] \in ContType
          /\ UNCHANGED <<ledger, world, moved>>
          /\ \E set \in Launched(b) :
                cont'[b] = Serving(cont[b], ledger[b].pubs, set)
      BY <1>13, <2>1 DEF PlainStart, BoxTypes
    <3>3. /\ cont'[b].state = "up" /\ cont'[b].pubs = cont[b].pubs
          /\ cont'[b].gitea = cont[b].gitea
          /\ cont'[b].folders = cont[b].folders
          /\ cont'[b].fwd = AppsOf(ledger[b].pubs) \ cont'[b].missed
      BY <2>1, <3>2, ServingIs
    <3>4. \A e \in Actors : cmd'[e].box # b
      BY <2>1, Alone, BoxAssumption DEF Lone
    <3>5. <<b, "run">> \notin torn' =>
             /\ cont[b].pubs = ledger[b].pubs
             /\ cont[b].folders \subseteq ledger[b].folders
      BY <1>13, <3>1 DEF PlainStart, ContOk, Fits
    <3>6. ~Stale(b) /\ NeedsGitea(b) => cont[b].gitea = world.staged
      BY <2>1 DEF Stale, NeedsGitea, ContKnows, Staged
    <3>7. ~Stale(b) /\ cont[b].folders \subseteq ledger[b].folders =>
             cont[b].folders = KeptFolders(b)
      BY <2>1 DEF Stale, KeptFolders
    <3>8. b \in moved \/ ~Stale(b)
      BY <3>1 DEF ContOk
    <3>9. <<b, "run">> \notin torn' => Fits(b)'
      BY <3>2, <3>3, <3>5, <3>6, <3>7, <3>8
         DEF Fits, KeptFolders, NeedsGitea
    <3>10. /\ Saved(b)'
           /\ cont'[b].fwd = AppsOf(ledger'[b].pubs) \ cont'[b].missed
      BY <2>1, <3>2, <3>3
    <3> QED
      BY <2>2, <3>4, <3>9, <3>10 DEF ContOk, BoxAt
  <2>3. CASE x # b
    <3>1. SameWork(x)
      BY <2>1, <2>3, QuietWork DEF Lone
    <3>2. Unmoved(x)
      BY <1>13, <2>1, <2>3
      DEF PlainStart, BoxTypes, Unmoved, KeptFolders, NeedsGitea
    <3> QED
      BY <3>1, <3>2, ContKept DEF ContKnows
  <2> QED
    BY <2>2, <2>3
<1>14. ASSUME NEW b \in Boxes, Stop(b)
       PROVE  ContOk(x)'
  <2>1. CASE x = b
    <3>1. /\ cont'[b] = [cont[b] EXCEPT !.state = "down", !.fwd = {}]
          /\ cont[b] \in ContType /\ Saved(b) /\ Up(b)
          /\ \A e \in Actors : cmd'[e].box # b /\ cmd[e].box # b
          /\ UNCHANGED <<ledger, world, moved, torn>>
      BY <1>14, NotBusy DEF Stop, BoxTypes
    <3>2. /\ cont'[b].state = "down" /\ cont'[b].pubs = cont[b].pubs
          /\ cont'[b].gitea = cont[b].gitea
          /\ cont'[b].folders = cont[b].folders
      BY <3>1 DEF ContType
    <3>3. Fits(b) => Fits(b)'
      BY <3>1, <3>2 DEF Fits, KeptFolders, NeedsGitea
    <3>4. <<b, "run">> \notin torn => Fits(b)
      BY <3>1 DEF ContKnows, ContOk, BoxAt, Up
    <3> QED
      BY <2>1, <3>1, <3>2, <3>3, <3>4 DEF ContOk, BoxAt, Up
  <2>2. CASE x # b
    <3>1. SameWork(x)
      BY <1>14 DEF Stop, SameWork
    <3>2. Unmoved(x)
      BY <1>14, <2>2 DEF Stop, BoxTypes, Unmoved, KeptFolders, NeedsGitea
    <3> QED
      BY <3>1, <3>2, ContKept DEF ContKnows
  <2> QED
    BY <2>1, <2>2
<1>15. ASSUME NEW b \in Boxes, Restart(b)
       PROVE  ContOk(x)'
  <2>1. /\ Saved(b) /\ Lone("inside") /\ cmd["inside"] = Idle
        /\ cmd'["inside"].pc = "rm" /\ cmd'["inside"].box = b
        /\ \A e \in Actors : cmd[e].box # b
        /\ UNCHANGED <<ledger, cont, world, moved, torn>>
    BY <1>15, LoneSteps, NotBusy DEF Restart, Begin, BoxTypes
  <2>2. CASE x = b
    BY <2>1, <2>2, RmOk DEF Lone
  <2>3. CASE x # b
    <3>1. SameWork(x)
      BY <2>1, <2>3, QuietWork DEF Lone
    <3>2. Unmoved(x)
      BY <2>1 DEF Saved, BoxTypes, Unmoved, KeptFolders, NeedsGitea
    <3> QED
      BY <3>1, <3>2, ContKept DEF ContKnows
  <2> QED
    BY <2>2, <2>3
<1>16. ASSUME NEW b \in Boxes, Start(b)
       PROVE  ContOk(x)'
  <2>1. /\ Saved(b) /\ Lone("inside") /\ cmd["inside"] = Idle
        /\ cmd'["inside"].pc = (IF Stale(b) THEN "rm" ELSE "start")
        /\ cmd'["inside"].box = b
        /\ \A e \in Actors : cmd[e].box # b
        /\ moved' = IF Stale(b) THEN moved ELSE moved \ {b}
        /\ UNCHANGED <<ledger, cont, world, torn>>
    BY <1>16, LoneSteps, NotBusy DEF Start, Begin, BoxTypes
  <2>2. CASE x = b /\ Stale(b)
    BY <2>1, <2>2, RmOk DEF Lone
  <2>3. CASE x = b /\ ~Stale(b)
    <3>1. /\ ContOk(b) /\ ~BoxAt(b, {"rm", "fwd"})
          /\ cont[b].state # "absent" /\ ledger[b] \in Entry
      BY <2>1, <2>3 DEF ContKnows, BoxAt, Stale, BoxTypes
    <3>2. NeedsGitea(b) => cont[b].gitea = world.staged
      BY <2>1, <2>3 DEF Stale, NeedsGitea, ContKnows, Staged
    <3>3. cont[b].folders \subseteq ledger[b].folders =>
             cont[b].folders = KeptFolders(b)
      BY <2>3 DEF Stale, KeptFolders
    <3>4. Fits(b) => Fits(b)'
      BY <2>1, <3>2, <3>3 DEF Fits, KeptFolders, NeedsGitea
    <3>5. ~Stale(b)'
      BY <2>1, <2>3 DEF Stale, KeptFolders
    <3>6. \A e \in Actors \ {"inside"} : cmd'[e].box # b
      BY <2>1 DEF Lone
    <3> QED
      BY <2>1, <2>3, <3>1, <3>4, <3>5, <3>6 DEF ContOk, BoxAt, Up
  <2>4. CASE x # b
    <3>1. SameWork(x)
      BY <2>1, <2>4, QuietWork DEF Lone
    <3>2. Unmoved(x)
      BY <2>1, <2>4 DEF Saved, BoxTypes, Unmoved, KeptFolders, NeedsGitea
    <3> QED
      BY <3>1, <3>2, ContKept DEF ContKnows
  <2> QED
    BY <2>2, <2>3, <2>4
<1>17. ASSUME NEW b \in Boxes, BoxAdd(b)
       PROVE  ContOk(x)'
  <2>1. Lone("host")
    BY <1>17, LoneSteps DEF BoxAdd
  <2>2. SameWork(x)
    BY <1>17, <2>1, QuietWork DEF Lone, BoxAdd, Addable, Begin
  <2>3. Unmoved(x)
    BY <1>17 DEF Unmoved, KeptFolders, NeedsGitea, BoxAdd, Addable
  <2> QED
    BY <2>2, <2>3, ContKept DEF ContKnows
<1>18. ASSUME WireBox
       PROVE  ContOk(x)'
  <2>1. Lone("host")
    BY <1>18, LoneSteps DEF WireBox
  <2>2. SameWork(x)
    BY <1>18, <2>1, QuietWork DEF Lone, WireBox
  <2>3. Unmoved(x)
    BY <1>18 DEF Unmoved, KeptFolders, NeedsGitea, WireBox
  <2> QED
    BY <2>2, <2>3, ContKept DEF ContKnows
<1>19. ASSUME RegisterWebTab
       PROVE  ContOk(x)'
  <2>1. Lone("host") /\ cmd["host"].pc \in {"tab", "row"}
    BY <1>19, LoneSteps DEF RegisterWebTab
  <2>2. SameWork(x)
    BY <1>19, <2>1, QuietWork DEF Lone, RegisterWebTab
  <2>3. cmd["host"].app \in Apps
    BY <2>1, Works
  <2>4. <<x, "run">> \in torn => <<x, "run">> \in torn'
    BY <1>19, <2>3, MendedOnly, BoxAssumption DEF RegisterWebTab
  <2>5. UNCHANGED <<ledger, cont, world, moved>>
    BY <1>19 DEF RegisterWebTab
  <2>6. Unmoved(x)
    BY <2>4, <2>5 DEF Unmoved, KeptFolders, NeedsGitea
  <2> QED
    BY <2>2, <2>6, ContKept DEF ContKnows
<1>20. ASSUME NEW b \in Boxes, PortAdd(b)
       PROVE  ContOk(x)'
  <2>1. Lone("host")
    BY <1>20, LoneSteps DEF PortAdd
  <2>2. SameWork(x)
    BY <1>20, <2>1, QuietWork DEF Lone, PortAdd, Begin
  <2>3. Unmoved(x)
    BY <1>20 DEF Unmoved, KeptFolders, NeedsGitea, PortAdd
  <2> QED
    BY <2>2, <2>3, ContKept DEF ContKnows
<1>21. ASSUME PortRow
       PROVE  ContOk(x)'
  <2>1. Lone("host") /\ cmd["host"].pc \in {"tab", "row"}
    BY <1>21, LoneSteps DEF PortRow
  <2>2. SameWork(x)
    BY <1>21, <2>1, QuietWork DEF Lone, PortRow
  <2>3. cmd["host"].app \in Apps
    BY <2>1, Works
  <2>4. <<x, "run">> \in torn => <<x, "run">> \in torn'
    BY <1>21, <2>3, MendedOnly, BoxAssumption DEF PortRow
  <2>5. UNCHANGED <<ledger, cont, world, moved>>
    BY <1>21 DEF PortRow
  <2>6. Unmoved(x)
    BY <2>4, <2>5 DEF Unmoved, KeptFolders, NeedsGitea
  <2> QED
    BY <2>2, <2>6, ContKept DEF ContKnows
<1>22. ASSUME PortRemove
       PROVE  ContOk(x)'
  <2>1. Lone("host")
    BY <1>22, LoneSteps DEF PortRemove
  <2>2. SameWork(x)
    BY <1>22, <2>1, QuietWork DEF Lone, PortRemove, Begin
  <2>3. Unmoved(x)
    BY <1>22 DEF Unmoved, KeptFolders, NeedsGitea, PortRemove
  <2> QED
    BY <2>2, <2>3, ContKept DEF ContKnows
<1>23. ASSUME PortDrop
       PROVE  ContOk(x)'
  <2>1. Lone("host") /\ cmd["host"].pc \in {"tab", "row"}
    BY <1>23, LoneSteps DEF PortDrop
  <2>2. SameWork(x)
    BY <1>23, <2>1, QuietWork DEF Lone, PortDrop
  <2>3. cmd["host"].app \in Apps
    BY <2>1, Works
  <2>4. <<x, "run">> \in torn => <<x, "run">> \in torn'
    BY <1>23, <2>3, MendedOnly, BoxAssumption DEF PortDrop
  <2>5. UNCHANGED <<ledger, cont, world, moved>>
    BY <1>23 DEF PortDrop
  <2>6. Unmoved(x)
    BY <2>4, <2>5 DEF Unmoved, KeptFolders, NeedsGitea
  <2> QED
    BY <2>2, <2>6, ContKept DEF ContKnows
<1>24. ASSUME NEW b \in Boxes, BoxFolders(b)
       PROVE  ContOk(x)'
  <2>1. Lone("host")
    BY <1>24, LoneSteps DEF BoxFolders
  <2>2. SameWork(x)
    BY <1>24, <2>1, QuietWork DEF Lone, BoxFolders, Begin
  <2>3. Unmoved(x)
    BY <1>24 DEF Unmoved, KeptFolders, NeedsGitea, BoxFolders
  <2> QED
    BY <2>2, <2>3, ContKept DEF ContKnows
<1>25. ASSUME NEW b \in Boxes, BoxRemove(b)
       PROVE  ContOk(x)'
  <2>1. Lone("host")
    BY <1>25, LoneSteps DEF BoxRemove
  <2>2. SameWork(x)
    BY <1>25, <2>1, QuietWork DEF Lone, BoxRemove, Begin
  <2>3. Unmoved(x)
    BY <1>25 DEF Unmoved, KeptFolders, NeedsGitea, BoxRemove
  <2> QED
    BY <2>2, <2>3, ContKept DEF ContKnows
<1>26. ASSUME DiscardContainer
       PROVE  ContOk(x)'
  <2> DEFINE b == cmd["host"].box
  <2>1. /\ b \in Boxes /\ cmd["host"].pc = "kill" /\ Lone("host")
        /\ cmd'["host"].box = b /\ cmd'["host"].pc = "del"
    BY <1>26, Works, LoneSteps DEF DiscardContainer, BoxTypes, CmdType
  <2>2. CASE x = b
    <3>1. CASE cont'[x] = Gone
      BY <2>1, <2>2, <3>1, GoneOk, Alone DEF Lone
    <3>2. CASE cont'[x] = [cont[x] EXCEPT !.missed = @ \cup {"rm"}]
      <4>1. /\ cont'[x].state = cont[x].state /\ cont'[x].pubs = cont[x].pubs
            /\ cont'[x].gitea = cont[x].gitea /\ cont'[x].fwd = cont[x].fwd
            /\ cont'[x].folders = cont[x].folders
            /\ cont'[x].missed = cont[x].missed \cup {"rm"}
        BY <3>2 DEF BoxTypes, ContType
      <4>2. UNCHANGED <<ledger, world, moved, torn>>
        BY <1>26 DEF DiscardContainer
      <4>3. \A e \in Actors \ {"host"} : cmd[e].box # x /\ cmd'[e].box # x
        BY <2>1, <2>2, Alone DEF Lone
      <4>4. ContOk(x) /\ ~BoxAt(x, {"rm", "fwd"})
        BY <2>1, <4>3 DEF ContKnows, BoxAt
      <4>5. /\ ~BoxAt(x, {"run"})' /\ ~BoxAt(x, {"fwd"})'
            /\ ~BoxAt(x, {"start"})'
        BY <2>1, <4>3 DEF BoxAt
      <4>6. /\ Saved(x) => ledger[x] \in Entry
            /\ Saved(x) => "rm" \notin AppsOf(ledger[x].pubs)
        BY DEF BoxTypes, AppsOf, Entry, Publish
      <4>7. Fits(x) /\ Saved(x) => Fits(x)'
        BY <4>1, <4>2 DEF Fits, KeptFolders, NeedsGitea
      <4>8. LeftOver(x)'
        BY <4>1 DEF LeftOver
      <4>9. Saved(x)' => Saved(x)
        BY <4>2
      <4>10. Up(x)' => Up(x)
        BY <4>1 DEF Up
      <4>11. Saved(x)' /\ cont'[x].state # "absent" /\ <<x, "run">> \notin torn'
             => /\ Fits(x)'
                /\ Up(x)' =>
                      cont'[x].fwd = AppsOf(ledger'[x].pubs) \ cont'[x].missed
        BY <4>1, <4>2, <4>4, <4>6, <4>7, <4>9, <4>10 DEF ContOk
      <4> QED
        BY <4>5, <4>8, <4>11 DEF ContOk
    <3> QED
      BY <1>26, <2>1, <2>2, <3>1, <3>2 DEF DiscardContainer, BoxTypes
  <2>3. CASE x # b
    <3>1. SameWork(x)
      BY <2>1, <2>3, QuietWork DEF Lone
    <3>2. Unmoved(x)
      BY <1>26, <2>1, <2>3
      DEF DiscardContainer, BoxTypes, Unmoved, KeptFolders, NeedsGitea
    <3> QED
      BY <3>1, <3>2, ContKept DEF ContKnows
  <2> QED
    BY <2>2, <2>3
<1>27. ASSUME DiscardEntry
       PROVE  ContOk(x)'
  <2> DEFINE b == cmd["host"].box
  <2>1. /\ b \in Boxes /\ cmd["host"].pc = "del" /\ Lone("host")
        /\ cmd'["host"].box = b /\ cmd'["host"].pc = "sweep"
    BY <1>27, Works, LoneSteps DEF DiscardEntry, BoxTypes, CmdType
  <2>2. CASE x = b
    <3>1. (cont[x] = Gone \/ LeftOver(x)) /\ cont' = cont
      BY <1>27, <2>1, <2>2 DEF DiscardEntry, BoxTypes, ContKnows, ContOk, BoxAt
    <3>2. ledger'[x] = NoEntry
      BY <1>27, <2>1, <2>2 DEF DiscardEntry, BoxTypes
    <3>3. \A e \in Actors : cmd'[e].box = x =>
             cmd'[e].pc \notin {"run", "fwd", "start"}
      BY <2>1, <2>2, Alone DEF Lone
    <3>4. CASE cont[x] = Gone
      BY <3>1, <3>3, <3>4, GoneOk
    <3>5. CASE LeftOver(x)
      BY <3>1, <3>2, <3>3, <3>5 DEF ContOk, BoxAt, LeftOver
    <3> QED
      BY <3>1, <3>4, <3>5
  <2>3. CASE x # b
    <3>1. SameWork(x)
      BY <2>1, <2>3, QuietWork DEF Lone
    <3>2. Unmoved(x)
      BY <1>27, <2>1, <2>3
      DEF DiscardEntry, BoxTypes, Unmoved, KeptFolders, NeedsGitea
    <3> QED
      BY <3>1, <3>2, ContKept DEF ContKnows
  <2> QED
    BY <2>2, <2>3
<1>28. ASSUME SweepTabs
       PROVE  ContOk(x)'
  <2> DEFINE b == cmd["host"].box
  <2>1. /\ b \in Boxes /\ cmd["host"].pc = "sweep" /\ Lone("host")
        /\ cmd'["host"] = Idle
    BY <1>28, Works, LoneSteps DEF SweepTabs, BoxTypes
  <2>2. CASE x = b
    <3>1. (cont[x] = Gone \/ LeftOver(x)) /\ UNCHANGED <<cont, ledger>>
      BY <1>28, <2>1, <2>2 DEF SweepTabs, ContKnows, ContOk, BoxAt
    <3>2. ~Saved(x)
      BY <2>1, <2>2, BoxAssumption DEF CmdKnows, Knows, Unlisted
    <3>3. \A e \in Actors : cmd'[e].box # x
      BY <2>1, <2>2, Alone, BoxAssumption DEF Lone
    <3>4. CASE cont[x] = Gone
      BY <3>1, <3>3, <3>4, GoneOk
    <3>5. CASE LeftOver(x)
      BY <3>1, <3>2, <3>3, <3>5 DEF ContOk, BoxAt, LeftOver
    <3> QED
      BY <3>1, <3>4, <3>5
  <2>3. CASE x # b
    <3>1. SameWork(x)
      BY <2>1, <2>3, QuietWork DEF Lone
    <3>2. Unmoved(x)
      BY <1>28, <2>1, <2>3 DEF SweepTabs, Unmoved, KeptFolders, NeedsGitea
    <3> QED
      BY <3>1, <3>2, ContKept DEF ContKnows
  <2> QED
    BY <2>2, <2>3
<1>29. ASSUME Recreate
       PROVE  ContOk(x)'
  <2>1. cont'[x] = Gone
    BY <1>29 DEF Recreate, Scar
  <2>2. \A e \in Actors : cmd'[e].pc \in {"loop", "idle"}
    BY <1>29 DEF Recreate, Scar
  <2> QED
    BY <2>1, <2>2, GoneOk
<1>30. ASSUME Attach
       PROVE  ContOk(x)'
  <2>1. SameWork(x)
    BY <1>30 DEF Attach, SameWork, BoxTypes
  <2>2. Unmoved(x)
    BY <1>30 DEF Attach, Unmoved, KeptFolders, NeedsGitea, BoxTypes
  <2> QED
    BY <2>1, <2>2, ContKept DEF ContKnows
<1>31. ASSUME LoopBox
       PROVE  ContOk(x)'
  <2>0. PICK b \in cmd["host"].todo : \E to \in {"loop", "rm"} :
           /\ cmd'["host"].pc = to
           /\ cmd'["host"].box = (IF to = "rm" THEN b ELSE NoBox)
           /\ cmd["host"].pc = "loop" /\ Lone("host")
           /\ UNCHANGED <<ledger, cont, world, moved, torn>>
    BY <1>31 DEF LoopBox, Lone, BoxTypes, CmdType
  <2>1. /\ b \in Boxes /\ Saved(b) /\ cmd["inside"].box # b
    BY <2>0 DEF BoxTypes, CmdType, CmdKnows, Knows, Apart
  <2>2. CASE x = b /\ cmd'["host"].pc = "rm"
    BY <2>0, <2>1, <2>2, RmOk DEF Lone
  <2>3. ASSUME ~(x = b /\ cmd'["host"].pc = "rm") PROVE ContOk(x)'
    <3>1. SameWork(x)
      BY <2>0, <2>3, QuietWork DEF Lone
    <3>2. Unmoved(x)
      BY <2>0 DEF Unmoved, KeptFolders, NeedsGitea
    <3> QED
      BY <3>1, <3>2, ContKept DEF ContKnows
  <2> QED
    BY <2>2, <2>3
<1>32. ASSUME LoopEnds
       PROVE  ContOk(x)'
  <2>1. Lone("host")
    BY <1>32, LoneSteps DEF LoopEnds
  <2>2. SameWork(x)
    BY <1>32, <2>1, QuietWork DEF Lone, LoopEnds
  <2>3. Unmoved(x)
    BY <1>32 DEF Unmoved, KeptFolders, NeedsGitea, LoopEnds
  <2> QED
    BY <2>2, <2>3, ContKept DEF ContKnows
<1>33. ASSUME GiteaMoves
       PROVE  ContOk(x)'
  <2>1. SameWork(x)
    BY <1>33 DEF GiteaMoves, SameWork
  <2>2. Unmoved(x)
    BY <1>33 DEF GiteaMoves, Unmoved, KeptFolders, NeedsGitea, BoxTypes
  <2> QED
    BY <2>1, <2>2, ContKept DEF ContKnows
<1>34. ASSUME NEW f \in Folders, FolderChanges(f)
       PROVE  ContOk(x)'
  <2>1. SameWork(x)
    BY <1>34 DEF FolderChanges, SameWork
  <2>2. Unmoved(x)
    BY <1>34 DEF FolderChanges, Unmoved, KeptFolders, NeedsGitea, BoxTypes
  <2> QED
    BY <2>1, <2>2, ContKept DEF ContKnows
<1>35. ASSUME NEW b \in Boxes, BoxRestarts(b)
       PROVE  ContOk(x)'
  <2>1. CASE x = b
    <3>1. /\ cont'[b] = [cont[b] EXCEPT !.fwd = {}]
          /\ cont[b] \in ContType /\ Up(b)
          /\ \A e \in Actors : cmd'[e].box # b /\ cmd[e].box # b
          /\ torn' = {<<b, "run">>} /\ UNCHANGED ledger
      BY <1>35, NotBusy DEF BoxRestarts, BoxTypes
    <3>2. Saved(b)
      BY <1>35 DEF BoxRestarts
    <3> QED
      BY <2>1, <3>1, <3>2 DEF ContOk, BoxAt, Up
  <2>2. CASE x # b
    <3>1. SameWork(x)
      BY <1>35 DEF BoxRestarts, SameWork
    <3>2. Unmoved(x)
      BY <1>35, <2>2
      DEF BoxRestarts, BoxTypes, Unmoved, KeptFolders, NeedsGitea
    <3> QED
      BY <3>1, <3>2, ContKept DEF ContKnows
  <2> QED
    BY <2>1, <2>2
<1>36. CASE UNCHANGED vars
  <2>1. UNCHANGED <<ledger, cont, world, cmd, moved, torn>>
    BY <1>36 DEF vars
  <2>2. SameWork(x)
    BY <2>1 DEF SameWork
  <2>3. Unmoved(x)
    BY <2>1 DEF Unmoved, KeptFolders, NeedsGitea
  <2> QED
    BY <2>2, <2>3, ContKept DEF ContKnows
<1> QED
  BY ONLY <1>1, <1>2, <1>3, <1>4, <1>5, <1>6, <1>7, <1>8, <1>9, <1>10, <1>11,
  <1>12, <1>13, <1>14, <1>15, <1>16, <1>17, <1>18, <1>19, <1>20, <1>21,
  <1>22, <1>23, <1>24, <1>25, <1>26, <1>27, <1>28, <1>29, <1>30, <1>31,
  <1>32, <1>33, <1>34, <1>35, <1>36,
     [Next]_vars DEF Next, LedgerStep, RunStep, HostStep, Request, BoxFails,
                      Actors

-----------------------------------------------------------------------------
(* Theorems about the boxes                                                *)

(* The invariant holds of a project without boxes, and every step keeps    *)
(* it.                                                                     *)
LEMMA BoxBegins ==
    ASSUME Init
    PROVE  BoxInv
<1> USE BoxAssumption DEF Init, Gone, Idle, Actors
<1>1. BoxTypes
  BY DEF BoxTypes, ContType, CmdType, Verbs, Places, Kinds
<1>2. CmdKnows
  BY DEF CmdKnows, Knows, Apart, StepsOf
<1>3. OwnPubs /\ RowsKnow
  BY DEF OwnPubs, RowsKnow, Saved
<1>4. ContKnows
  BY DEF ContKnows, Staged, ContOk, BoxAt
<1> QED
  BY <1>1, <1>2, <1>3, <1>4 DEF BoxInv

(* Every step of either command keeps the invariant.                       *)
LEMMA BoxKeeps ==
    ASSUME BoxInv, [Next]_vars
    PROVE  BoxInv'
<1>1. BoxTypes /\ CmdKnows /\ OwnPubs /\ RowsKnow /\ ContKnows
  BY DEF BoxInv
<1>2. CmdKnows'
  BY <1>1, ApartStep, KnowsStep, Actors' = Actors DEF CmdKnows, Actors
<1>3. ContKnows'
  BY <1>1, StagedStep, ContStep DEF ContKnows
<1>4. BoxTypes' /\ OwnPubs' /\ RowsKnow'
  BY <1>1, BoxTypesStep, OwnStep, RowsStep
<1> QED
  BY <1>2, <1>3, <1>4 DEF BoxInv

(* What the invariant says of every row and box, less what no one asks of  *)
(* them while a command works on the box.                                  *)
LEMMA BoxShows ==
    ASSUME BoxInv
    PROVE  TabsLeadHome /\ RunsAsSaved
<1> USE BoxAssumption
<1>1. BoxTypes /\ OwnPubs /\ RowsKnow /\ ContKnows
  BY DEF BoxInv
<1>2. \A b \in Boxes, e \in Actors : cmd[e].box = b => b \in Busy
  BY DEF Busy
<1>3. \A b \in Boxes, app \in Apps : <<b, app>> \in torn => RowsTorn
  <2>1. ASSUME NEW b \in Boxes, NEW app \in Apps, <<b, app>> \in torn
        PROVE  RowsTorn
    <3>1. <<b, app>>[2] # "run"
      OBVIOUS
    <3> QED
      BY <2>1, <3>1 DEF RowsTorn
  <2> QED
    BY <2>1
<1>4. \A t \in tabs : /\ RowTorn(t) => RowsTorn
                      /\ Mid(t) => t.box \in Busy
  BY <1>1, <1>2, <1>3 DEF BoxTypes, TabType, RowTorn, Mid, Actors
<1>5. \A b, d \in Boxes : b # d /\ Saved(b) /\ Saved(d) =>
         {p[2] : p \in ledger[b].pubs} \cap {p[2] : p \in ledger[d].pubs} = {}
  BY <1>1 DEF OwnPubs
<1>6. \A t \in tabs : RowsTorn \/ t.box \in Busy \/
         /\ Saved(t.box)
         /\ <<t.app, t.pub>> \in ledger[t.box].pubs
         /\ \A u \in tabs : u.pub = t.pub => u = t
  <2>1. ASSUME NEW t \in tabs, ~RowsTorn, t.box \notin Busy
        PROVE  Known(t)
    <3>1. RowTorn(t) \/ Known(t) \/ Mid(t)
      BY <1>1 DEF RowsKnow
    <3> QED
      BY <1>4, <2>1, <3>1
  <2>2. ASSUME NEW t \in tabs, NEW u \in tabs, ~RowsTorn, u.pub = t.pub
        PROVE  u = t
    <3>1. t = u \/ RowTorn(t) \/ RowTorn(u)
      BY <1>1, <2>2 DEF RowsKnow
    <3> QED
      BY <1>4, <2>2, <3>1
  <2>3. ASSUME NEW t \in tabs, ~RowsTorn, t.box \notin Busy
        PROVE  \A u \in tabs : u.pub = t.pub => u = t
    BY <2>2, <2>3
  <2> QED
    BY <2>1, <2>3 DEF Known
<1>7. \A b \in Boxes :
         Saved(b) /\ ledger[b].kind = "web" => RowsTorn \/ b \in Busy \/
            \E t \in tabs : t.box = b /\ t.app = WebApp /\ t.web
  BY <1>1, <1>2, <1>3 DEF RowsKnow, Actors
<1>8. \A b \in Boxes : b \notin Busy => ~BoxAt(b, {"rm", "fwd"})
  BY <1>2 DEF BoxAt
<1>9. RunsAsSaved
  BY <1>1, <1>8 DEF ContKnows, ContOk, RunsAsSaved, Up, Fits, LeftOver
<1> QED
  BY <1>5, <1>6, <1>7, <1>9 DEF TabsLeadHome

(* Every step of every command knows what it left where, and what it has   *)
(* still to do.                                                            *)
THEOREM BoxInvariant == Spec => []BoxInv
<1>1. Init => BoxInv
  BY BoxBegins
<1>2. BoxInv /\ [Next]_vars => BoxInv'
  BY BoxKeeps
<1> QED
  BY <1>1, <1>2, PTL DEF Spec

(* A tab of the host's registry leads to the box and the program it names, *)
(* and a web box keeps its own: for any boxes, ports and folders, whatever *)
(* verbs run and wherever a command dies.                                  *)
THEOREM TabsStayHome == Spec => []TabsLeadHome
<1>1. BoxInv => TabsLeadHome
  BY BoxShows
<1> QED
  BY <1>1, BoxInvariant, PTL

(* A running box is the one that its entry describes, whichever verb ran   *)
(* or resumed it last, less the forwarders that could not be launched, and *)
(* no container outlives its entry but one that could not be removed.      *)
THEOREM BoxesRunAsSaved == Spec => []RunsAsSaved
<1>1. BoxInv => RunsAsSaved
  BY BoxShows
<1> QED
  BY <1>1, BoxInvariant, PTL

-----------------------------------------------------------------------------
(* All four, of the container that the software is staged into and that    *)
(* has the boxes.                                                          *)
THEOREM InsideKeepsAll ==
    InsideSpec => /\ []StagedWhole /\ []FailedBuildHarmless
                  /\ []TabsLeadHome /\ []RunsAsSaved
<1>1. InsideInit => StoreInv /\ BoxInv
  BY StoreBegins, BoxBegins DEF InsideInit
<1>2. StoreInv /\ [InsideNext]_insideVars => StoreInv'
  <2>1. [InsideNext]_insideVars => [StoreNext]_storeVars
    BY DEF InsideNext, StagingStep, BoxStep, insideVars
  <2> QED
    BY <2>1, StoreKeeps
<1>3. BoxInv /\ [InsideNext]_insideVars => BoxInv'
  <2>1. [InsideNext]_insideVars => [Next]_vars
    BY DEF InsideNext, StagingStep, BoxStep, insideVars
  <2> QED
    BY <2>1, BoxKeeps
<1>4. StoreInv => StagedWhole /\ FailedBuildHarmless
  BY StoreShows
<1>5. BoxInv => TabsLeadHome /\ RunsAsSaved
  BY BoxShows
<1> QED
  BY <1>1, <1>2, <1>3, <1>4, <1>5, PTL DEF InsideSpec
=============================================================================
