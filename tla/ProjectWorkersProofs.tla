------------------------ MODULE ProjectWorkersProofs ------------------------
(***************************************************************************)
(* Proofs about a project's container (ProjectLifecycle) and the workers   *)
(* in it (WorkerRegistry).                                                 *)
(*                                                                         *)
(* The registry, for any number of rs-worker processes that run at once    *)
(* and die anywhere: its type invariant, and that a cycle the registry     *)
(* calls accepted has its whole bundle in results/.  For one at a time:    *)
(* what the registry tells is so, and it implements the ledger.            *)
(*                                                                         *)
(* The lifecycle, for any projects and ports: whatever commands die where, *)
(* a project owns its port until it is destroyed, and no other project has *)
(* it; and what a project was logged into it stays logged into.            *)
(***************************************************************************)
EXTENDS ProjectWorkers, TLAPS

(* An accept has a slug.                                                   *)
Accepting == {"ac_load", "ac_check", "ac_mkdir", "ac_copy", "ac_manifest",
              "ac_describe", "ac_unstage", "ac_record"}
ArgsGiven == \A c \in Clis : cmd[c].pc \in Accepting => cmd[c].arg \in Slugs

TypeInv == TypeOK /\ ArgsGiven

-----------------------------------------------------------------------------
(* What the commands do to their own locals                                *)

LEMMA IdleTyped == Idle \in Commands
BY DEF Idle, Commands, Steps, NoReg, Entries, RegStates

LEMMA NoRegTyped == NoReg \in Entries
BY DEF NoReg, Entries, RegStates

LEMMA GotoTyped ==
    ASSUME NEW c \in Clis, NEW step \in Steps, TypeInv, Goto(c, step),
           step \in Accepting => cmd[c].arg \in Slugs
    PROVE  cmd' \in [Clis -> Commands] /\ ArgsGiven'
BY DEF TypeInv, TypeOK, ArgsGiven, Goto, Commands

LEMMA DieTyped ==
    ASSUME NEW c \in Clis, TypeInv, Die(c)
    PROVE  cmd' \in [Clis -> Commands] /\ ArgsGiven'
BY IdleTyped DEF TypeInv, TypeOK, ArgsGiven, Die, Idle, Accepting

LEMMA BundleTyped ==
    ASSUME NEW c \in Clis, TypeInv, cmd[c].arg \in Slugs
    PROVE  Bundle(c) \in Bundles
BY DEF TypeInv, TypeOK, Commands, Entries, Bundle, Bundles

LEMMA FindTyped ==
    ASSUME NEW c \in Clis, NEW arg \in Slugs \cup {NoSlug}, NEW step \in Steps,
           step \in Accepting => arg \in Slugs,
           TypeInv, Find(c, arg, step)
    PROVE  TypeInv'
BY IdleTyped
   DEF TypeInv, TypeOK, ArgsGiven, Find, disk, docker, work, filed, Commands,
       Idle

LEMMA RemoveTyped ==
    ASSUME NEW c \in Clis, NEW next \in Steps \ Accepting, TypeInv,
           RemoveContainer(c, next)
    PROVE  /\ cmd' \in [Clis -> Commands] /\ ArgsGiven'
           /\ ctr' \in CtrStates /\ phase' \in Phases /\ refused' \in BOOLEAN
<1> USE DEF TypeInv, TypeOK, ArgsGiven, RemoveContainer
<1>1. \A d \in Clis :
        /\ cmd'[d].pc \in {cmd[d].pc, next}
        /\ cmd'[d].arg = cmd[d].arg
        /\ cmd'[d] \in Commands
  BY ZenonT(60) DEF Commands
<1>2. \A d \in Clis : cmd'[d].pc \in Accepting => cmd[d].pc \in Accepting
  BY <1>1, ZenonT(60)
<1>3. cmd' \in [Clis -> Commands]
  BY <1>1, ZenonT(60)
<1>4. refused' \in BOOLEAN
  OBVIOUS
<1> QED BY <1>1, <1>2, <1>3, <1>4, ZenonT(60) DEF CtrStates, Phases

LEMMA StopTyped ==
    ASSUME TypeInv, StopContainer
    PROVE  ctr' \in CtrStates /\ phase' \in Phases
BY DEF TypeInv, TypeOK, StopContainer, CtrStates, Phases

LEMMA FailsTyped ==
    ASSUME NEW c \in Clis, DockerFails(c)
    PROVE  refused' \in BOOLEAN
BY DEF DockerFails

-----------------------------------------------------------------------------
(* Every variable keeps its type, and an accept its slug.                  *)
THEOREM RegistryTyped == Spec => []TypeInv
<1> USE RegistryAssumption
<1>1. Init => TypeInv
  <2> SUFFICES ASSUME Init PROVE TypeInv
    OBVIOUS
  <2>1. TypeOK
    BY IdleTyped, NoRegTyped DEF Init, TypeOK, CtrStates, Phases
  <2>2. ArgsGiven
    BY DEF Init, ArgsGiven, Idle, Accepting
  <2> QED BY <2>1, <2>2 DEF TypeInv
<1>2. TypeInv /\ [Next]_vars => TypeInv'
  <2> SUFFICES ASSUME TypeInv, [Next]_vars PROVE TypeInv'
    OBVIOUS
  <2> USE DEF disk, docker, work, filed, At, Wipe
  <2>1. ASSUME NEW c \in Clis, Spawn(c)
        PROVE  TypeInv'
    <3>1. CASE SpawnLoad(c)
      BY <3>1, IdleTyped, ZenonT(60)
         DEF SpawnLoad, TypeInv, TypeOK, ArgsGiven, Commands, Steps, Idle,
             Accepting
    <3>2. CASE SpawnProbe(c)
      BY <3>2, GotoTyped, DieTyped
         DEF SpawnProbe, TypeInv, TypeOK, Steps, Accepting
    <3>3. CASE SpawnStage(c)
      BY <3>3, GotoTyped DEF SpawnStage, TypeInv, TypeOK, Steps, Accepting,
                             Phases
    <3>4. CASE SpawnPlan(c)
      BY <3>4, GotoTyped, DieTyped, ZenonT(60)
         DEF SpawnPlan, TypeInv, TypeOK, Steps, Accepting
    <3>5. CASE SpawnRegister(c)
      BY <3>5, GotoTyped, DieTyped, ZenonT(60)
         DEF SpawnRegister, TypeInv, TypeOK, Steps, Accepting, Commands,
             Entries, RegStates
    <3>6. CASE SpawnCreate(c)
      BY <3>6, GotoTyped
         DEF SpawnCreate, TypeInv, TypeOK, ArgsGiven, Steps, Accepting,
             Commands, CtrStates, Phases
    <3>7. CASE SpawnStart(c)
      BY <3>7, GotoTyped, DieTyped, FailsTyped
         DEF SpawnStart, TypeInv, TypeOK, Steps, Accepting, CtrStates
    <3>8. CASE SpawnRollback(c)
      BY <3>8, GotoTyped, DieTyped, ZenonT(60)
         DEF SpawnRollback, TypeInv, TypeOK, Steps, Accepting, Commands
    <3>9. CASE SpawnUnlink(c)
      BY <3>9, DieTyped, IdleTyped
         DEF SpawnUnlink, TypeInv, TypeOK, NoReg, Entries, RegStates
    <3> QED BY <2>1, <3>1, <3>2, <3>3, <3>4, <3>5, <3>6, <3>7, <3>8, <3>9
               DEF Spawn
  <2>2. ASSUME NEW c \in Clis, Message(c)
        PROVE  TypeInv'
    BY <2>2 DEF Message, TypeInv, TypeOK, ArgsGiven, Phases
  <2>3. ASSUME NEW c \in Clis, Shutdown(c)
        PROVE  TypeInv'
    <3>1. CASE ShutdownFind(c)
      BY <3>1, FindTyped DEF ShutdownFind, Steps, Accepting
    <3>2. CASE ShutdownLoad(c)
      BY <3>2, DieTyped
         DEF ShutdownLoad, LoadLive, TypeInv, TypeOK, ArgsGiven, Commands,
             Steps, Accepting
    <3>3. CASE ShutdownCheck(c)
      BY <3>3, GotoTyped, DieTyped
         DEF ShutdownCheck, TypeInv, TypeOK, Steps, Accepting
    <3>4. CASE ShutdownStop(c)
      BY <3>4, GotoTyped, DieTyped, StopTyped, FailsTyped
         DEF ShutdownStop, TypeInv, TypeOK, Steps, Accepting
    <3>5. CASE ShutdownRemove(c)
      BY <3>5, RemoveTyped, DieTyped, FailsTyped
         DEF ShutdownRemove, TypeInv, TypeOK, Steps, Accepting
    <3>6. CASE ShutdownWrite(c)
      BY <3>6, DieTyped
         DEF ShutdownWrite, TypeInv, TypeOK, Commands, Entries, RegStates
    <3> QED BY <2>3, <3>1, <3>2, <3>3, <3>4, <3>5, <3>6 DEF Shutdown
  <2>4. ASSUME NEW c \in Clis, Destroy(c)
        PROVE  TypeInv'
    <3>1. CASE DestroyLoad(c)
      BY <3>1, IdleTyped, ZenonT(60)
         DEF DestroyLoad, TypeInv, TypeOK, ArgsGiven, Commands, Steps, Idle,
             Accepting
    <3>2. CASE DestroyFind(c)
      BY <3>2, GotoTyped, DieTyped
         DEF DestroyFind, TypeInv, TypeOK, ArgsGiven, Steps, Accepting,
             Commands
    <3>3. CASE DestroyStop(c)
      BY <3>3, GotoTyped, RemoveTyped, StopTyped, FailsTyped
         DEF DestroyStop, TypeInv, TypeOK, Steps, Accepting
    <3>4. CASE DestroyUnstage(c) \/ DestroyWipe(c) \/ DestroyArchive(c)
      BY <3>4, GotoTyped
         DEF DestroyUnstage, DestroyWipe, DestroyArchive, TypeInv, TypeOK,
             Steps, Accepting
    <3>5. CASE DestroyTombstone(c)
      BY <3>5, DieTyped
         DEF DestroyTombstone, TypeInv, TypeOK, Commands, Entries, RegStates,
             Destroyed
    <3> QED BY <2>4, <3>1, <3>2, <3>3, <3>4, <3>5 DEF Destroy
  <2>5. ASSUME NEW c \in Clis,
               FinalizeCheck(c) \/ FinalizeLink(c) \/ Unstage(c)
        PROVE  TypeInv'
    <3>1. CASE FinalizeCheck(c)
      BY <3>1, FindTyped DEF FinalizeCheck, TypeInv, TypeOK, Steps, Accepting
    <3>2. CASE FinalizeLink(c)
      BY <3>2, DieTyped DEF FinalizeLink, TypeInv, TypeOK, Commands
    <3>3. CASE Unstage(c)
      BY <3>3 DEF Unstage, TypeInv, TypeOK, ArgsGiven
    <3> QED BY <2>5, <3>1, <3>2, <3>3
  <2>6. ASSUME NEW c \in Clis, Accept(c)
        PROVE  TypeInv'
    <3>1. CASE AcceptFind(c)
      BY <3>1, FindTyped DEF AcceptFind, Steps
    <3>2. CASE AcceptLoad(c)
      BY <3>2, DieTyped
         DEF AcceptLoad, LoadLive, TypeInv, TypeOK, ArgsGiven, Commands,
             Steps, Accepting
    <3>3. CASE AcceptCheck(c)
      BY <3>3, GotoTyped, DieTyped
         DEF AcceptCheck, TypeInv, TypeOK, ArgsGiven, Steps, Accepting
    <3>4. CASE AcceptMkdir(c) \/ AcceptCopy(c)
      <4>1. cmd[c].arg \in Slugs /\ Bundle(c) \in Bundles
        BY <3>4, BundleTyped
           DEF AcceptMkdir, AcceptCopy, TypeInv, ArgsGiven, Accepting
      <4> QED BY <3>4, <4>1, GotoTyped, DieTyped
                 DEF AcceptMkdir, AcceptCopy, TypeInv, TypeOK, Steps
    <3>5. CASE AcceptManifest(c)
      BY <3>5
         DEF AcceptManifest, TypeInv, TypeOK, ArgsGiven, Commands, Steps,
             Accepting
    <3>6. CASE AcceptDescribe(c)
      <4>1. cmd[c].arg \in Slugs /\ Bundle(c) \in Bundles
        BY <3>6, BundleTyped
           DEF AcceptDescribe, TypeInv, ArgsGiven, Accepting
      <4> QED BY <3>6, <4>1
                 DEF AcceptDescribe, TypeInv, TypeOK, ArgsGiven, Commands,
                     Steps, Accepting
    <3>7. CASE AcceptUnstage(c)
      BY <3>7, GotoTyped, DieTyped
         DEF AcceptUnstage, TypeInv, TypeOK, ArgsGiven, Steps, Accepting
    <3>8. CASE AcceptRecord(c)
      <4>1. cmd[c].seen \in Entries /\ cmd[c].arg \in Slugs
        BY <3>8 DEF AcceptRecord, TypeInv, TypeOK, ArgsGiven, Commands,
                    Accepting
      <4>2. Append(cmd[c].seen.cycles, cmd[c].arg) \in Seq(Slugs)
        BY <4>1 DEF Entries
      <4>3. reg' \in Entries
        BY <3>8, <4>1, <4>2 DEF AcceptRecord, Entries
      <4> QED BY <3>8, <4>3, DieTyped DEF AcceptRecord, TypeInv, TypeOK
    <3> QED BY <2>6, <3>1, <3>2, <3>3, <3>4, <3>5, <3>6, <3>7, <3>8
               DEF Accept
  <2>7. ASSUME NEW c \in Clis, CliDies(c)
        PROVE  TypeInv'
    BY <2>7, DieTyped DEF CliDies, TypeInv, TypeOK
  <2>8. ASSUME AgentWrites \/ AgentTurns \/ ContainerDies
        PROVE  TypeInv'
    BY <2>8 DEF AgentWrites, AgentTurns, ContainerDies, TypeInv, TypeOK,
                ArgsGiven, CtrStates, Phases
  <2>9. ASSUME UNCHANGED vars
        PROVE  TypeInv'
    BY <2>9 DEF vars, TypeInv, TypeOK, ArgsGiven
  <2> QED BY <2>1, <2>2, <2>3, <2>4, <2>5, <2>6, <2>7, <2>8, <2>9 DEF Next
<1> QED BY <1>1, <1>2, PTL DEF Spec

-----------------------------------------------------------------------------
(* The bundle behind every cycle of an entry is whole; that holds of the   *)
(* registry, of every entry a command has read and may write back, and the *)
(* bundle an accept is about to record is whole since its copy ended.      *)
BundlesWhole(entry) ==
    \A i \in DOMAIN entry.cycles : <<i, entry.cycles[i]>> \in whole

Copied == {"ac_manifest", "ac_describe", "ac_unstage", "ac_record"}

WholeInv ==
    /\ BundlesWhole(reg)
    /\ \A c \in Clis : BundlesWhole(cmd[c].seen)
    /\ \A c \in Clis : cmd[c].pc \in Copied => Bundle(c) \in whole

LEMMA IdleWhole == BundlesWhole(NoReg) /\ BundlesWhole(Idle.seen)
BY DEF BundlesWhole, NoReg, Idle

(* Commands only ever write back, or keep, an entry that was read: either  *)
(* the registry's or the one a command holds.                              *)
LEMMA KeepsWhole ==
    ASSUME WholeInv,
           whole \subseteq whole',
           reg'.cycles \in {reg.cycles, << >>} \cup
                             {cmd[c].seen.cycles : c \in Clis},
           \A c \in Clis :
              \/ /\ cmd'[c].seen \in {cmd[c].seen, reg, NoReg}
                 /\ cmd'[c].pc \notin Copied
              \/ /\ cmd'[c].seen = cmd[c].seen /\ cmd'[c].arg = cmd[c].arg
                 /\ cmd'[c].pc \in Copied => cmd[c].pc \in Copied
    PROVE  WholeInv'
<1>1. BundlesWhole(reg)'
  BY DEF WholeInv, BundlesWhole
<1>2. \A c \in Clis : BundlesWhole(cmd[c].seen)'
  BY IdleWhole DEF WholeInv, BundlesWhole
<1>3. \A c \in Clis : (cmd[c].pc \in Copied => Bundle(c) \in whole)'
  BY DEF WholeInv, Bundle
<1> QED BY <1>1, <1>2, <1>3 DEF WholeInv

(* A step within a command keeps its locals but the step itself.           *)
LEMMA GotoKeeps ==
    ASSUME NEW c \in Clis, NEW step \in Steps, TypeInv, WholeInv,
           Goto(c, step), step \in Copied => cmd[c].pc \in Copied,
           whole' = whole,
           reg'.cycles \in {reg.cycles, cmd[c].seen.cycles}
    PROVE  WholeInv'
BY KeepsWhole DEF Goto, TypeInv, TypeOK, Commands, At

LEMMA DieKeeps ==
    ASSUME NEW c \in Clis, TypeInv, WholeInv, Die(c),
           whole' = whole,
           reg'.cycles \in {reg.cycles, cmd[c].seen.cycles, << >>}
    PROVE  WholeInv'
BY KeepsWhole DEF Die, TypeInv, TypeOK, Idle, Copied

LEMMA LoadKeeps ==
    ASSUME NEW c \in Clis, NEW step \in Steps \ Copied, TypeInv, WholeInv,
           cmd' = [cmd EXCEPT ![c] = [Idle EXCEPT !.pc = step, !.seen = reg]],
           whole' = whole, reg' = reg
    PROVE  WholeInv'
BY KeepsWhole DEF TypeInv, TypeOK, Idle

LEMMA FindKeeps ==
    ASSUME NEW c \in Clis, NEW arg, NEW step \in Steps \ Copied,
           TypeInv, WholeInv, Find(c, arg, step)
    PROVE  WholeInv'
BY KeepsWhole, SMTT(30) DEF Find, TypeInv, TypeOK, Idle, disk, filed

LEMMA RemoveKeeps ==
    ASSUME NEW c \in Clis, NEW next \in Steps \ Copied, TypeInv, WholeInv,
           RemoveContainer(c, next), whole' = whole, reg' = reg
    PROVE  WholeInv'
BY KeepsWhole, ZenonT(60) DEF RemoveContainer, TypeInv, TypeOK, Commands

(* A copy makes its bundle whole before the accept goes on to record it.   *)
LEMMA CopyKeeps ==
    ASSUME NEW c \in Clis, TypeInv, WholeInv, AcceptCopy(c)
    PROVE  WholeInv'
<1> USE DEF AcceptCopy, At, docker, work
<1>1. CASE cmd[c].arg \in outputs /\ plan
  <2>1. /\ Bundle(c) \in whole' /\ whole \subseteq whole' /\ reg' = reg
        /\ cmd' = [cmd EXCEPT ![c].pc = "ac_manifest"]
    BY <1>1 DEF Goto
  <2>2. \A d \in Clis : /\ cmd'[d].seen = cmd[d].seen
                        /\ cmd'[d].arg = cmd[d].arg
                        /\ d # c => cmd'[d] = cmd[d]
    BY <2>1 DEF TypeInv, TypeOK, Commands
  <2>3. \A d \in Clis : Bundle(d)' = Bundle(d)
    BY <2>2 DEF Bundle
  <2>4. \A d \in Clis : (cmd[d].pc \in Copied => Bundle(d) \in whole)'
    BY <2>1, <2>2, <2>3 DEF WholeInv
  <2>5. BundlesWhole(reg)' /\ \A d \in Clis : BundlesWhole(cmd[d].seen)'
    BY <2>1, <2>2 DEF WholeInv, BundlesWhole
  <2> QED BY <2>4, <2>5 DEF WholeInv
<1>2. CASE ~(cmd[c].arg \in outputs /\ plan)
  BY <1>2, DieKeeps
<1> QED BY <1>1, <1>2

(* The cycle an accept records is the one after those it has read, and its *)
(* bundle has been whole since the copy.                                   *)
LEMMA RecordKeeps ==
    ASSUME NEW c \in Clis, TypeInv, WholeInv, AcceptRecord(c)
    PROVE  WholeInv'
<1> DEFINE cycles == cmd[c].seen.cycles
           slug   == cmd[c].arg
<1> USE DEF AcceptRecord, At, docker, work, filed
<1>1. cycles \in Seq(Slugs) /\ slug \in Slugs
  BY DEF TypeInv, TypeOK, ArgsGiven, Accepting, Commands, Entries
<1>2. reg'.cycles = Append(cycles, slug) /\ whole' = whole
  BY DEF TypeInv, TypeOK, Commands, Entries
<1>3. <<Len(cycles) + 1, slug>> \in whole
  BY DEF WholeInv, Bundle, Copied
<1>4. \A i \in DOMAIN cycles : <<i, cycles[i]>> \in whole
  BY DEF WholeInv, BundlesWhole
<1>5. BundlesWhole(reg)'
  <2> SUFFICES ASSUME NEW i \in DOMAIN reg'.cycles
               PROVE  <<i, reg'.cycles[i]>> \in whole
    BY <1>2 DEF BundlesWhole
  <2>1. i \in 1 .. Len(cycles) + 1
    BY <1>1, <1>2
  <2>2. CASE i = Len(cycles) + 1
    <3>1. Append(cycles, slug)[Len(cycles) + 1] = slug
      BY <1>1, SMTT(30)
    <3> QED BY <1>2, <1>3, <2>2, <3>1
  <2>3. CASE i \in 1 .. Len(cycles)
    <3>1. Append(cycles, slug)[i] = cycles[i] /\ i \in DOMAIN cycles
      BY <1>1, <2>3
    <3> QED BY <1>2, <1>4, <3>1
  <2> QED BY <1>1, <2>1, <2>2, <2>3
<1>6. \A d \in Clis : /\ BundlesWhole(cmd[d].seen)'
                      /\ (cmd[d].pc \in Copied => Bundle(d) \in whole)'
  BY <1>2, IdleWhole
     DEF Die, WholeInv, BundlesWhole, Bundle, Idle, Copied, TypeInv, TypeOK
<1> QED BY <1>5, <1>6 DEF WholeInv

(* Every cycle the registry calls accepted has its whole bundle on disk,   *)
(* whichever commands run at once and wherever they die.                   *)
THEOREM AcceptedStaysWhole == Spec => []AcceptedBundlesWhole
<1>1. Init => WholeInv
  BY IdleWhole DEF Init, WholeInv, Idle, Copied
<1>2. TypeInv /\ WholeInv /\ [Next]_vars => WholeInv'
  <2> SUFFICES ASSUME TypeInv, WholeInv, [Next]_vars PROVE WholeInv'
    OBVIOUS
  <2> USE DEF disk, docker, work, filed, At
  <2>1. ASSUME NEW c \in Clis, Spawn(c)
        PROVE  WholeInv'
    <3>1. CASE SpawnLoad(c)
      BY <3>1, LoadKeeps DEF SpawnLoad, Steps, Copied
    <3>2. CASE \/ SpawnProbe(c) \/ SpawnStage(c) \/ SpawnPlan(c)
               \/ SpawnStart(c)
      BY <3>2, GotoKeeps, DieKeeps, SMTT(30)
         DEF SpawnProbe, SpawnStage, SpawnPlan, SpawnStart, Steps, Copied
    <3>3. CASE SpawnRegister(c)
      <4>1. reg'.cycles = cmd[c].seen.cycles
        BY <3>3 DEF SpawnRegister, TypeInv, TypeOK, Commands, Entries
      <4> QED BY <3>3, <4>1, GotoKeeps, DieKeeps, ZenonT(60)
                 DEF SpawnRegister, Steps, Copied
    <3>4. CASE SpawnCreate(c)
      BY <3>4, KeepsWhole
         DEF SpawnCreate, Goto, TypeInv, TypeOK, Commands, Copied
    <3>5. CASE SpawnRollback(c)
      BY <3>5, GotoKeeps, DieKeeps DEF SpawnRollback, Steps, Copied
    <3>6. CASE SpawnUnlink(c)
      BY <3>6, DieKeeps DEF SpawnUnlink, NoReg
    <3> QED BY <2>1, <3>1, <3>2, <3>3, <3>4, <3>5, <3>6 DEF Spawn
  <2>2. ASSUME NEW c \in Clis, Message(c) \/ Unstage(c)
        PROVE  WholeInv'
    BY <2>2 DEF Message, Unstage, WholeInv, BundlesWhole, Bundle
  <2>3. ASSUME NEW c \in Clis, Shutdown(c)
        PROVE  WholeInv'
    <3>1. CASE ShutdownFind(c)
      BY <3>1, FindKeeps DEF ShutdownFind, Steps, Copied
    <3>2. CASE ShutdownLoad(c)
      BY <3>2, KeepsWhole, DieKeeps
         DEF ShutdownLoad, LoadLive, TypeInv, TypeOK, Commands, Copied
    <3>3. CASE ShutdownCheck(c) \/ ShutdownStop(c)
      BY <3>3, GotoKeeps, DieKeeps
         DEF ShutdownCheck, ShutdownStop, Steps, Copied
    <3>4. CASE ShutdownRemove(c)
      BY <3>4, RemoveKeeps, DieKeeps DEF ShutdownRemove, Steps, Copied
    <3>5. CASE ShutdownWrite(c)
      <4>1. reg'.cycles = cmd[c].seen.cycles
        BY <3>5 DEF ShutdownWrite, TypeInv, TypeOK, Commands, Entries
      <4> QED BY <3>5, <4>1, DieKeeps DEF ShutdownWrite
    <3> QED BY <2>3, <3>1, <3>2, <3>3, <3>4, <3>5 DEF Shutdown
  <2>4. ASSUME NEW c \in Clis, Destroy(c)
        PROVE  WholeInv'
    <3>1. CASE DestroyLoad(c)
      BY <3>1, LoadKeeps DEF DestroyLoad, Steps, Copied
    <3>2. CASE DestroyFind(c)
      BY <3>2, KeepsWhole, GotoKeeps, DieKeeps
         DEF DestroyFind, TypeInv, TypeOK, Commands, Steps, Copied
    <3>3. CASE DestroyStop(c)
      BY <3>3, RemoveKeeps, GotoKeeps DEF DestroyStop, Steps, Copied
    <3>4. CASE DestroyUnstage(c) \/ DestroyWipe(c) \/ DestroyArchive(c)
      BY <3>4, GotoKeeps
         DEF DestroyUnstage, DestroyWipe, DestroyArchive, Steps, Copied
    <3>5. CASE DestroyTombstone(c)
      <4>1. reg'.cycles = cmd[c].seen.cycles
        BY <3>5 DEF DestroyTombstone, TypeInv, TypeOK, Commands, Entries
      <4> QED BY <3>5, <4>1, DieKeeps DEF DestroyTombstone
    <3> QED BY <2>4, <3>1, <3>2, <3>3, <3>4, <3>5 DEF Destroy
  <2>5. ASSUME NEW c \in Clis, FinalizeCheck(c) \/ FinalizeLink(c)
        PROVE  WholeInv'
    BY <2>5, FindKeeps, DieKeeps
       DEF FinalizeCheck, FinalizeLink, Steps, Copied
  <2>6. ASSUME NEW c \in Clis, Accept(c)
        PROVE  WholeInv'
    <3>1. CASE AcceptFind(c)
      BY <3>1, FindKeeps DEF AcceptFind, Steps, Copied
    <3>2. CASE AcceptLoad(c)
      BY <3>2, KeepsWhole, DieKeeps
         DEF AcceptLoad, LoadLive, TypeInv, TypeOK, Commands, Copied
    <3>3. CASE AcceptCheck(c) \/ AcceptMkdir(c)
      BY <3>3, GotoKeeps, DieKeeps
         DEF AcceptCheck, AcceptMkdir, Steps, Copied
    <3>4. CASE AcceptCopy(c)
      BY <3>4, CopyKeeps
    <3>5. CASE AcceptManifest(c) \/ AcceptDescribe(c)
      BY <3>5, KeepsWhole
         DEF AcceptManifest, AcceptDescribe, TypeInv, TypeOK, Commands,
             Copied
    <3>6. CASE AcceptUnstage(c)
      BY <3>6, GotoKeeps, DieKeeps
         DEF AcceptUnstage, Steps, Copied
    <3>7. CASE AcceptRecord(c)
      BY <3>7, RecordKeeps
    <3> QED BY <2>6, <3>1, <3>2, <3>3, <3>4, <3>5, <3>6, <3>7 DEF Accept
  <2>7. ASSUME NEW c \in Clis, CliDies(c)
        PROVE  WholeInv'
    BY <2>7, DieKeeps DEF CliDies
  <2>8. ASSUME AgentWrites \/ AgentTurns \/ ContainerDies
        PROVE  WholeInv'
    BY <2>8 DEF AgentWrites, AgentTurns, ContainerDies, WholeInv,
                BundlesWhole, Bundle
  <2>9. ASSUME UNCHANGED vars
        PROVE  WholeInv'
    BY <2>9 DEF vars, WholeInv, BundlesWhole, Bundle
  <2> QED BY <2>1, <2>2, <2>3, <2>4, <2>5, <2>6, <2>7, <2>8, <2>9 DEF Next
<1>3. WholeInv => AcceptedBundlesWhole
  BY DEF WholeInv, BundlesWhole, AcceptedBundlesWhole
<1> QED BY <1>1, <1>2, <1>3, RegistryTyped, PTL DEF Spec

(* Every variable keeps its type.                                          *)
THEOREM RegistryTypeCorrect == Spec => []TypeOK
<1>1. TypeInv => TypeOK
  BY DEF TypeInv
<1> QED BY <1>1, RegistryTyped, PTL

-----------------------------------------------------------------------------
(* The registry when commands do not overlap: what it tells of the machine *)
(* and of the manifest, and the ledger that it implements.                 *)

(* One command at a time.                                                  *)
Single == \A c, d \in Clis : c = d

(* A tombstone as destroy writes it.                                       *)
Tomb(cycles) == IF cycles = << >> THEN "destroyed_pre_accept"
                                  ELSE "destroyed_post_accept"

InManifest(cycles) == \A i \in DOMAIN cycles : <<i, cycles[i]>> \in manifest

(* What was wiped, and the link that was removed, but for what could not   *)
(* be.                                                                     *)
WorkGone == workdir => "work" \in left
LinkGone == staging # NoSlug => "link" \in left

(* Whatever runs: a container is a live worker's unless docker refused.    *)
Told ==
    /\ InManifest(reg.cycles)
    /\ ~refused /\ ctr # "none" => reg.st = "live"
    /\ ~refused /\ reg.st \in Destroyed =>
          WorkGone /\ LinkGone /\ ~plan
    /\ reg.st = "none" => reg.cycles = << >>
    /\ reg.st \in Destroyed => reg.st = Tomb(reg.cycles)

Unregistered == {"sp_probe", "sp_stage", "sp_plan", "sp_register"}
Registered   == {"sp_create", "sp_start", "sp_rollback"}
Checked      == {"ac_mkdir", "ac_copy", "ac_manifest", "ac_describe",
                 "ac_unstage", "ac_record"}
Loaded       == {"sd_check", "sd_stop", "sd_remove", "sd_write",
                 "ac_check"} \cup Checked
Dropped      == {"ds_unstage", "ds_wipe", "ds_archive", "ds_tombstone"}
Holding      == {"sp_start", "sd_load", "sd_check", "sd_stop", "sd_remove",
                 "ds_stop", "fi_link"}
Bared        == {"sp_create", "sp_rollback", "sp_unlink", "sd_write"}
                  \cup Dropped

(* What the command has done so far and read of the registry, and that it  *)
(* still stands.                                                           *)
Remembers(c) ==
    /\ cmd[c].pc \in Unregistered =>
          cmd[c].seen = reg /\ reg.st \in {"none", "down"}
    /\ cmd[c].pc \in Registered =>
          /\ cmd[c].seen.st \in {"none", "down"} /\ reg.st = "live"
          /\ cmd[c].seen.cycles = reg.cycles
          /\ cmd[c].seen.st = "none" => reg.cycles = << >>
    /\ cmd[c].pc = "sp_unlink" => reg.st = "live" /\ reg.cycles = << >>
    /\ cmd[c].pc \in Loaded => cmd[c].seen = reg /\ reg.st = "live"
    /\ cmd[c].pc \in {"ds_find", "ds_stop"} \cup Dropped => cmd[c].seen = reg
    /\ cmd[c].pc \in Holding => cmd[c].met = "here" /\ ctr # "none"
    /\ cmd[c].pc \in Bared => refused \/ ctr = "none"
    /\ cmd[c].pc \in {"ds_wipe", "ds_archive", "ds_tombstone"} => LinkGone
    /\ cmd[c].pc \in {"ds_archive", "ds_tombstone"} => WorkGone
    /\ cmd[c].pc = "ds_tombstone" => ~plan
    /\ cmd[c].pc \in Checked => cmd[c].arg \notin SlugsOf(cmd[c].seen)
    /\ cmd[c].pc = "ac_describe" => cmd[c].listed = manifest
    /\ cmd[c].pc \in {"ac_unstage", "ac_record"} => Bundle(c) \in manifest

SingleInv == TypeInv /\ Told /\ \A c \in Clis : Remembers(c)

(* One write of the registry is a step of the ledger or none.              *)
LedgerStep == Ledger!LedgerNext \/ UNCHANGED reg

(* What a removal, a refusal of docker and an exit leave behind.           *)
LEMMA RemoveIs ==
    ASSUME NEW c \in Clis, NEW next, TypeInv, RemoveContainer(c, next)
    PROVE  /\ ctr' = "none" /\ refused' = refused
           /\ cmd'[c].pc = next /\ cmd'[c].seen = cmd[c].seen
BY DEF RemoveContainer, TypeInv, TypeOK, Commands

LEMMA FailsIs ==
    ASSUME NEW c \in Clis, DockerFails(c)
    PROVE  (refused => refused') /\ (cmd[c].met = "here" => refused')
BY DEF DockerFails

LEMMA DieIs ==
    ASSUME NEW c \in Clis, TypeInv, Die(c)
    PROVE  cmd'[c] = Idle
BY DEF Die, TypeInv, TypeOK

(* Every step of the one command, of the agent and of docker keeps what    *)
(* the command remembers, and writes the registry as the ledger may go.    *)
LEMMA SingleStep ==
    ASSUME Single, SingleInv, Next
    PROVE  Told' /\ (\A d \in Clis : Remembers(d)') /\ LedgerStep
<1> USE DEF At, disk, docker, work, filed, WorkGone, LinkGone, Wipe
<1>0. /\ Told /\ \A c \in Clis : Remembers(c)
      /\ DOMAIN cmd = Clis /\ DOMAIN reg = {"st", "cycles"}
      /\ reg.cycles \in Seq(Slugs)
      /\ \A c \in Clis :
            /\ DOMAIN cmd[c] = {"pc", "arg", "seen", "met", "listed"}
            /\ DOMAIN cmd[c].seen = {"st", "cycles"}
            /\ cmd[c].met \in {"none", "here", "gone"}
  BY DEF SingleInv, TypeInv, TypeOK, Commands, Entries
<1>1. ASSUME NEW c \in Clis, SpawnLoad(c)
      PROVE  Told' /\ Remembers(c)' /\ LedgerStep
  BY <1>1, <1>0 DEF SpawnLoad, Told, InManifest, Remembers, Bundle, SlugsOf,
       Tomb, LedgerStep, Idle, NoReg, Unregistered, Registered, Checked,
       Loaded, Dropped, Holding, Bared, Destroyed
<1>2. ASSUME NEW c \in Clis, SpawnProbe(c)
      PROVE  Told' /\ Remembers(c)' /\ LedgerStep
  BY <1>2, <1>0 DEF SpawnProbe, Goto, Die, Told, InManifest, Remembers,
       Bundle, SlugsOf, Tomb, LedgerStep, Idle, NoReg, Unregistered,
       Registered, Checked, Loaded, Dropped, Holding, Bared, Destroyed
<1>3. ASSUME NEW c \in Clis, SpawnStage(c)
      PROVE  Told' /\ Remembers(c)' /\ LedgerStep
  <2>0. /\ cmd[c].pc = "sp_stage" /\ cmd'[c].pc = "sp_plan"
        /\ cmd'[c].seen = cmd[c].seen /\ reg' = reg
        /\ ctr' = ctr /\ refused' = refused
    BY <1>3, <1>0 DEF SpawnStage, Goto
  <2>1. Told'
    <3>1. reg.st \in {"none", "down"}
      BY <2>0, <1>0 DEF Remembers, Unregistered
    <3> QED
      BY <1>3, <2>0, <3>1, <1>0 DEF SpawnStage, Told, InManifest, Destroyed
  <2>2. Remembers(c)'
    BY <1>3, <2>0, <1>0
       DEF SpawnStage, Remembers, Bundle, SlugsOf, Tomb, Idle, NoReg,
           Unregistered, Registered, Checked, Loaded, Dropped, Holding, Bared
  <2>3. LedgerStep
    BY <2>0 DEF LedgerStep
  <2> QED
    BY <2>1, <2>2, <2>3
<1>4. ASSUME NEW c \in Clis, SpawnPlan(c)
      PROVE  Told' /\ Remembers(c)' /\ LedgerStep
  <2>1. Told'
    BY <1>4, <1>0 DEF SpawnPlan, Goto, Die, Told, InManifest, Remembers, Tomb,
       Idle, NoReg, Bundle, Unregistered, Registered, Checked, Loaded,
       Dropped, Holding, Bared, Destroyed
  <2>2. Remembers(c)'
    BY <1>4, <1>0 DEF SpawnPlan, Goto, Die, Told, Remembers, Bundle, SlugsOf,
       Idle, NoReg, Unregistered, Registered, Checked, Loaded, Dropped,
       Holding, Bared, Destroyed
  <2>3. LedgerStep
    BY <1>4 DEF SpawnPlan, Goto, Die, LedgerStep
  <2> QED
    BY <2>1, <2>2, <2>3
<1>5. ASSUME NEW c \in Clis, SpawnRegister(c)
      PROVE  Told' /\ Remembers(c)' /\ LedgerStep
  <2>1. Told'
    BY <1>5, <1>0 DEF SpawnRegister, Goto, Die, Told, InManifest, Remembers,
       Tomb, Idle, NoReg, Bundle, Unregistered, Registered, Checked, Loaded,
       Dropped, Holding, Bared, Destroyed
  <2>2. Remembers(c)'
    BY <1>5, <1>0 DEF SpawnRegister, Goto, Die, Told, Remembers, Bundle,
       SlugsOf, Idle, NoReg, Unregistered, Registered, Checked, Loaded,
       Dropped, Holding, Bared, Destroyed
  <2>3. LedgerStep
    BY <1>5, <1>0 DEF SpawnRegister, Goto, Die, Remembers, Told, LedgerStep,
       Tomb, NoReg, SlugsOf, Ledger!LedgerNext, Ledger!Spawn, Ledger!Unspawn,
       Ledger!Shutdown, Ledger!Accept, Ledger!Destroy, Ledger!NoEntry,
       Ledger!Tombstones, Unregistered, Registered, Checked, Loaded, Dropped,
       Holding, Bared, Destroyed
  <2> QED
    BY <2>1, <2>2, <2>3
<1>6. ASSUME NEW c \in Clis, SpawnCreate(c)
      PROVE  Told' /\ Remembers(c)' /\ LedgerStep
  BY <1>6, <1>0 DEF SpawnCreate, Goto, Told, InManifest, Remembers, Bundle,
       SlugsOf, Tomb, LedgerStep, Idle, NoReg, Unregistered, Registered,
       Checked, Loaded, Dropped, Holding, Bared, Destroyed
<1>7. ASSUME NEW c \in Clis, SpawnStart(c)
      PROVE  Told' /\ Remembers(c)' /\ LedgerStep
  <2>0. cmd[c].pc = "sp_start" /\ reg' = reg /\ (refused => refused')
    BY <1>7, FailsIs DEF SpawnStart
  <2>1. /\ cmd[c].seen.st \in {"none", "down"} /\ reg.st = "live"
        /\ cmd[c].seen.cycles = reg.cycles
        /\ cmd[c].seen.st = "none" => reg.cycles = << >>
        /\ cmd[c].met = "here"
    BY <2>0, <1>0 DEF Remembers, Holding, Registered
  <2>2. \/ cmd'[c] = Idle
        \/ /\ refused' /\ cmd'[c].pc = "sp_rollback"
           /\ cmd'[c].seen = cmd[c].seen
    BY <1>7, <2>1, <1>0, ZenonT(60) DEF SpawnStart, Die, DockerFails, Goto
  <2>3. Told'
    BY <1>7, <2>0, <2>1, <1>0 DEF SpawnStart, Told, InManifest, Destroyed
  <2>4. Remembers(c)'
    BY <2>0, <2>1, <2>2
    DEF Remembers, Idle, Unregistered, Registered, Checked, Loaded, Dropped,
        Holding, Bared
  <2> QED
    BY <2>0, <2>3, <2>4 DEF LedgerStep
<1>8. ASSUME NEW c \in Clis, SpawnRollback(c)
      PROVE  Told' /\ Remembers(c)' /\ LedgerStep
  <2>0. cmd[c].pc = "sp_rollback" /\ ctr' = ctr /\ refused' = refused
        /\ manifest' = manifest
    BY <1>8 DEF SpawnRollback
  <2>1. /\ cmd[c].seen.st \in {"none", "down"} /\ reg.st = "live"
        /\ cmd[c].seen.cycles = reg.cycles
        /\ cmd[c].seen.st = "none" => reg.cycles = << >>
        /\ refused \/ ctr = "none"
    BY <2>0, <1>0 DEF Remembers, Bared, Registered
  <2>2. CASE cmd[c].seen # NoReg
    <3>1. reg' = cmd[c].seen /\ cmd'[c] = Idle
      BY <1>8, <2>2, <1>0 DEF SpawnRollback, Die
    <3>2. reg'.st = "down" /\ reg'.cycles = reg.cycles
      <4>1. cmd[c].seen = [st |-> cmd[c].seen.st, cycles |-> cmd[c].seen.cycles]
        BY DEF SingleInv, TypeInv, TypeOK, Commands, Entries
      <4> QED
        BY <4>1, <3>1, <2>1, <2>2 DEF NoReg
    <3>3. reg' = [reg EXCEPT !.st = "down"]
      <4>1. /\ reg = [st |-> reg.st, cycles |-> reg.cycles]
            /\ reg' = [st |-> reg'.st, cycles |-> reg'.cycles]
        BY <3>1 DEF SingleInv, TypeInv, TypeOK, Commands, Entries
      <4> QED
        BY <4>1, <3>2
    <3>4. Told'
      BY <2>0, <2>1, <3>2, <1>0 DEF Told, InManifest, Destroyed
    <3>5. Remembers(c)'
      BY <3>1
      DEF Remembers, Idle, Unregistered, Registered, Checked, Loaded, Dropped,
          Holding, Bared
    <3>6. LedgerStep
      BY <3>3, <2>1 DEF LedgerStep, Ledger!LedgerNext, Ledger!Unspawn
    <3> QED
      BY <3>4, <3>5, <3>6
  <2>3. CASE cmd[c].seen = NoReg
    <3>1. cmd'[c].pc = "sp_unlink" /\ reg' = reg
      BY <1>8, <2>3, <1>0 DEF SpawnRollback, Goto
    <3>2. reg.cycles = << >>
      BY <2>1, <2>3 DEF NoReg
    <3>3. Told'
      BY <2>0, <2>1, <3>1, <1>0 DEF Told, InManifest, Destroyed
    <3>4. Remembers(c)'
      BY <2>0, <2>1, <3>1, <3>2
      DEF Remembers, Unregistered, Registered, Checked, Loaded, Dropped,
          Holding, Bared
    <3> QED
      BY <3>1, <3>3, <3>4 DEF LedgerStep
  <2> QED
    BY <2>2, <2>3
<1>9. ASSUME NEW c \in Clis, SpawnUnlink(c)
      PROVE  Told' /\ Remembers(c)' /\ LedgerStep
  <2>1. Told'
    BY <1>9, <1>0
    DEF SpawnUnlink, Die, Told, InManifest, Remembers, Tomb, Idle, NoReg,
        Bundle, Unregistered, Registered, Checked, Loaded, Dropped, Holding,
        Bared, Destroyed
  <2>2. Remembers(c)'
    BY <1>9, <1>0
    DEF SpawnUnlink, Die, Told, Remembers, Bundle, SlugsOf, Idle, NoReg,
        Unregistered, Registered, Checked, Loaded, Dropped, Holding, Bared,
        Destroyed
  <2>3. LedgerStep
    BY <1>9, <1>0 DEF SpawnUnlink, Die, Remembers, Told, LedgerStep, Tomb,
       NoReg, SlugsOf, Ledger!LedgerNext, Ledger!Spawn, Ledger!Unspawn,
       Ledger!Shutdown, Ledger!Accept, Ledger!Destroy, Ledger!NoEntry,
       Ledger!Tombstones, Unregistered, Registered, Checked, Loaded, Dropped,
       Holding, Bared, Destroyed
  <2> QED
    BY <2>1, <2>2, <2>3
<1>10. ASSUME NEW c \in Clis, Message(c)
      PROVE  Told' /\ Remembers(c)' /\ LedgerStep
  BY <1>10, <1>0 DEF Message, Told, InManifest, Remembers, Bundle, SlugsOf,
       Tomb, LedgerStep, Idle, NoReg, Unregistered, Registered, Checked,
       Loaded, Dropped, Holding, Bared, Destroyed
<1>11. ASSUME NEW c \in Clis, ShutdownFind(c)
      PROVE  Told' /\ Remembers(c)' /\ LedgerStep
  BY <1>11, <1>0 DEF ShutdownFind, Find, LoadLive, Die, Told, InManifest,
       Remembers, Bundle, SlugsOf, Tomb, LedgerStep, Idle, NoReg,
       Unregistered, Registered, Checked, Loaded, Dropped, Holding, Bared,
       Destroyed
<1>12. ASSUME NEW c \in Clis, ShutdownLoad(c)
      PROVE  Told' /\ Remembers(c)' /\ LedgerStep
  BY <1>12, <1>0 DEF ShutdownLoad, LoadLive, Die, Told, InManifest, Remembers,
       Bundle, SlugsOf, Tomb, LedgerStep, Idle, NoReg, Unregistered,
       Registered, Checked, Loaded, Dropped, Holding, Bared, Destroyed
<1>13. ASSUME NEW c \in Clis, ShutdownCheck(c)
      PROVE  Told' /\ Remembers(c)' /\ LedgerStep
  BY <1>13, <1>0 DEF ShutdownCheck, Goto, Die, Told, InManifest, Remembers,
       Bundle, SlugsOf, Tomb, LedgerStep, Idle, NoReg, Unregistered,
       Registered, Checked, Loaded, Dropped, Holding, Bared, Destroyed
<1>14. ASSUME NEW c \in Clis, ShutdownStop(c)
      PROVE  Told' /\ Remembers(c)' /\ LedgerStep
  <2>1. Told'
    BY <1>14, <1>0
    DEF ShutdownStop, Goto, Die, StopContainer, DockerFails, Told, InManifest,
        Remembers, Tomb, Idle, NoReg, Bundle, Unregistered, Registered,
        Checked, Loaded, Dropped, Holding, Bared, Destroyed
  <2>2. Remembers(c)'
    BY <1>14, <1>0
    DEF ShutdownStop, Goto, Die, StopContainer, DockerFails, Told, Remembers,
        Bundle, SlugsOf, Idle, NoReg, Unregistered, Registered, Checked,
        Loaded, Dropped, Holding, Bared, Destroyed
  <2>3. LedgerStep
    BY <1>14
    DEF ShutdownStop, Goto, Die, StopContainer, DockerFails, LedgerStep
  <2> QED
    BY <2>1, <2>2, <2>3
<1>15. ASSUME NEW c \in Clis, ShutdownRemove(c)
      PROVE  Told' /\ Remembers(c)' /\ LedgerStep
  <2>0. cmd[c].pc = "sd_remove" /\ reg' = reg /\ (refused => refused')
    BY <1>15, RemoveIs, FailsIs DEF SingleInv, ShutdownRemove
  <2>1. cmd[c].seen = reg /\ reg.st = "live" /\ cmd[c].met = "here"
    BY <2>0, <1>0 DEF Remembers, Holding, Loaded
  <2>2. \/ /\ ctr' = "none" /\ cmd'[c].pc = "sd_write"
           /\ cmd'[c].seen = cmd[c].seen
        \/ ctr' = ctr /\ cmd'[c] = Idle
    BY <1>15, RemoveIs, DieIs DEF SingleInv, ShutdownRemove
  <2>3. Told'
    BY <1>15, <2>0, <2>1, <1>0 DEF ShutdownRemove, Told, InManifest, Destroyed
  <2>4. Remembers(c)'
    BY <2>0, <2>1, <2>2
    DEF Remembers, Idle, Unregistered, Registered, Checked, Loaded, Dropped,
        Holding, Bared
  <2> QED
    BY <2>0, <2>3, <2>4 DEF LedgerStep
<1>16. ASSUME NEW c \in Clis, ShutdownWrite(c)
      PROVE  Told' /\ Remembers(c)' /\ LedgerStep
  <2>1. Told'
    BY <1>16, <1>0 DEF ShutdownWrite, Die, Told, InManifest, Remembers, Tomb,
       Idle, NoReg, Bundle, Unregistered, Registered, Checked, Loaded,
       Dropped, Holding, Bared, Destroyed
  <2>2. Remembers(c)'
    BY <1>16, <1>0 DEF ShutdownWrite, Die, Told, Remembers, Bundle, SlugsOf,
       Idle, NoReg, Unregistered, Registered, Checked, Loaded, Dropped,
       Holding, Bared, Destroyed
  <2>3. LedgerStep
    BY <1>16, <1>0 DEF ShutdownWrite, Die, Remembers, Told, LedgerStep, Tomb,
       NoReg, SlugsOf, Ledger!LedgerNext, Ledger!Spawn, Ledger!Unspawn,
       Ledger!Shutdown, Ledger!Accept, Ledger!Destroy, Ledger!NoEntry,
       Ledger!Tombstones, Unregistered, Registered, Checked, Loaded, Dropped,
       Holding, Bared, Destroyed
  <2> QED
    BY <2>1, <2>2, <2>3
<1>17. ASSUME NEW c \in Clis, DestroyLoad(c)
      PROVE  Told' /\ Remembers(c)' /\ LedgerStep
  BY <1>17, <1>0 DEF DestroyLoad, Told, InManifest, Remembers, Bundle,
       SlugsOf, Tomb, LedgerStep, Idle, NoReg, Unregistered, Registered,
       Checked, Loaded, Dropped, Holding, Bared, Destroyed
<1>18. ASSUME NEW c \in Clis, DestroyFind(c)
      PROVE  Told' /\ Remembers(c)' /\ LedgerStep
  BY <1>18, <1>0 DEF DestroyFind, Goto, Die, Told, InManifest, Remembers,
       Bundle, SlugsOf, Tomb, LedgerStep, Idle, NoReg, Unregistered,
       Registered, Checked, Loaded, Dropped, Holding, Bared, Destroyed
<1>19. ASSUME NEW c \in Clis, DestroyStop(c)
      PROVE  Told' /\ Remembers(c)' /\ LedgerStep
  <2>0. /\ cmd[c].pc = "ds_stop" /\ cmd'[c].pc = "ds_unstage"
        /\ cmd'[c].seen = cmd[c].seen /\ reg' = reg
        /\ (refused => refused')
    BY <1>19, <1>0, RemoveIs, FailsIs DEF SingleInv, DestroyStop, Goto
  <2>1. cmd[c].seen = reg /\ cmd[c].met = "here"
    BY <2>0, <1>0 DEF Remembers, Holding
  <2>2. refused' \/ ctr' = "none"
    BY <1>19, <2>1, RemoveIs, FailsIs DEF SingleInv, DestroyStop
  <2>3. ctr' # "none" => ctr # "none"
    BY <1>19, <2>1
    DEF DestroyStop, RemoveContainer, DockerFails, StopContainer
  <2>4. Told'
    BY <1>19, <2>0, <2>2, <2>3, <1>0
    DEF DestroyStop, Told, InManifest, Destroyed
  <2>5. Remembers(c)'
    BY <2>0, <2>1, <2>2
    DEF Remembers, Unregistered, Registered, Checked, Loaded, Dropped,
        Holding, Bared
  <2> QED
    BY <2>0, <2>4, <2>5 DEF LedgerStep
<1>20. ASSUME NEW c \in Clis, DestroyUnstage(c)
      PROVE  Told' /\ Remembers(c)' /\ LedgerStep
  <2>0. /\ cmd[c].pc = "ds_unstage" /\ cmd'[c].pc = "ds_wipe"
        /\ cmd'[c].seen = cmd[c].seen /\ reg' = reg
        /\ ctr' = ctr /\ refused' = refused
    BY <1>20, <1>0 DEF DestroyUnstage, Goto
  <2>1. Told'
    BY <1>20, <2>0, <1>0 DEF DestroyUnstage, Told, InManifest, Destroyed
  <2>2. Remembers(c)'
    <3>1. cmd[c].seen = reg /\ (refused \/ ctr = "none")
          /\ (cmd[c].pc # "ds_unstage" => LinkGone)
          /\ (cmd[c].pc = "ds_archive" => WorkGone)
      BY <2>0, <1>0 DEF Remembers, Dropped, Bared
    <3> QED
      BY <1>20, <2>0, <3>1
      DEF DestroyUnstage, Remembers, Unregistered, Registered, Checked,
          Loaded, Dropped, Holding, Bared
  <2>3. LedgerStep
    BY <2>0 DEF LedgerStep
  <2> QED
    BY <2>1, <2>2, <2>3
<1>21. ASSUME NEW c \in Clis, DestroyWipe(c)
      PROVE  Told' /\ Remembers(c)' /\ LedgerStep
  <2>0. /\ cmd[c].pc = "ds_wipe" /\ cmd'[c].pc = "ds_archive"
        /\ cmd'[c].seen = cmd[c].seen /\ reg' = reg
        /\ ctr' = ctr /\ refused' = refused
    BY <1>21, <1>0 DEF DestroyWipe, Goto
  <2>1. Told'
    BY <1>21, <2>0, <1>0 DEF DestroyWipe, Told, InManifest, Destroyed
  <2>2. Remembers(c)'
    <3>1. cmd[c].seen = reg /\ (refused \/ ctr = "none")
          /\ (cmd[c].pc # "ds_unstage" => LinkGone)
          /\ (cmd[c].pc = "ds_archive" => WorkGone)
      BY <2>0, <1>0 DEF Remembers, Dropped, Bared
    <3> QED
      BY <1>21, <2>0, <3>1
      DEF DestroyWipe, Remembers, Unregistered, Registered, Checked, Loaded,
          Dropped, Holding, Bared
  <2>3. LedgerStep
    BY <2>0 DEF LedgerStep
  <2> QED
    BY <2>1, <2>2, <2>3
<1>22. ASSUME NEW c \in Clis, DestroyArchive(c)
      PROVE  Told' /\ Remembers(c)' /\ LedgerStep
  <2>0. /\ cmd[c].pc = "ds_archive" /\ cmd'[c].pc = "ds_tombstone"
        /\ cmd'[c].seen = cmd[c].seen /\ reg' = reg
        /\ ctr' = ctr /\ refused' = refused
    BY <1>22, <1>0 DEF DestroyArchive, Goto
  <2>1. Told'
    BY <1>22, <2>0, <1>0 DEF DestroyArchive, Told, InManifest, Destroyed
  <2>2. Remembers(c)'
    <3>1. cmd[c].seen = reg /\ (refused \/ ctr = "none")
          /\ (cmd[c].pc # "ds_unstage" => LinkGone)
          /\ (cmd[c].pc = "ds_archive" => WorkGone)
      BY <2>0, <1>0 DEF Remembers, Dropped, Bared
    <3> QED
      BY <1>22, <2>0, <3>1
      DEF DestroyArchive, Remembers, Unregistered, Registered, Checked,
          Loaded, Dropped, Holding, Bared
  <2>3. LedgerStep
    BY <2>0 DEF LedgerStep
  <2> QED
    BY <2>1, <2>2, <2>3
<1>23. ASSUME NEW c \in Clis, DestroyTombstone(c)
      PROVE  Told' /\ Remembers(c)' /\ LedgerStep
  <2>0. /\ cmd[c].pc = "ds_tombstone" /\ cmd'[c] = Idle
        /\ ctr' = ctr /\ refused' = refused /\ manifest' = manifest
        /\ workdir' = workdir /\ staging' = staging /\ plan' = plan
        /\ left' = left
    BY <1>23, <1>0 DEF DestroyTombstone, Die
  <2>1. /\ cmd[c].seen = reg /\ (refused \/ ctr = "none")
        /\ LinkGone /\ WorkGone /\ ~plan
    BY <2>0, <1>0 DEF Remembers, Bared, Dropped
  <2>2. reg' = [reg EXCEPT !.st = Tomb(reg.cycles)]
    BY <1>23, <2>1 DEF DestroyTombstone, Tomb
  <2>3. /\ reg'.st = Tomb(reg.cycles) /\ reg'.cycles = reg.cycles
        /\ reg'.st # "none"
    BY <2>2, <1>0 DEF Tomb
  <2>4. Told'
    BY <2>0, <2>1, <2>3, <1>0 DEF Told, InManifest, Destroyed
  <2>5. Remembers(c)'
    BY <2>0
    DEF Remembers, Idle, Unregistered, Registered, Checked, Loaded, Dropped,
        Holding, Bared
  <2>6. LedgerStep
    <3>1. CASE reg.st \in Destroyed
      <4>1. reg = [st |-> reg.st, cycles |-> reg.cycles]
        BY DEF SingleInv, TypeInv, TypeOK, Entries
      <4> QED
        BY <2>2, <3>1, <4>1, <1>0 DEF LedgerStep, Told
    <3>2. CASE reg.st \notin Destroyed
      BY <2>2, <3>2 DEF LedgerStep, Tomb, Destroyed, Ledger!LedgerNext,
         Ledger!Destroy, Ledger!Tombstones
    <3> QED
      BY <3>1, <3>2
  <2> QED
    BY <2>4, <2>5, <2>6
<1>24. ASSUME NEW c \in Clis, FinalizeCheck(c)
      PROVE  Told' /\ Remembers(c)' /\ LedgerStep
  BY <1>24, <1>0 DEF FinalizeCheck, Find, Told, InManifest, Remembers, Bundle,
       SlugsOf, Tomb, LedgerStep, Idle, NoReg, Unregistered, Registered,
       Checked, Loaded, Dropped, Holding, Bared, Destroyed
<1>25. ASSUME NEW c \in Clis, FinalizeLink(c)
      PROVE  Told' /\ Remembers(c)' /\ LedgerStep
  BY <1>25, <1>0 DEF FinalizeLink, Die, Told, InManifest, Remembers, Bundle,
       SlugsOf, Tomb, LedgerStep, Idle, NoReg, Unregistered, Registered,
       Checked, Loaded, Dropped, Holding, Bared, Destroyed
<1>26. ASSUME NEW c \in Clis, Unstage(c)
      PROVE  Told' /\ Remembers(c)' /\ LedgerStep
  BY <1>26, <1>0 DEF Unstage, Told, InManifest, Remembers, Bundle, SlugsOf,
       Tomb, LedgerStep, Idle, NoReg, Unregistered, Registered, Checked,
       Loaded, Dropped, Holding, Bared, Destroyed
<1>27. ASSUME NEW c \in Clis, AcceptFind(c)
      PROVE  Told' /\ Remembers(c)' /\ LedgerStep
  BY <1>27, <1>0 DEF AcceptFind, Find, LoadLive, Die, Told, InManifest,
       Remembers, Bundle, SlugsOf, Tomb, LedgerStep, Idle, NoReg,
       Unregistered, Registered, Checked, Loaded, Dropped, Holding, Bared,
       Destroyed
<1>28. ASSUME NEW c \in Clis, AcceptLoad(c)
      PROVE  Told' /\ Remembers(c)' /\ LedgerStep
  BY <1>28, <1>0 DEF AcceptLoad, LoadLive, Die, Told, InManifest, Remembers,
       Bundle, SlugsOf, Tomb, LedgerStep, Idle, NoReg, Unregistered,
       Registered, Checked, Loaded, Dropped, Holding, Bared, Destroyed
<1>29. ASSUME NEW c \in Clis, AcceptCheck(c)
      PROVE  Told' /\ Remembers(c)' /\ LedgerStep
  BY <1>29, <1>0 DEF AcceptCheck, Goto, Die, Told, InManifest, Remembers,
       Bundle, SlugsOf, Tomb, LedgerStep, Idle, NoReg, Unregistered,
       Registered, Checked, Loaded, Dropped, Holding, Bared, Destroyed
<1>30. ASSUME NEW c \in Clis, AcceptMkdir(c)
      PROVE  Told' /\ Remembers(c)' /\ LedgerStep
  BY <1>30, <1>0 DEF AcceptMkdir, Goto, Die, Told, InManifest, Remembers,
       Bundle, SlugsOf, Tomb, LedgerStep, Idle, NoReg, Unregistered,
       Registered, Checked, Loaded, Dropped, Holding, Bared, Destroyed
<1>31. ASSUME NEW c \in Clis, AcceptCopy(c)
      PROVE  Told' /\ Remembers(c)' /\ LedgerStep
  BY <1>31, <1>0 DEF AcceptCopy, Goto, Die, Told, InManifest, Remembers,
       Bundle, SlugsOf, Tomb, LedgerStep, Idle, NoReg, Unregistered,
       Registered, Checked, Loaded, Dropped, Holding, Bared, Destroyed
<1>32. ASSUME NEW c \in Clis, AcceptManifest(c)
      PROVE  Told' /\ Remembers(c)' /\ LedgerStep
  BY <1>32, <1>0 DEF AcceptManifest, Told, InManifest, Remembers, Bundle,
       SlugsOf, Tomb, LedgerStep, Idle, NoReg, Unregistered, Registered,
       Checked, Loaded, Dropped, Holding, Bared, Destroyed
<1>33. ASSUME NEW c \in Clis, AcceptDescribe(c)
      PROVE  Told' /\ Remembers(c)' /\ LedgerStep
  BY <1>33, <1>0 DEF AcceptDescribe, Told, InManifest, Remembers, Bundle,
       SlugsOf, Tomb, LedgerStep, Idle, NoReg, Unregistered, Registered,
       Checked, Loaded, Dropped, Holding, Bared, Destroyed
<1>34. ASSUME NEW c \in Clis, AcceptUnstage(c)
      PROVE  Told' /\ Remembers(c)' /\ LedgerStep
  BY <1>34, <1>0 DEF AcceptUnstage, Goto, Die, Told, InManifest, Remembers,
       Bundle, SlugsOf, Tomb, LedgerStep, Idle, NoReg, Unregistered,
       Registered, Checked, Loaded, Dropped, Holding, Bared, Destroyed
<1>35. ASSUME NEW c \in Clis, AcceptRecord(c)
      PROVE  Told' /\ Remembers(c)' /\ LedgerStep
  <2>0. /\ cmd[c].pc = "ac_record" /\ cmd'[c] = Idle
        /\ refused' = refused /\ manifest' = manifest
    BY <1>35, <1>0 DEF AcceptRecord, Die
  <2>1. /\ cmd[c].seen = reg /\ reg.st = "live" /\ Bundle(c) \in manifest
        /\ cmd[c].arg \in Slugs /\ cmd[c].arg \notin SlugsOf(reg)
    BY <2>0, <1>0
    DEF Remembers, Loaded, Checked, SingleInv, TypeInv, ArgsGiven, Accepting
  <2>2. reg' = [reg EXCEPT !.cycles = Append(@, cmd[c].arg)]
    BY <1>35, <2>1 DEF AcceptRecord
  <2>3. reg'.st = "live" /\ reg'.cycles = Append(reg.cycles, cmd[c].arg)
    BY <2>1, <2>2, <1>0
  <2>4. InManifest(reg'.cycles)
    BY <2>1, <2>3, <1>0 DEF Told, InManifest, Bundle
  <2>5. Told'
    BY <2>0, <2>3, <2>4 DEF Told, InManifest, Destroyed
  <2>6. Remembers(c)'
    BY <2>0
    DEF Remembers, Idle, Unregistered, Registered, Checked, Loaded, Dropped,
        Holding, Bared
  <2>7. LedgerStep
    <3>1. \A i \in DOMAIN reg.cycles : reg.cycles[i] # cmd[c].arg
      BY <2>1 DEF SlugsOf
    <3> QED
      BY <2>1, <2>2, <3>1 DEF LedgerStep, Ledger!LedgerNext, Ledger!Accept
  <2> QED
    BY <2>5, <2>6, <2>7
<1>36. ASSUME NEW c \in Clis, CliDies(c)
      PROVE  Told' /\ Remembers(c)' /\ LedgerStep
  BY <1>36, <1>0 DEF CliDies, Die, Told, InManifest, Remembers, Bundle,
       SlugsOf, Tomb, LedgerStep, Idle, NoReg, Unregistered, Registered,
       Checked, Loaded, Dropped, Holding, Bared, Destroyed
<1>37. ASSUME AgentWrites
      PROVE  Told' /\ (\A d \in Clis : Remembers(d)') /\ LedgerStep
  BY <1>37, <1>0 DEF AgentWrites, Told, InManifest, Remembers, Bundle,
       SlugsOf, Tomb, LedgerStep, Idle, NoReg, Unregistered, Registered,
       Checked, Loaded, Dropped, Holding, Bared, Destroyed
<1>38. ASSUME AgentTurns
      PROVE  Told' /\ (\A d \in Clis : Remembers(d)') /\ LedgerStep
  BY <1>38, <1>0 DEF AgentTurns, Told, InManifest, Remembers, Bundle, SlugsOf,
       Tomb, LedgerStep, Idle, NoReg, Unregistered, Registered, Checked,
       Loaded, Dropped, Holding, Bared, Destroyed
<1>39. ASSUME ContainerDies
      PROVE  Told' /\ (\A d \in Clis : Remembers(d)') /\ LedgerStep
  BY <1>39, <1>0 DEF ContainerDies, Told, InManifest, Remembers, Bundle,
       SlugsOf, Tomb, LedgerStep, Idle, NoReg, Unregistered, Registered,
       Checked, Loaded, Dropped, Holding, Bared, Destroyed
<1>40. ASSUME NEW c \in Clis, Remembers(c)'
       PROVE  \A d \in Clis : Remembers(d)'
  BY <1>40 DEF Single
<1> QED
  BY <1>1, <1>2, <1>3, <1>4, <1>5, <1>6, <1>7, <1>8, <1>9, <1>10, <1>11,
     <1>12, <1>13, <1>14, <1>15, <1>16, <1>17, <1>18, <1>19, <1>20, <1>21,
     <1>22, <1>23, <1>24, <1>25, <1>26, <1>27, <1>28, <1>29, <1>30, <1>31,
     <1>32, <1>33, <1>34, <1>35, <1>36, <1>37, <1>38, <1>39, <1>40
  DEF Next, Spawn, Shutdown, Destroy, Accept

(* The invariant, for any slugs and bound, and a single process.           *)
THEOREM SingleInvariant ==
    ASSUME Single
    PROVE  Spec => []SingleInv
<1>1. TypeInv /\ Init => SingleInv
  <2> SUFFICES ASSUME TypeInv, Init PROVE SingleInv
    OBVIOUS
  <2>1. Told
    BY DEF Init, NoReg, Told, InManifest, Destroyed
  <2>2. \A c \in Clis : Remembers(c)
    BY DEF Init, Idle, Remembers, Unregistered, Registered, Checked, Loaded,
       Dropped, Holding, Bared
  <2> QED
    BY <2>1, <2>2 DEF SingleInv
<1>2. SingleInv /\ TypeInv' /\ [Next]_vars => SingleInv'
  <2>1. CASE Next
    BY <2>1, SingleStep DEF SingleInv
  <2>2. CASE UNCHANGED vars
    BY <2>2 DEF SingleInv, vars, Told, InManifest, Remembers, Bundle,
       WorkGone, LinkGone
  <2> QED
    BY <2>1, <2>2
<1> QED
  BY <1>1, <1>2, RegistryTyped, PTL DEF Spec

(* Where commands do not overlap, an accepted cycle is described, nothing  *)
(* stands in the way of a spawn, and a tombstone means that all is gone,   *)
(* wherever commands die and whatever docker refuses (but for what it then *)
(* leaves behind).                                                         *)
THEOREM RegistryTellsTrue ==
    ASSUME Single
    PROVE  Spec => []RegistryTells
<1>1. SingleInv => RegistryTells
  BY DEF SingleInv, Told, InManifest, RegistryTells, Destroyed, WorkGone,
     LinkGone
<1> QED
  BY <1>1, SingleInvariant, PTL

(* Where commands do not overlap, rs-worker implements the ledger: no      *)
(* accepted cycle is lost, reordered or filed twice, and no tombstone is   *)
(* lifted, wherever commands die.                                          *)
THEOREM RegistryIsLedger ==
    ASSUME Single
    PROVE  Spec => ImplementsLedger
<1>1. Init => Ledger!LedgerInit
  BY DEF Init, Ledger!LedgerInit, Ledger!NoEntry, NoReg
<1>2. SingleInv /\ [Next]_vars => [Ledger!LedgerNext]_reg
  <2>1. CASE Next
    BY <2>1, SingleStep DEF LedgerStep
  <2>2. CASE UNCHANGED vars
    BY <2>2 DEF vars
  <2> QED
    BY <2>1, <2>2
<1> QED
  BY <1>1, <1>2, SingleInvariant, PTL
  DEF Spec, ImplementsLedger, Ledger!LedgerSpec

-----------------------------------------------------------------------------
(* The lifecycle                                                           *)

(* What has to be known of the variables' types: which fields there are.   *)
Shape ==
    /\ DOMAIN con = Projects /\ DOMAIN ws = Projects
    /\ DOMAIN ghost = Projects
    /\ \A p \in Projects :
          /\ DOMAIN con[p] = DOMAIN NoCtr
          /\ DOMAIN ws[p] = DOMAIN NoWs
          /\ DOMAIN ghost[p] = {"given", "port", "choice", "done",
                                "strayed", "left"}
    /\ DOMAIN job = DOMAIN NoJob
    /\ DOMAIN job.text = DOMAIN NoText /\ DOMAIN job.old = DOMAIN NoOld
    /\ job.pc = "idle" <=> P \notin Projects

(* What the removal of a project's tree and of its container change.       *)
TreeGone ==
    /\ P \in Projects /\ job.pc = "de_tree"
    /\ job' = [job EXCEPT !.pc = "de_net"] /\ UNCHANGED <<con, net>>
    /\ DOMAIN ws' = Projects /\ DOMAIN ghost' = Projects
    /\ \A q \in Projects \ {P} : ws'[q] = ws[q] /\ ghost'[q] = ghost[q]
    /\ DOMAIN ws'[P] = DOMAIN NoWs
    /\ ws'[P].stash \subseteq ws[P].stash
    /\ ws'[P].over \in {ws[P].over, "none"}
    /\ \/ /\ ws'[P].mark = ws[P].mark /\ ws'[P].port = ws[P].port
          /\ ws'[P].model = ws[P].model /\ ws'[P].agent = ws[P].agent
       \/ /\ ws'[P].mark = "none" /\ ws'[P].port = NoPort
          /\ ws'[P].model = 0 /\ ws'[P].agent = FALSE
    /\ ws'[P] = NoWs \/ "tree" \in ghost'[P].left
    /\ DOMAIN ghost'[P] = DOMAIN ghost[P]
    /\ \A f \in {"given", "port", "choice", "done", "strayed"} :
          ghost'[P][f] = ghost[P][f]
    /\ \A what \in {"container", "network"} :
          what \in ghost'[P].left <=> what \in ghost[P].left

LEMMA TreeIs ==
    ASSUME Shape, DestroyTree
    PROVE  TreeGone
<1> USE DEF Shape, P, NoJob, Go, TreeGone
<1>1. /\ P \in Projects /\ job.pc = "de_tree"
      /\ job' = [job EXCEPT !.pc = "de_net"] /\ UNCHANGED <<con, net>>
  BY DEF DestroyTree
<1>2. CASE ws' = [ws EXCEPT ![P] = NoWs] /\ Removes("tree")
  BY <1>1, <1>2 DEF Removes, NoWs
<1>3. ASSUME NEW marked \in BOOLEAN, NEW over \in BOOLEAN,
             NEW stash \in SUBSET ws[P].stash, Leaves("tree"),
             ws' = [ws EXCEPT ![P] = [Remains(ws[P], marked, over) EXCEPT
                                        !.stash = stash]]
      PROVE  /\ DOMAIN ws' = Projects
             /\ \A q \in Projects \ {P} : ws'[q] = ws[q]
             /\ DOMAIN ws'[P] = DOMAIN NoWs
             /\ ws'[P].stash \subseteq ws[P].stash
             /\ ws'[P].over \in {ws[P].over, "none"}
             /\ \/ /\ ws'[P].mark = ws[P].mark /\ ws'[P].port = ws[P].port
                   /\ ws'[P].model = ws[P].model
                   /\ ws'[P].agent = ws[P].agent
                \/ /\ ws'[P].mark = "none" /\ ws'[P].port = NoPort
                   /\ ws'[P].model = 0 /\ ws'[P].agent = FALSE
  <2>1. CASE marked
    BY <1>1, <1>3, <2>1 DEF Remains, NoWs
  <2>2. CASE ~marked
    BY <1>1, <1>3, <2>2 DEF Remains, NoWs
  <2> QED
    BY <2>1, <2>2
<1>4. CASE Leaves("tree") /\ \E marked, over \in BOOLEAN,
                               stash \in SUBSET ws[P].stash :
              ws' = [ws EXCEPT ![P] = [Remains(ws[P], marked, over) EXCEPT
                                         !.stash = stash]]
  <2>1. /\ DOMAIN ghost' = Projects
        /\ \A q \in Projects \ {P} : ghost'[q] = ghost[q]
        /\ "tree" \in ghost'[P].left /\ DOMAIN ghost'[P] = DOMAIN ghost[P]
        /\ \A f \in {"given", "port", "choice", "done", "strayed"} :
              ghost'[P][f] = ghost[P][f]
        /\ \A what \in {"container", "network"} :
              what \in ghost'[P].left <=> what \in ghost[P].left
    BY <1>1, <1>4 DEF Leaves
  <2> QED
    BY <1>1, <1>3, <1>4, <2>1
<1>5. (ws' = [ws EXCEPT ![P] = NoWs] /\ Removes("tree"))
      \/ (Leaves("tree") /\ \E marked, over \in BOOLEAN,
                                stash \in SUBSET ws[P].stash :
              ws' = [ws EXCEPT ![P] = [Remains(ws[P], marked, over) EXCEPT
                                         !.stash = stash]])
  BY DEF DestroyTree
<1> QED
  BY ONLY <1>2, <1>4, <1>5

ContainerGone ==
    /\ P \in Projects /\ job.pc = "de_rm"
    /\ job' = [job EXCEPT !.pc = "de_tree"] /\ UNCHANGED <<ws, net>>
    /\ DOMAIN con' = Projects /\ DOMAIN ghost' = Projects
    /\ \A q \in Projects \ {P} : con'[q] = con[q] /\ ghost'[q] = ghost[q]
    /\ \/ con'[P] = NoCtr
       \/ con'[P] = con[P] /\ "container" \in ghost'[P].left
    /\ DOMAIN ghost'[P] = DOMAIN ghost[P]
    /\ \A f \in {"given", "port", "choice", "done", "strayed"} :
          ghost'[P][f] = ghost[P][f]
    /\ \A what \in {"tree", "network"} :
          what \in ghost'[P].left <=> what \in ghost[P].left

LEMMA ContainerIs ==
    ASSUME Shape, DestroyContainer
    PROVE  ContainerGone
BY DEF Shape, P, NoJob, Go, DestroyContainer, Removes, Leaves, ContainerGone

(* What a boot and the stash of an item leave as it was.                   *)
OnlyCreds(p) ==
    /\ DOMAIN con' = Projects /\ DOMAIN ws' = Projects
    /\ DOMAIN ghost' = Projects /\ net' = net
    /\ \A q \in Projects \ {p} :
          con'[q] = con[q] /\ ws'[q] = ws[q] /\ ghost'[q] = ghost[q]
    /\ con'[p].state = con[p].state /\ con'[p].dind = con[p].dind
    /\ con'[p].bind = con[p].bind /\ con'[p].label = con[p].label
    /\ con'[p].env = con[p].env /\ con'[p].wired = con[p].wired
    /\ con'[p].editor = con[p].editor /\ con'[p].route = con[p].route
    /\ ws'[p].mark = ws[p].mark /\ ws'[p].port = ws[p].port
    /\ ws'[p].model = ws[p].model /\ ws'[p].agent = ws[p].agent
    /\ ws'[p].over = ws[p].over
    /\ ghost'[p].given = ghost[p].given /\ ghost'[p].port = ghost[p].port
    /\ ghost'[p].choice = ghost[p].choice /\ ghost'[p].done = ghost[p].done
    /\ ghost'[p].left = ghost[p].left

LEMMA BootIs ==
    ASSUME Shape, NEW p \in Projects, Boot(p)
    PROVE  /\ OnlyCreds(p) /\ Up(p) /\ job' = job
           /\ ws[p] = NoWs => ws'[p] = NoWs
<1>1. Up(p) /\ job' = job
  BY DEF Boot, Booted
<1>2. OnlyCreds(p)
  BY DEF Shape, Boot, OnlyCreds, NoCtr, NoWs
<1>3. ASSUME ws[p] = NoWs PROVE ws'[p] = NoWs
  <2>1. PICK back : ws' = [ws EXCEPT ![p].stash = @ \ back]
    BY DEF Boot
  <2>2. ws'[p] = [NoWs EXCEPT !.stash = {} \ back]
    BY <1>3, <2>1 DEF Shape, NoWs
  <2>3. {} \ back = {}
    OBVIOUS
  <2>4. [NoWs EXCEPT !.stash = {}] = NoWs
    <3>1. [NoWs EXCEPT !.stash = {}] = [NoWs EXCEPT !.stash = NoWs.stash]
      BY DEF NoWs
    <3>2. NoWs = [f \in DOMAIN NoWs |-> NoWs[f]]
      BY DEF NoWs
    <3>3. ASSUME NEW w, w = [f \in DOMAIN w |-> w[f]]
          PROVE  [w EXCEPT !.stash = w.stash] = w
      BY <3>3
    <3> QED
      BY ONLY <3>1, <3>2, <3>3
  <2> QED
    BY ONLY <2>2, <2>3, <2>4
<1> QED
  BY <1>1, <1>2, <1>3

LEMMA StashIs ==
    ASSUME Shape, P \in Projects, NEW item, Stash(item), UNCHANGED net
    PROVE  OnlyCreds(P)
BY DEF Shape, Stash, OnlyCreds, NoCtr, NoWs

(* The port is one that the project owns: by its container, its marker or  *)
(* the command that is at work on it.                                      *)
Owns(p, port) ==
    \/ con[p].bind = port \/ ws[p].port = port
    \/ P = p /\ (job.text.port = port \/ job.old.bind = port)

OwnedOnce ==
    \A p, q \in Projects : \A port \in Ports :
        Owns(p, port) /\ Owns(q, port) => p = q

(* The marker, torn or not, names no other port than the container's.      *)
MarkerAgrees(p) == ws[p].port \in {NoPort, ghost[p].port}

Bound(p) ==
    /\ Exists(p) => /\ con[p].bind \in Ports /\ con[p].bind = ghost[p].port
                    /\ MarkerAgrees(p)
    /\ ~Exists(p) => con[p].bind = NoPort
    /\ ws[p].mark # "ok" => ws[p].port = NoPort

(* What a command knows of the port at a step.                             *)
JobAt(pcs) == job.pc \in pcs

JobKnows ==
    /\ JobAt({"cr_port", "cr_mark", "cr_fill", "cr_net", "cr_make",
              "re_make"}) => ~Exists(P)
    /\ JobAt({"cr_start", "cr_route", "cr_deploy", "cr_auth", "re_start",
              "sd_start", "up_model", "up_mfill", "up_agent", "up_afill",
              "re_login", "re_key", "re_stop", "re_rm"}) => Exists(P)
    /\ JobAt({"cr_mark", "cr_fill"}) => job.text.port \in Ports
    /\ JobAt({"cr_net", "cr_make"}) =>
          ws[P].mark = "ok" /\ ws[P].port \in Ports
    /\ JobAt({"up_mfill", "up_afill"}) =>
          job.text.port \in {NoPort, ghost[P].port}
    /\ JobAt({"re_rm", "re_make"}) =>
          job.old.bind \in Ports /\ job.old.bind = ghost[P].port
    /\ JobAt({"re_make"}) => MarkerAgrees(P)

PortInv == Shape /\ OwnedOnce /\ JobKnows /\ \A p \in Projects : Bound(p)

-----------------------------------------------------------------------------
(* The invariant holds in every state.                                     *)
THEOREM PortInvariant == ProjectSpec => []PortInv
<1> USE ProjectAssumption DEF PortInv
<1>1. ProjectInit => PortInv
  BY SMTT(30)
     DEF ProjectInit, Shape, OwnedOnce, Owns, JobKnows, JobAt, Bound, Exists,
         NoCtr, NoWs, NoJob, NoText, NoOld, P
<1>2. PortInv /\ [ProjectNext]_projectVars => PortInv'
  <2> SUFFICES ASSUME PortInv, [ProjectNext]_projectVars PROVE PortInv'
    OBVIOUS
  <2> USE DEF P, Shape, OwnedOnce, Owns, JobKnows, JobAt, Bound, Exists,
              MarkerAgrees, NoCtr, NoWs, NoJob, NoText, NoOld, Go
  <2>1. ASSUME CommandDies PROVE PortInv'
    BY <2>1 DEF CommandDies
  <2>2. ASSUME NEW p \in Projects, CreateBegin(p) PROVE PortInv'
    BY <2>2 DEF CreateBegin, MayBegin, Locals, Forget
  <2>3. ASSUME NEW p \in Projects, DestroyBegin(p) PROVE PortInv'
    BY <2>3 DEF DestroyBegin, MayBegin, Locals
  <2>4. ASSUME NEW p \in Projects, Stop(p) PROVE PortInv'
    BY <2>4 DEF Stop, MayBegin, Stopped
  <2>5. ASSUME NEW p \in Projects, StartBegin(p) PROVE PortInv'
    BY <2>5, SMTT(30) DEF StartBegin, MayBegin, Locals, Forget
  <2>6. ASSUME NEW p \in Projects, UpdateBegin(p) PROVE PortInv'
    BY <2>6 DEF UpdateBegin, MayBegin, Locals, Forget, Way
  <2>7. ASSUME NEW p \in Projects, Boot(p) PROVE PortInv'
    BY <2>7 DEF Boot
  <2>8. ASSUME NEW p \in Projects, Login(p) PROVE PortInv'
    BY <2>8 DEF Login, Up
  <2>9. ASSUME AllocatePort PROVE PortInv'
    BY <2>9 DEF AllocatePort, Taken, Recorded, MarkerPort
  <2>10. ASSUME CreateMarker PROVE PortInv'
    BY <2>10 DEF CreateMarker, OpenMarker, Marker
  <2>11. ASSUME CreateNetwork PROVE PortInv'
    BY <2>11 DEF CreateNetwork
  <2>12. ASSUME CreateContainer PROVE PortInv'
    BY <2>12, SMTT(30) DEF CreateContainer, MarkerPort
  <2>13. ASSUME FillMarker("cr_fill", [job EXCEPT !.pc = "cr_net"])
         PROVE PortInv'
    BY <2>13, SMTT(30) DEF FillMarker, Marker
  <2>14. ASSUME FillMarker("up_mfill", Way(job)) PROVE PortInv'
    BY <2>14, SMTT(30) DEF FillMarker, Marker, Way
  <2>15. ASSUME FillMarker("up_afill", Way([job EXCEPT !.adds = FALSE]))
         PROVE PortInv'
    BY <2>15 DEF FillMarker, Marker, Way
  <2>16. ASSUME StartContainer("cr_start", "cr_route") PROVE PortInv'
    BY <2>16 DEF StartContainer, Started
  <2>17. ASSUME StartContainer("re_start", "re_route") PROVE PortInv'
    BY <2>17 DEF StartContainer, Started
  <2>18. ASSUME StartContainer("sd_start", "sd_route") PROVE PortInv'
    BY <2>18 DEF StartContainer, Started
  <2>19. ASSUME InjectRoute("cr_route", "cr_deploy")
                \/ InjectRoute("re_route", "re_deploy")
                \/ InjectRoute("sd_route", "done")
         PROVE PortInv'
    BY <2>19 DEF InjectRoute
  <2>20. ASSUME Deploy("cr_deploy", "cr_auth", job.agent, job.svc = "on")
         PROVE PortInv'
    BY <2>20 DEF Deploy
  <2>21. ASSUME Deploy("re_deploy", "re_clear", MarkerAgent(P), con[P].label)
         PROVE PortInv'
    BY <2>21 DEF Deploy
  <2>22. ASSUME CreateAuth PROVE PortInv'
    BY <2>22 DEF CreateAuth
  <2>23. ASSUME CreateReady PROVE PortInv'
    BY <2>23 DEF CreateReady
  <2>24. ASSUME DestroyContainer PROVE PortInv'
    BY <2>24 DEF DestroyContainer, Removes, Leaves
  <2>25. ASSUME DestroyTree PROVE PortInv'
    <3>0. TreeGone
      BY ONLY PortInv, <2>25, TreeIs DEF PortInv
    <3> USE <3>0 DEF TreeGone
    <3>1. Shape'
      OBVIOUS
    <3>2. OwnedOnce'
      OBVIOUS
    <3>3. JobKnows'
      OBVIOUS
    <3>4. ASSUME NEW p \in Projects PROVE Bound(p)'
      OBVIOUS
    <3> QED
      BY ONLY <3>1, <3>2, <3>3, <3>4 DEF PortInv
  <2>26. ASSUME DestroyNetwork PROVE PortInv'
    BY <2>26, SMTT(30) DEF DestroyNetwork
  <2>27. ASSUME UpdateModels PROVE PortInv'
    BY <2>27, SMTT(30) DEF UpdateModels, OpenMarker, Marker, MarkerPort
  <2>28. ASSUME UpdateAgents PROVE PortInv'
    BY <2>28 DEF UpdateAgents, OpenMarker, Marker, MarkerPort
  <2>29. ASSUME LiveEditor \/ WriteOverride \/ LiveStage PROVE PortInv'
    BY <2>29 DEF LiveEditor, WriteOverride, LiveStage
  <2>30. ASSUME StashLogin \/ StashKey PROVE PortInv'
    BY <2>30 DEF StashLogin, StashKey, Stash
  <2>31. ASSUME StopOld PROVE PortInv'
    BY <2>31 DEF StopOld, Stopped
  <2>32. ASSUME RemoveOld PROVE PortInv'
    BY <2>32 DEF RemoveOld
  <2>33. ASSUME MakeNew PROVE PortInv'
    BY <2>33 DEF MakeNew, Recreated, RecreatedPlain, PortAgain, MarkerPort
  <2>34. ASSUME ClearOverride PROVE PortInv'
    BY <2>34 DEF ClearOverride
  <2>35. ASSUME CommandDone PROVE PortInv'
    BY <2>35 DEF CommandDone, Finish
  <2>36. CASE UNCHANGED projectVars
    BY <2>36 DEF projectVars
  <2> QED
    BY ZenonT(60), <2>1, <2>2, <2>3, <2>4, <2>5, <2>6, <2>7, <2>8, <2>9,
       <2>10, <2>11, <2>12, <2>13, <2>14, <2>15, <2>16, <2>17, <2>18, <2>19,
       <2>20, <2>21, <2>22, <2>23, <2>24, <2>25, <2>26, <2>27, <2>28, <2>29,
       <2>30, <2>31, <2>32, <2>33, <2>34, <2>35, <2>36
       DEF ProjectNext, StartPlain
<1> QED
  BY <1>1, <1>2, PTL DEF ProjectSpec

(* A port is owned until its project is destroyed: no other project has it *)
(* on its container or in its marker, and every container made for the     *)
(* project again is bound to it.                                           *)
THEOREM PortsStayOwned == ProjectSpec => []PortsOwned
<1>1. PortInv => PortsOwned
  BY ProjectAssumption, SMTT(30)
     DEF PortInv, PortsOwned, Bound, OwnedOnce, Owns
<1> QED
  BY <1>1, PortInvariant, PTL

-----------------------------------------------------------------------------
(* A login or a key is on its way from one container to the next: unless   *)
(* it went astray, it is in the stash once the step that takes it there    *)
(* has been made.  A stopped container boots no more.                      *)
Kept(p) == ghost[p].given \ ghost[p].strayed

CredsInv ==
    /\ \A p \in Projects : ghost[p].given \subseteq Items
    /\ \A p \in Projects : ~Exists(p) => con[p].home = {}
    /\ JobAt({"de_rm", "de_tree", "de_net"}) => ghost[P].given = {}
    /\ JobAt({"re_key", "re_stop", "re_rm"}) /\ con[P].dind
          => ("login" \in Kept(P) => "login" \in ws[P].stash)
    /\ JobAt({"re_stop", "re_rm"})
          => ("key" \in Kept(P) => "key" \in ws[P].stash)
    /\ JobAt({"re_rm"}) => job.old.dind = con[P].dind /\ ~Up(P)

(* Every step of a command, a boot and a researcher keeps it.              *)
LEMMA CredsStep ==
    ASSUME PortInv, CredsInv, CredsKept, [ProjectNext]_projectVars
    PROVE  CredsInv' /\ CredsKept'
<1> USE ProjectAssumption
    DEF PortInv, Shape, P, JobKnows, JobAt, Exists, Up, Booted, Items,
        CredsInv, CredsKept, Kept, NoCtr, NoWs, NoJob, NoText, NoOld, Go
<1>1. ASSUME CommandDies PROVE CredsInv' /\ CredsKept'
  BY <1>1 DEF CommandDies
<1>2. ASSUME NEW p \in Projects, CreateBegin(p) PROVE CredsInv' /\ CredsKept'
  BY <1>2 DEF CreateBegin, MayBegin, Locals, Forget
<1>3. ASSUME NEW p \in Projects, DestroyBegin(p) PROVE CredsInv' /\ CredsKept'
  BY <1>3 DEF DestroyBegin, MayBegin, Locals
<1>4. ASSUME NEW p \in Projects, Stop(p) PROVE CredsInv' /\ CredsKept'
  BY <1>4 DEF Stop, MayBegin, Stopped
<1>5. ASSUME NEW p \in Projects, StartBegin(p) PROVE CredsInv' /\ CredsKept'
  BY <1>5 DEF StartBegin, MayBegin, Locals, Forget
<1>6. ASSUME NEW p \in Projects, UpdateBegin(p) PROVE CredsInv' /\ CredsKept'
  BY <1>6 DEF UpdateBegin, MayBegin, Locals, Forget, Way
<1>7. ASSUME NEW p \in Projects, Boot(p) PROVE CredsInv' /\ CredsKept'
  BY <1>7 DEF Boot
<1>8. ASSUME NEW p \in Projects, Login(p) PROVE CredsInv' /\ CredsKept'
  BY <1>8 DEF Login
<1>9. ASSUME AllocatePort PROVE CredsInv' /\ CredsKept'
  BY <1>9 DEF AllocatePort, Taken, Recorded, MarkerPort
<1>10. ASSUME CreateMarker PROVE CredsInv' /\ CredsKept'
  BY <1>10 DEF CreateMarker, OpenMarker, Marker
<1>11. ASSUME CreateNetwork PROVE CredsInv' /\ CredsKept'
  BY <1>11 DEF CreateNetwork
<1>12. ASSUME CreateContainer PROVE CredsInv' /\ CredsKept'
  BY <1>12 DEF CreateContainer, MarkerPort
<1>13. ASSUME FillMarker("cr_fill", [job EXCEPT !.pc = "cr_net"])
       PROVE CredsInv' /\ CredsKept'
  BY <1>13 DEF FillMarker, Marker
<1>14. ASSUME FillMarker("up_mfill", Way(job)) PROVE CredsInv' /\ CredsKept'
  BY <1>14 DEF FillMarker, Marker, Way
<1>15. ASSUME FillMarker("up_afill", Way([job EXCEPT !.adds = FALSE]))
       PROVE CredsInv' /\ CredsKept'
  BY <1>15 DEF FillMarker, Marker, Way
<1>16. ASSUME StartContainer("cr_start", "cr_route")
       PROVE  CredsInv' /\ CredsKept'
  BY <1>16 DEF StartContainer, Started
<1>17. ASSUME StartContainer("re_start", "re_route")
       PROVE  CredsInv' /\ CredsKept'
  BY <1>17 DEF StartContainer, Started
<1>18. ASSUME StartContainer("sd_start", "sd_route")
       PROVE  CredsInv' /\ CredsKept'
  BY <1>18 DEF StartContainer, Started
<1>19. ASSUME InjectRoute("cr_route", "cr_deploy")
              \/ InjectRoute("re_route", "re_deploy")
              \/ InjectRoute("sd_route", "done")
       PROVE CredsInv' /\ CredsKept'
  BY <1>19 DEF InjectRoute
<1>20. ASSUME Deploy("cr_deploy", "cr_auth", job.agent, job.svc = "on")
       PROVE CredsInv' /\ CredsKept'
  BY <1>20 DEF Deploy
<1>21. ASSUME Deploy("re_deploy", "re_clear", MarkerAgent(P), con[P].label)
       PROVE CredsInv' /\ CredsKept'
  BY <1>21 DEF Deploy
<1>22. ASSUME CreateAuth PROVE CredsInv' /\ CredsKept'
  <2>1. PICK items \in {{}, {"key"}} :
           /\ con' = [con EXCEPT ![P].home = @ \cup items]
           /\ ghost' = [ghost EXCEPT ![P].given = @ \cup items]
    BY <1>22 DEF CreateAuth
  <2>2. P \in Projects /\ UNCHANGED ws
        /\ job' = [job EXCEPT !.pc = "cr_ready"]
    BY <1>22 DEF CreateAuth
  <2>3. Exists(P)
    BY <1>22 DEF CreateAuth
  <2> QED
    BY <2>1, <2>2, <2>3
<1>23. ASSUME CreateReady PROVE CredsInv' /\ CredsKept'
  BY <1>23 DEF CreateReady
<1>24. ASSUME DestroyContainer PROVE CredsInv' /\ CredsKept'
  BY <1>24 DEF DestroyContainer, Removes, Leaves
<1>25. ASSUME DestroyTree PROVE CredsInv' /\ CredsKept'
  <2>0. TreeGone
    BY ONLY PortInv, <1>25, TreeIs DEF PortInv
  <2>1. CredsKept'
    BY <2>0 DEF TreeGone
  <2>2. CredsInv'
    BY <2>0 DEF TreeGone
  <2> QED
    BY ONLY <2>1, <2>2
<1>26. ASSUME DestroyNetwork PROVE CredsInv' /\ CredsKept'
  BY <1>26 DEF DestroyNetwork
<1>27. ASSUME UpdateModels PROVE CredsInv' /\ CredsKept'
  BY <1>27 DEF UpdateModels, OpenMarker, Marker, MarkerPort
<1>28. ASSUME UpdateAgents PROVE CredsInv' /\ CredsKept'
  BY <1>28 DEF UpdateAgents, OpenMarker, Marker, MarkerPort
<1>29. ASSUME LiveEditor \/ WriteOverride \/ LiveStage
       PROVE  CredsInv' /\ CredsKept'
  BY <1>29 DEF LiveEditor, WriteOverride, LiveStage
<1>30. ASSUME NEW item \in Items, NEW to, Stash(item),
              job' = [job EXCEPT !.pc = to],
              \/ job.pc = "re_login" /\ item = "login" /\ to = "re_key"
              \/ job.pc = "re_key" /\ item = "key" /\ to = "re_stop"
       PROVE  CredsInv' /\ CredsKept'
  <2> DEFINE taken == IF item \in ws[P].stash THEN {}
                      ELSE con[P].home \cap {item}
  <2>0. P \in Projects /\ (item \in Kept(P) => item \in ws[P].stash \cup taken)
    BY <1>30
  <2>1. CASE /\ ws' = [ws EXCEPT ![P].stash = @ \cup taken]
             /\ con' = [con EXCEPT ![P].home = IF Up(P) THEN @ \ taken ELSE @]
             /\ ghost' = [ghost EXCEPT ![P].strayed = @ \ taken]
    <3>1. /\ \A p \in Projects : Exists(p) <=> Exists(p)'
          /\ con'[P].dind = con[P].dind
          /\ item \in Kept(P)' => item \in ws'[P].stash
          /\ ws[P].stash \subseteq ws'[P].stash
          /\ Kept(P)' \subseteq Kept(P) \cup ws'[P].stash
          /\ \A p \in Projects \ {P} : Kept(p)' = Kept(p)
          /\ \A p \in Projects : ghost'[p].given = ghost[p].given
          /\ \A p \in Projects : con[p].home \cup ws[p].stash
                                    \subseteq con'[p].home \cup ws'[p].stash
          /\ \A p \in Projects : con'[p].home \subseteq con[p].home
      BY <1>30, <2>0, <2>1
    <3> QED
      BY <1>30, <2>0, <3>1
  <2>2. CASE /\ taken # {}
             /\ \E half \in {{}, taken} :
                   ws' = [ws EXCEPT ![P].stash = @ \cup half]
             /\ ghost' = [ghost EXCEPT ![P].strayed = @ \cup taken]
             /\ UNCHANGED con
    <3>1. /\ item \notin Kept(P)' /\ Kept(P)' \subseteq Kept(P)
          /\ ws[P].stash \subseteq ws'[P].stash
          /\ \A p \in Projects \ {P} : Kept(p)' = Kept(p)
          /\ \A p \in Projects : ghost'[p].given = ghost[p].given
          /\ \A p \in Projects : ws[p].stash \subseteq ws'[p].stash
      BY <1>30, <2>0, <2>2
    <3> QED
      BY <1>30, <2>0, <2>2, <3>1
  <2> QED
    BY <1>30, <2>1, <2>2 DEF Stash
<1>31. ASSUME StopOld PROVE CredsInv' /\ CredsKept'
  BY <1>31 DEF StopOld, Stopped
<1>32. ASSUME RemoveOld PROVE CredsInv' /\ CredsKept'
  BY <1>32 DEF RemoveOld
<1>33. ASSUME MakeNew PROVE CredsInv' /\ CredsKept'
  BY <1>33 DEF MakeNew, Recreated, RecreatedPlain, PortAgain, MarkerPort
<1>34. ASSUME ClearOverride PROVE CredsInv' /\ CredsKept'
  BY <1>34 DEF ClearOverride
<1>35. ASSUME CommandDone PROVE CredsInv' /\ CredsKept'
  BY <1>35 DEF CommandDone, Finish
<1>36. CASE UNCHANGED projectVars
  BY <1>36 DEF projectVars
<1> QED
  BY ZenonT(60), <1>1, <1>2, <1>3, <1>4, <1>5, <1>6, <1>7, <1>8, <1>9, <1>10,
     <1>11, <1>12, <1>13, <1>14, <1>15, <1>16, <1>17, <1>18, <1>19, <1>20,
     <1>21, <1>22, <1>23, <1>24, <1>25, <1>26, <1>27, <1>28, <1>29, <1>30,
     <1>31, <1>32, <1>33, <1>34, <1>35, <1>36
     DEF ProjectNext, StartPlain, StashLogin, StashKey

(* Logins and keys are kept over every recreate, whichever command died    *)
(* half-way and however slow the boots are, until somebody destroys the    *)
(* project: none is lost but by a copy that failed and nobody looked at,   *)
(* or by a boot that put it back behind the step that stashes it.          *)
THEOREM CredsStayKept == ProjectSpec => []CredsKept
<1>1. ProjectInit => CredsInv /\ CredsKept
  BY DEF ProjectInit, CredsInv, CredsKept, JobAt, NoCtr, NoWs, NoJob, Exists
<1>2. PortInv /\ CredsInv /\ CredsKept /\ [ProjectNext]_projectVars
         => CredsInv' /\ CredsKept'
  BY CredsStep
<1> QED
  BY <1>1, <1>2, PortInvariant, PTL DEF ProjectSpec

-----------------------------------------------------------------------------
(* What a command has done of what it is to report, at each of its steps,  *)
(* and what lasts of what earlier ones reported.                           *)
ProjectKinds(p) ==
    /\ ghost[p].done \in {"none", "up", "gone"}
    /\ ghost[p].choice \in {"open", "on", "off"}
    /\ ws[p].over \in {"none", "on", "off"}
    /\ ws[p].agent \in BOOLEAN
    /\ con[p].dind \in BOOLEAN /\ con[p].label \in BOOLEAN
    /\ con[p].wired \in BOOLEAN /\ con[p].editor \in BOOLEAN

JobKinds ==
    /\ job.svc \in {"none", "on", "off"}
    /\ job.live \in BOOLEAN /\ job.agent \in BOOLEAN
    /\ job.adds \in BOOLEAN
    /\ job.text.agent \in BOOLEAN /\ job.old.dind \in BOOLEAN
    /\ job.old.label \in BOOLEAN /\ job.old.wired \in BOOLEAN

(* What the next container of the project will have of the editor.         *)
Labelled(p) == IF con[p].dind THEN Overlaid(con[p].label, ws[p].over)
               ELSE con[p].label

(* What the command is to make of the editor: what it was asked for, or    *)
(* what stands since the last time.                                        *)
Sought == IF job.svc # "none" THEN job.svc ELSE ghost[P].choice

(* A container that a destroy could not remove has no marker to go by.     *)
Remnant(p)  == "container" \in ghost[p].left
MarkedAs(p) == Remnant(p) \/ AsMarked(p)

(* What DoneMeansDone asks of a project that came up.                      *)
Runs(p) ==
    /\ con[p].route /\ MarkedAs(p)
    /\ ghost[p].choice # "open" => con[p].editor = (ghost[p].choice = "on")

(* What was reported lasts: a destroyed project has left nothing, and one  *)
(* that is up and left in peace runs as it is to.                          *)
GoneLasts(p) ==
    ghost[p].done = "gone"
        => /\ con[p] = NoCtr \/ Remnant(p)
           /\ ws[p] = NoWs \/ "tree" \in ghost[p].left
           /\ p \notin net \/ "network" \in ghost[p].left
           /\ P # p

UpLasts(p) == ghost[p].done = "up" /\ Up(p) /\ P # p => Runs(p)

(* The next container starts with what was last asked for, and a docker    *)
(* project's agents and model never part from its marker.                  *)
ChoiceLasts(p) ==
    Exists(p) /\ ghost[p].choice # "open"
        => Labelled(p) = (ghost[p].choice = "on")

PlainLasts(p) == Exists(p) /\ ~con[p].dind => MarkedAs(p)

Lasts(p) == /\ ProjectKinds(p) /\ GoneLasts(p) /\ UpLasts(p)
            /\ ChoiceLasts(p) /\ PlainLasts(p)

LiveSteps == {"up_model", "up_mfill", "up_agent", "up_afill", "up_live",
              "up_over", "up_stage", "done"}

(* Only a command in the live container leaves standing what was done.     *)
Promised ==
    /\ job.pc # "idle" =>
          /\ job.svc # "none" => ghost[P].choice = "open"
          /\ ~job.live => ghost[P].done = "none"
    /\ job.live => job.pc \in LiveSteps /\ Exists(P) /\ con[P].dind
    /\ JobAt({"up_live", "up_over", "up_stage"}) => job.live
    /\ JobAt({"up_live", "up_over"}) => job.svc # "none"
    /\ JobAt({"up_model", "up_mfill", "up_agent", "up_afill"}) => con[P].dind

(* In the live container every step leaves what was reported as it was,    *)
(* but for the marker while it is torn.                                    *)
LiveKnows ==
    job.live =>
        /\ ghost[P].done = "up" /\ Up(P) =>
             /\ con[P].route
             /\ \/ Remnant(P)
                \/ con[P].env \in {0, IF JobAt({"up_mfill", "up_afill"})
                                      THEN job.text.model ELSE MarkerModel(P)}
             /\ JobAt({"up_model", "up_mfill", "up_live", "up_over", "done"})
                  => \/ Remnant(P)
                     \/ con[P].wired = IF JobAt({"up_mfill"})
                                       THEN job.text.agent ELSE MarkerAgent(P)
             /\ ghost[P].choice # "open" =>
                  con[P].editor = (ghost[P].choice = "on")
        /\ JobAt({"up_over", "done"}) /\ job.svc # "none" =>
              con[P].editor = (job.svc = "on")
        /\ JobAt({"done"}) /\ job.svc # "none" => ws[P].over = job.svc
        /\ JobAt({"up_model", "up_mfill", "up_stage", "up_agent", "up_afill"})
              => job.svc = "none"
        /\ JobAt({"up_model"}) => job.models = {"worker"}
        /\ JobAt({"up_model", "up_mfill"}) => ~job.adds
        /\ JobAt({"up_agent", "up_afill"}) => job.agent

CreateSteps == {"cr_start", "cr_route", "cr_deploy", "cr_auth", "cr_ready"}

(* What a create has put into the marker and then into the container.      *)
CreateKnows ==
    /\ JobAt(CreateSteps \cup {"cr_port", "cr_mark", "cr_fill", "cr_net",
                               "cr_make"}) => job.svc # "none"
    /\ JobAt({"cr_fill"}) => job.text.model = 1 /\ job.text.agent = job.agent
    /\ JobAt(CreateSteps \cup {"cr_net", "cr_make"}) =>
          MarkerModel(P) = 1 /\ MarkerAgent(P) = job.agent
    /\ JobAt(CreateSteps) =>
          con[P].env = 1 /\ con[P].label = (job.svc = "on")

StartSteps == {"re_start", "re_route", "re_deploy", "re_clear",
               "sd_start", "sd_route"}

(* What a recreate reads off the old container and gives to the new one.   *)
StartKnows ==
    /\ JobAt({"re_login", "re_key", "re_stop", "re_rm"}) =>
          Exists(P) /\ (job.svc = "none" => con[P].dind)
    /\ JobAt({"re_rm"}) =>
          /\ job.old.dind = con[P].dind /\ job.old.label = con[P].label
          /\ job.old.wired = con[P].wired
    /\ JobAt({"re_make"}) =>
          /\ Sought # "open" => Flag = (Sought = "on")
          /\ ~job.old.dind => Remnant(P) \/ job.old.wired = MarkerAgent(P)
    /\ JobAt(StartSteps) =>
          /\ Sought # "open" => con[P].label = (Sought = "on")
          /\ Remnant(P) \/ con[P].env \in {0, MarkerModel(P)}
    /\ JobAt({"sd_start", "sd_route"}) => ~con[P].dind /\ job.svc = "none"

(* The container that was started, up to the report.                       *)
Deployed ==
    /\ JobAt((CreateSteps \cup StartSteps)
             \ {"cr_start", "re_start", "sd_start"}) =>
          Exists(P) /\ (~con[P].dind => con[P].editor = con[P].label)
    /\ JobAt({"cr_deploy", "cr_auth", "cr_ready", "re_deploy", "re_clear"})
          => con[P].route
    /\ JobAt({"cr_auth", "cr_ready", "re_clear"}) =>
          /\ con[P].editor = con[P].label
          /\ Remnant(P) \/ con[P].wired = MarkerAgent(P)
    /\ JobAt({"done"}) /\ ~job.live =>
          /\ Exists(P) /\ con[P].route /\ MarkedAs(P)
          /\ Sought # "open" => /\ con[P].editor = (Sought = "on")
                                /\ con[P].label = (Sought = "on")
          /\ job.svc # "none" /\ con[P].dind => ws[P].over = "none"

DestroyKnows ==
    /\ JobAt({"de_tree", "de_net"}) => con[P] = NoCtr \/ Remnant(P)
    /\ JobAt({"de_rm", "de_tree", "de_net"}) => ghost[P].choice = "open"
    /\ JobAt({"de_net"}) => ws[P] = NoWs \/ "tree" \in ghost[P].left

StepsKnow == CreateKnows /\ StartKnows /\ Deployed /\ DestroyKnows

JobDone == JobKinds /\ Promised /\ LiveKnows /\ StepsKnow

DoneInv == JobDone /\ \A p \in Projects : Lasts(p)

(* A project that a step leaves alone.                                     *)
Same(p) == /\ con'[p] = con[p] /\ ws'[p] = ws[p] /\ ghost'[p] = ghost[p]
           /\ p \in net' <=> p \in net
           /\ P' = p <=> P = p

(* What it leaves alone lasts.                                             *)
LEMMA OthersLast ==
    ASSUME NEW p \in Projects, Lasts(p), Same(p)
    PROVE  Lasts(p)'
<1> USE DEF Same, Runs, AsMarked, MarkedAs, Remnant, Labelled, MarkerModel, MarkerAgent, Exists, Up
<1>1. ProjectKinds(p)' /\ GoneLasts(p)'
  BY DEF Lasts, ProjectKinds, GoneLasts
<1>2. UpLasts(p)'
  <2>1. (Up(p)' <=> Up(p)) /\ (Runs(p)' <=> Runs(p))
    OBVIOUS
  <2> QED
    BY ONLY <2>1, Lasts(p), Same(p) DEF Lasts, UpLasts, Same
<1>3. ChoiceLasts(p)' /\ PlainLasts(p)'
  BY DEF Lasts, ChoiceLasts, PlainLasts
<1> QED
  BY <1>1, <1>2, <1>3 DEF Lasts

(* What a step is: a command that begins on a project, what happens to one *)
(* meanwhile, or a step of the command at work.                            *)
BeginStep(p) ==
    CreateBegin(p) \/ DestroyBegin(p) \/ StartBegin(p) \/ UpdateBegin(p)

MeanwhileStep(p) == Stop(p) \/ Boot(p) \/ Login(p)

CommandStep ==
    \/ CommandDies \/ AllocatePort \/ CreateMarker
    \/ FillMarker("cr_fill", [job EXCEPT !.pc = "cr_net"])
    \/ CreateNetwork \/ CreateContainer
    \/ StartContainer("cr_start", "cr_route")
    \/ InjectRoute("cr_route", "cr_deploy")
    \/ Deploy("cr_deploy", "cr_auth", job.agent, job.svc = "on")
    \/ CreateAuth \/ CreateReady
    \/ DestroyContainer \/ DestroyTree \/ DestroyNetwork
    \/ StartPlain
    \/ UpdateModels \/ FillMarker("up_mfill", Way(job))
    \/ UpdateAgents \/ FillMarker("up_afill", Way([job EXCEPT !.adds = FALSE]))
    \/ LiveEditor \/ WriteOverride \/ LiveStage
    \/ StashLogin \/ StashKey \/ StopOld \/ RemoveOld \/ MakeNew
    \/ StartContainer("re_start", "re_route")
    \/ InjectRoute("re_route", "re_deploy")
    \/ Deploy("re_deploy", "re_clear", MarkerAgent(P), con[P].label)
    \/ ClearOverride \/ CommandDone

(* A step disturbs the one project that it is about.                       *)
LEMMA OthersSame ==
    ASSUME Shape, NEW p \in Projects, NEW q \in Projects, q # p,
           BeginStep(p) \/ MeanwhileStep(p) \/ (CommandStep /\ p = P)
    PROVE  Same(q)
<1> USE ProjectAssumption DEF Shape, P, Same, NoJob, Go
<1>1. ASSUME p = P, CommandDies
       PROVE  Same(q)
  BY <1>1 DEF CommandDies
<1>2. ASSUME CreateBegin(p)
       PROVE  Same(q)
  BY <1>2 DEF CreateBegin, MayBegin, Locals, Forget
<1>3. ASSUME DestroyBegin(p)
       PROVE  Same(q)
  BY <1>3 DEF DestroyBegin, MayBegin, Locals
<1>4. ASSUME Stop(p)
       PROVE  Same(q)
  BY <1>4 DEF Stop, MayBegin, Stopped
<1>5. ASSUME StartBegin(p)
       PROVE  Same(q)
  BY <1>5 DEF StartBegin, MayBegin, Locals, Forget
<1>6. ASSUME UpdateBegin(p)
       PROVE  Same(q)
  BY <1>6 DEF UpdateBegin, MayBegin, Locals, Forget, Way
<1>7. ASSUME Boot(p)
       PROVE  Same(q)
  BY <1>7 DEF Boot
<1>8. ASSUME Login(p)
       PROVE  Same(q)
  BY <1>8 DEF Login
<1>9. ASSUME p = P, AllocatePort
       PROVE  Same(q)
  BY <1>9 DEF AllocatePort, Taken, Recorded, MarkerPort
<1>10. ASSUME p = P, CreateMarker
       PROVE  Same(q)
  BY <1>10 DEF CreateMarker, OpenMarker, Marker
<1>11. ASSUME p = P, CreateNetwork
       PROVE  Same(q)
  BY <1>11 DEF CreateNetwork
<1>12. ASSUME p = P, CreateContainer
       PROVE  Same(q)
  BY <1>12 DEF CreateContainer, MarkerPort
<1>13. ASSUME p = P, FillMarker("cr_fill", [job EXCEPT !.pc = "cr_net"])
       PROVE  Same(q)
  BY <1>13 DEF FillMarker, Marker
<1>14. ASSUME p = P, FillMarker("up_mfill", Way(job))
       PROVE  Same(q)
  BY <1>14 DEF FillMarker, Marker, Way
<1>15. ASSUME p = P, FillMarker("up_afill", Way([job EXCEPT !.adds = FALSE]))
       PROVE  Same(q)
  BY <1>15 DEF FillMarker, Marker, Way
<1>16. ASSUME p = P, StartContainer("cr_start", "cr_route")
       PROVE  Same(q)
  BY <1>16 DEF StartContainer, Started
<1>17. ASSUME p = P, StartContainer("re_start", "re_route")
       PROVE  Same(q)
  BY <1>17 DEF StartContainer, Started
<1>18. ASSUME p = P, StartContainer("sd_start", "sd_route")
       PROVE  Same(q)
  BY <1>18 DEF StartContainer, Started
<1>19. ASSUME p = P, InjectRoute("cr_route", "cr_deploy")
              \/ InjectRoute("re_route", "re_deploy")
              \/ InjectRoute("sd_route", "done")
       PROVE  Same(q)
  BY <1>19 DEF InjectRoute
<1>20. ASSUME p = P, Deploy("cr_deploy", "cr_auth", job.agent, job.svc = "on")
       PROVE  Same(q)
  BY <1>20 DEF Deploy
<1>21. ASSUME p = P,
              Deploy("re_deploy", "re_clear", MarkerAgent(P), con[P].label)
       PROVE  Same(q)
  BY <1>21 DEF Deploy
<1>22. ASSUME p = P, CreateAuth
       PROVE  Same(q)
  BY <1>22 DEF CreateAuth
<1>23. ASSUME p = P, CreateReady
       PROVE  Same(q)
  BY <1>23 DEF CreateReady
<1>24. ASSUME p = P, DestroyContainer
       PROVE  Same(q)
  BY <1>24 DEF DestroyContainer, Removes, Leaves
<1>25. ASSUME p = P, DestroyTree
       PROVE  Same(q)
  BY <1>25 DEF DestroyTree, Removes, Leaves, Remains
<1>26. ASSUME p = P, DestroyNetwork
       PROVE  Same(q)
  BY <1>26 DEF DestroyNetwork
<1>27. ASSUME p = P, UpdateModels
       PROVE  Same(q)
  BY <1>27 DEF UpdateModels, OpenMarker, Marker, MarkerPort
<1>28. ASSUME p = P, UpdateAgents
       PROVE  Same(q)
  BY <1>28 DEF UpdateAgents, OpenMarker, Marker, MarkerPort
<1>29. ASSUME p = P, LiveEditor
       PROVE  Same(q)
  BY <1>29 DEF LiveEditor
<1>30. ASSUME p = P, WriteOverride
       PROVE  Same(q)
  BY <1>30 DEF WriteOverride
<1>31. ASSUME p = P, LiveStage
       PROVE  Same(q)
  BY <1>31 DEF LiveStage
<1>32. ASSUME p = P, NEW item \in Items, NEW to, Stash(item),
              job' = [job EXCEPT !.pc = to], UNCHANGED net,
              \/ job.pc = "re_login" /\ to = "re_key"
              \/ job.pc = "re_key" /\ to = "re_stop"
       PROVE  Same(q)
  BY <1>32 DEF Stash
<1>33. ASSUME p = P, StopOld
       PROVE  Same(q)
  BY <1>33 DEF StopOld, Stopped
<1>34. ASSUME p = P, RemoveOld
       PROVE  Same(q)
  BY <1>34 DEF RemoveOld
<1>35. ASSUME p = P, MakeNew
       PROVE  Same(q)
  BY <1>35 DEF MakeNew, Recreated, RecreatedPlain, PortAgain, MarkerPort
<1>36. ASSUME p = P, ClearOverride
       PROVE  Same(q)
  BY <1>36 DEF ClearOverride
<1>37. ASSUME p = P, CommandDone
       PROVE  Same(q)
  BY <1>37, SMTT(30) DEF CommandDone, Finish
<1> QED
  BY ONLY <1>1, <1>2, <1>3, <1>4, <1>5, <1>6, <1>7, <1>8, <1>9, <1>10, <1>11,
     <1>12, <1>13, <1>14, <1>15, <1>16, <1>17, <1>18, <1>19, <1>20, <1>21,
     <1>22, <1>23, <1>24, <1>25, <1>26, <1>27, <1>28, <1>29, <1>30, <1>31,
     <1>32, <1>33, <1>34, <1>35, <1>36, <1>37, BeginStep(p) \/
     MeanwhileStep(p) \/ (CommandStep /\ p = P) DEF BeginStep, MeanwhileStep,
     CommandStep, StartPlain, StashLogin, StashKey, Go, Items

(* A command that begins.                                                  *)
LEMMA BeginKeeps ==
    ASSUME PortInv, DoneInv, NEW p \in Projects,
           BeginStep(p)
    PROVE  Lasts(p)' /\ JobDone'
<1> USE ProjectAssumption
    DEF PortInv, Shape, P, JobKnows, JobAt, Exists, Up, NoCtr, NoWs, NoJob,
        NoText, NoOld, Go, DoneInv, JobDone, StepsKnow, ProjectKinds,
        JobKinds, Lasts, GoneLasts, UpLasts, ChoiceLasts, PlainLasts,
        Promised, LiveKnows, CreateKnows, StartKnows, Deployed,
        DestroyKnows, Labelled, Sought, AsMarked, MarkedAs, Remnant, Runs, LiveSteps,
        CreateSteps, StartSteps, MarkerModel, MarkerAgent, Overlaid,
        Booted, Flag
<1>1. ASSUME CreateBegin(p)
       PROVE  Lasts(p)' /\ JobDone'
  <2> USE <1>1 DEF CreateBegin, MayBegin, Locals, Forget
  <2>1. Lasts(p)'
    OBVIOUS
  <2>2. JobKinds'
    <3>1. job'.svc \in {"on", "off"}
      OBVIOUS
    <3>2. job'.agent = TRUE \/ job'.agent = FALSE
      OBVIOUS
    <3>3. job'.old.dind = TRUE \/ job'.old.dind = FALSE
      OBVIOUS
    <3>4. /\ job'.adds = FALSE /\ job'.live = FALSE /\ job'.old.label = FALSE
          /\ job'.old.wired = FALSE /\ job'.text.agent = FALSE
      OBVIOUS
    <3> QED
      BY ONLY <3>1, <3>2, <3>3, <3>4 DEF JobKinds
  <2>3. LiveKnows'
    OBVIOUS
  <2>4. Promised'
    OBVIOUS
  <2>5. StepsKnow'
    OBVIOUS
  <2> QED
    BY ONLY <2>1, <2>2, <2>3, <2>4, <2>5 DEF Lasts, JobDone
<1>2. ASSUME DestroyBegin(p)
       PROVE  Lasts(p)' /\ JobDone'
  <2> USE <1>2 DEF DestroyBegin, MayBegin, Locals
  <2>1. Lasts(p)'
    OBVIOUS
  <2>2. JobKinds'
    BY ONLY <1>2 DEF DestroyBegin, Locals, JobKinds, NoJob, NoText, NoOld
  <2>3. LiveKnows'
    OBVIOUS
  <2>4. Promised'
    OBVIOUS
  <2>5. StepsKnow'
    OBVIOUS
  <2> QED
    BY ONLY <2>1, <2>2, <2>3, <2>4, <2>5 DEF Lasts, JobDone
<1>3. ASSUME StartBegin(p)
       PROVE  Lasts(p)' /\ JobDone'
  <2> USE <1>3 DEF StartBegin, MayBegin, Locals, Forget
  <2>1. Lasts(p)'
    OBVIOUS
  <2>2. JobKinds'
    BY ONLY <1>3 DEF StartBegin, Locals, JobKinds, NoJob, NoText, NoOld
  <2>3. LiveKnows'
    OBVIOUS
  <2>4. Promised'
    OBVIOUS
  <2>5. StepsKnow'
    OBVIOUS
  <2> QED
    BY ONLY <2>1, <2>2, <2>3, <2>4, <2>5 DEF Lasts, JobDone
<1>4. ASSUME UpdateBegin(p)
       PROVE  Lasts(p)' /\ JobDone'
  <2> USE <1>4 DEF UpdateBegin, MayBegin, Locals, Forget, Way, LiveToggle,
     LiveAgents, WorkerOnly, PlainAllows
  <2>1. Lasts(p)'
    OBVIOUS
  <2>2. JobKinds'
    <3> USE DEF Locals, Way
    <3>1. job'.svc \in {"none", "on", "off"}
      OBVIOUS
    <3>2. job'.agent = TRUE \/ job'.agent = FALSE
      OBVIOUS
    <3>3. job'.adds \in BOOLEAN
      OBVIOUS
    <3>4. job'.live \in BOOLEAN
      OBVIOUS
    <3>5. /\ job'.old.dind = FALSE /\ job'.old.label = FALSE
          /\ job'.old.wired = FALSE /\ job'.text.agent = FALSE
      OBVIOUS
    <3> QED
      BY ONLY <3>1, <3>2, <3>3, <3>4, <3>5 DEF JobKinds
  <2>3. LiveKnows'
    <3>1. /\ job'.project = p /\ con' = con /\ ws' = ws
          /\ job'.pc \notin {"up_mfill", "up_afill", "up_over"}
      OBVIOUS
    <3>2. /\ ghost'[p].done \in {"none", ghost[p].done}
          /\ ghost'[p].choice \in {"open", ghost[p].choice}
          /\ ghost'[p].left = ghost[p].left
      OBVIOUS
    <3>3. UpLasts(p) /\ P # p
      BY SMTT(30)
    <3>4. job'.live =>
            /\ job'.pc # "done"
            /\ job'.pc \in {"up_model", "up_stage", "up_agent"}
                 => job'.svc = "none"
            /\ job'.pc = "up_model" => job'.models = {"worker"}
            /\ job'.pc = "up_model" => ~job'.adds
            /\ job'.pc = "up_agent" => job'.agent
      BY SMTT(30)
    <3> QED
      BY ONLY <3>1, <3>2, <3>3, <3>4
         DEF LiveKnows, JobAt, UpLasts, Runs, AsMarked, MarkedAs, Remnant, P, Up, MarkerModel,
             MarkerAgent
  <2>4. Promised'
    OBVIOUS
  <2>5. StepsKnow'
    OBVIOUS
  <2> QED
    BY ONLY <2>1, <2>2, <2>3, <2>4, <2>5 DEF Lasts, JobDone
<1> QED
  BY ONLY <1>1, <1>2, <1>3, <1>4, BeginStep(p), ZenonT(60) DEF BeginStep

(* What happens to a project meanwhile.                                    *)
LEMMA MeanwhileKeeps ==
    ASSUME PortInv, DoneInv, NEW p \in Projects,
           MeanwhileStep(p)
    PROVE  Lasts(p)' /\ JobDone'
<1> USE ProjectAssumption
    DEF PortInv, Shape, P, JobKnows, JobAt, Exists, Up, NoCtr, NoWs, NoJob,
        NoText, NoOld, Go, DoneInv, JobDone, StepsKnow, ProjectKinds,
        JobKinds, Lasts, GoneLasts, UpLasts, ChoiceLasts, PlainLasts,
        Promised, LiveKnows, CreateKnows, StartKnows, Deployed,
        DestroyKnows, Labelled, Sought, AsMarked, MarkedAs, Remnant, Runs, LiveSteps,
        CreateSteps, StartSteps, MarkerModel, MarkerAgent, Overlaid,
        Booted, Flag
<1>1. ASSUME Stop(p)
       PROVE  Lasts(p)' /\ JobDone'
  <2> USE <1>1 DEF Stop, MayBegin, Stopped
  <2>1. Lasts(p)'
    OBVIOUS
  <2>2. JobDone'
    BY SMTT(30)
  <2> QED
    BY ONLY <2>1, <2>2 DEF Lasts, JobDone
<1>2. ASSUME Boot(p)
       PROVE  Lasts(p)' /\ JobDone'
  <2> HIDE DEF Lasts
  <2>1. OnlyCreds(p) /\ Up(p) /\ job' = job /\ (ws[p] = NoWs => ws'[p] = NoWs)
    BY ONLY PortInv, p \in Projects, <1>2, BootIs DEF PortInv
  <2>2. Lasts(p)'
    BY <2>1 DEF OnlyCreds, Lasts
  <2>3. LiveKnows'
    <3>1. CASE p = P
      BY <2>1, <3>1 DEF OnlyCreds
    <3>2. CASE p # P
      BY <2>1, <3>2 DEF OnlyCreds
    <3> QED
      BY ONLY <3>1, <3>2
  <2>4. JobKinds' /\ Promised'
    BY <2>1 DEF OnlyCreds
  <2>5. StepsKnow'
    <3>1. CASE p = P
      BY <2>1, <3>1 DEF OnlyCreds
    <3>2. CASE p # P
      BY <2>1, <3>2 DEF OnlyCreds
    <3> QED
      BY ONLY <3>1, <3>2
  <2> QED
    BY ONLY <2>2, <2>3, <2>4, <2>5, SMTT(30) DEF JobDone
<1>3. ASSUME Login(p)
       PROVE  Lasts(p)' /\ JobDone'
  <2> USE <1>3 DEF Login
  <2>1. Lasts(p)'
    OBVIOUS
  <2>2. JobKinds'
    OBVIOUS
  <2>3. LiveKnows'
    OBVIOUS
  <2>4. Promised'
    OBVIOUS
  <2>5. StepsKnow'
    OBVIOUS
  <2> QED
    BY ONLY <2>1, <2>2, <2>3, <2>4, <2>5 DEF Lasts, JobDone
<1> QED
  BY ONLY <1>1, <1>2, <1>3, MeanwhileStep(p), ZenonT(60) DEF MeanwhileStep

(* A step of the command that is at work on the project.                   *)
LEMMA WorkKeeps ==
    ASSUME PortInv, DoneInv, CommandStep,
           NEW p \in Projects, p = P
    PROVE  Lasts(p)' /\ JobDone'
<1> USE ProjectAssumption
    DEF PortInv, Shape, P, JobKnows, JobAt, Exists, Up, NoCtr, NoWs, NoJob,
        NoText, NoOld, Go, DoneInv, JobDone, StepsKnow, ProjectKinds,
        JobKinds, Lasts, GoneLasts, UpLasts, ChoiceLasts, PlainLasts,
        Promised, LiveKnows, CreateKnows, StartKnows, Deployed,
        DestroyKnows, Labelled, Sought, AsMarked, MarkedAs, Remnant, Runs, LiveSteps,
        CreateSteps, StartSteps, MarkerModel, MarkerAgent, Overlaid,
        Booted, Flag
<1>1. ASSUME CommandDies
       PROVE  Lasts(p)' /\ JobDone'
  <2> USE <1>1 DEF CommandDies
  <2>1. Lasts(p)'
    OBVIOUS
  <2>2. JobDone'
    OBVIOUS
  <2> QED
    BY ONLY <2>1, <2>2 DEF Lasts, JobDone
<1>2. ASSUME AllocatePort
       PROVE  Lasts(p)' /\ JobDone'
  <2> USE <1>2 DEF AllocatePort, Taken, Recorded, MarkerPort
  <2>1. Lasts(p)'
    OBVIOUS
  <2>2. JobDone'
    OBVIOUS
  <2> QED
    BY ONLY <2>1, <2>2 DEF Lasts, JobDone
<1>3. ASSUME CreateMarker
       PROVE  Lasts(p)' /\ JobDone'
  <2> USE <1>3 DEF CreateMarker, OpenMarker, Marker
  <2>1. Lasts(p)'
    OBVIOUS
  <2>2. JobDone'
    OBVIOUS
  <2> QED
    BY ONLY <2>1, <2>2 DEF Lasts, JobDone
<1>4. ASSUME CreateNetwork
       PROVE  Lasts(p)' /\ JobDone'
  <2> USE <1>4 DEF CreateNetwork
  <2>1. Lasts(p)'
    OBVIOUS
  <2>2. JobDone'
    OBVIOUS
  <2> QED
    BY ONLY <2>1, <2>2 DEF Lasts, JobDone
<1>5. ASSUME CreateContainer
       PROVE  Lasts(p)' /\ JobDone'
  <2> USE <1>5 DEF CreateContainer, MarkerPort
  <2>1. Lasts(p)'
    OBVIOUS
  <2>2. JobDone'
    OBVIOUS
  <2> QED
    BY ONLY <2>1, <2>2 DEF Lasts, JobDone
<1>6. ASSUME FillMarker("cr_fill", [job EXCEPT !.pc = "cr_net"])
       PROVE  Lasts(p)' /\ JobDone'
  <2> USE <1>6 DEF FillMarker, Marker
  <2>1. Lasts(p)'
    OBVIOUS
  <2>2. JobKinds'
    BY ZenonT(60)
  <2>3. LiveKnows'
    OBVIOUS
  <2>4. Promised'
    OBVIOUS
  <2>5. StepsKnow'
    OBVIOUS
  <2> QED
    BY ONLY <2>1, <2>2, <2>3, <2>4, <2>5 DEF Lasts, JobDone
<1>7. ASSUME FillMarker("up_mfill", Way(job))
       PROVE  Lasts(p)' /\ JobDone'
  <2> USE <1>7 DEF FillMarker, Marker, Way
  <2>1. Lasts(p)'
    OBVIOUS
  <2>2. JobKinds'
    OBVIOUS
  <2>3. LiveKnows'
    OBVIOUS
  <2>4. Promised'
    OBVIOUS
  <2>5. StepsKnow'
    OBVIOUS
  <2> QED
    BY ONLY <2>1, <2>2, <2>3, <2>4, <2>5 DEF Lasts, JobDone
<1>8. ASSUME FillMarker("up_afill", Way([job EXCEPT !.adds = FALSE]))
       PROVE  Lasts(p)' /\ JobDone'
  <2> USE <1>8 DEF FillMarker, Marker, Way
  <2>1. Lasts(p)'
    OBVIOUS
  <2>2. JobKinds'
    <3>1. /\ job'.svc = job.svc /\ job'.live = job.live
          /\ job'.old = job.old /\ job'.text.agent = FALSE
      OBVIOUS
    <3>2. job'.agent \in {job.agent, FALSE} /\ job'.adds = FALSE
      BY SMTT(30)
    <3> QED
      BY ONLY <3>1, <3>2, JobKinds DEF JobKinds
  <2>3. LiveKnows'
    OBVIOUS
  <2>4. Promised'
    OBVIOUS
  <2>5. StepsKnow'
    OBVIOUS
  <2> QED
    BY ONLY <2>1, <2>2, <2>3, <2>4, <2>5 DEF Lasts, JobDone
<1>9. ASSUME StartContainer("cr_start", "cr_route")
       PROVE  Lasts(p)' /\ JobDone'
  <2> USE <1>9 DEF StartContainer, Started
  <2>1. Lasts(p)'
    OBVIOUS
  <2>2. JobDone'
    OBVIOUS
  <2> QED
    BY ONLY <2>1, <2>2 DEF Lasts, JobDone
<1>10. ASSUME StartContainer("re_start", "re_route")
       PROVE  Lasts(p)' /\ JobDone'
  <2> USE <1>10 DEF StartContainer, Started
  <2>1. Lasts(p)'
    OBVIOUS
  <2>2. JobDone'
    OBVIOUS
  <2> QED
    BY ONLY <2>1, <2>2 DEF Lasts, JobDone
<1>11. ASSUME StartContainer("sd_start", "sd_route")
       PROVE  Lasts(p)' /\ JobDone'
  <2> USE <1>11 DEF StartContainer, Started
  <2>1. Lasts(p)'
    OBVIOUS
  <2>2. JobDone'
    OBVIOUS
  <2> QED
    BY ONLY <2>1, <2>2 DEF Lasts, JobDone
<1>12. ASSUME InjectRoute("cr_route", "cr_deploy")
              \/ InjectRoute("re_route", "re_deploy")
              \/ InjectRoute("sd_route", "done")
       PROVE  Lasts(p)' /\ JobDone'
  <2> USE <1>12 DEF InjectRoute
  <2>1. Lasts(p)'
    BY SMTT(30)
  <2>2. JobDone'
    OBVIOUS
  <2> QED
    BY ONLY <2>1, <2>2 DEF Lasts, JobDone
<1>13. ASSUME Deploy("cr_deploy", "cr_auth", job.agent, job.svc = "on")
       PROVE  Lasts(p)' /\ JobDone'
  <2> USE <1>13 DEF Deploy
  <2>1. Lasts(p)'
    OBVIOUS
  <2>2. JobDone'
    OBVIOUS
  <2> QED
    BY ONLY <2>1, <2>2 DEF Lasts, JobDone
<1>14. ASSUME Deploy("re_deploy", "re_clear", MarkerAgent(P), con[P].label)
       PROVE  Lasts(p)' /\ JobDone'
  <2> USE <1>14 DEF Deploy
  <2>1. Lasts(p)'
    OBVIOUS
  <2>2. JobDone'
    OBVIOUS
  <2> QED
    BY ONLY <2>1, <2>2 DEF Lasts, JobDone
<1>15. ASSUME CreateAuth
       PROVE  Lasts(p)' /\ JobDone'
  <2> USE <1>15 DEF CreateAuth
  <2>1. Lasts(p)'
    OBVIOUS
  <2>2. JobDone'
    OBVIOUS
  <2> QED
    BY ONLY <2>1, <2>2 DEF Lasts, JobDone
<1>16. ASSUME CreateReady
       PROVE  Lasts(p)' /\ JobDone'
  <2> USE <1>16 DEF CreateReady
  <2>1. Lasts(p)'
    OBVIOUS
  <2>2. JobDone'
    OBVIOUS
  <2> QED
    BY ONLY <2>1, <2>2 DEF Lasts, JobDone
<1>17. ASSUME DestroyContainer
       PROVE  Lasts(p)' /\ JobDone'
  <2>0. ContainerGone
    BY ONLY PortInv, <1>17, ContainerIs DEF PortInv
  <2>1. Lasts(p)'
    <3> USE <2>0 DEF ContainerGone
    <3>1. ghost[p].done = "none"
      OBVIOUS
    <3>2. ProjectKinds(p)'
      <4>0. ProjectKinds(p) /\ ContainerGone /\ p = P
        BY ONLY <2>0, DoneInv, p = P, p \in Projects DEF DoneInv, Lasts
      <4>1. CASE con'[p] = con[p]
        BY ONLY <4>0, <4>1 DEF ProjectKinds, ContainerGone
      <4>2. CASE con'[p] = NoCtr
        <5>1. /\ con'[p].dind = FALSE /\ con'[p].label = FALSE
              /\ con'[p].wired = FALSE /\ con'[p].editor = FALSE
          BY ONLY <4>2 DEF NoCtr
        <5> QED
          BY ONLY <4>0, <5>1 DEF ProjectKinds, ContainerGone
      <4> QED
        BY ONLY <4>0, <4>1, <4>2 DEF ContainerGone
    <3>3. GoneLasts(p)' /\ UpLasts(p)'
      BY <3>1
    <3>4. ChoiceLasts(p)'
      OBVIOUS
    <3>5. PlainLasts(p)'
      OBVIOUS
    <3> QED
      BY ONLY <3>2, <3>3, <3>4, <3>5 DEF Lasts
  <2>2. JobDone'
    BY <2>0 DEF ContainerGone
  <2> QED
    BY ONLY <2>1, <2>2 DEF Lasts, JobDone
<1>18. ASSUME DestroyTree
       PROVE  Lasts(p)' /\ JobDone'
  <2>0. TreeGone
    BY ONLY PortInv, <1>18, TreeIs DEF PortInv
  <2>1. Lasts(p)'
    <3> USE <2>0 DEF TreeGone
    <3>1. ghost[p].done = "none"
      OBVIOUS
    <3>2. ProjectKinds(p)'
      OBVIOUS
    <3>3. GoneLasts(p)' /\ UpLasts(p)'
      BY <3>1
    <3>4. ChoiceLasts(p)'
      OBVIOUS
    <3>5. PlainLasts(p)'
      OBVIOUS
    <3> QED
      BY ONLY <3>2, <3>3, <3>4, <3>5 DEF Lasts
  <2>2. JobDone'
    BY <2>0 DEF TreeGone
  <2> QED
    BY ONLY <2>1, <2>2 DEF Lasts, JobDone
<1>19. ASSUME DestroyNetwork
       PROVE  Lasts(p)' /\ JobDone'
  <2> USE <1>19 DEF DestroyNetwork
  <2>1. Lasts(p)'
    OBVIOUS
  <2>2. JobDone'
    OBVIOUS
  <2> QED
    BY ONLY <2>1, <2>2 DEF Lasts, JobDone
<1>20. ASSUME UpdateModels
       PROVE  Lasts(p)' /\ JobDone'
  <2> USE <1>20 DEF UpdateModels, OpenMarker, Marker, MarkerPort
  <2>1. Lasts(p)'
    OBVIOUS
  <2>2. JobDone'
    BY SMTT(30)
  <2> QED
    BY ONLY <2>1, <2>2 DEF Lasts, JobDone
<1>21. ASSUME UpdateAgents
       PROVE  Lasts(p)' /\ JobDone'
  <2> USE <1>21 DEF UpdateAgents, OpenMarker, Marker, MarkerPort
  <2>1. Lasts(p)'
    OBVIOUS
  <2>2. JobKinds'
    OBVIOUS
  <2>3. LiveKnows'
    OBVIOUS
  <2>4. Promised'
    OBVIOUS
  <2>5. StepsKnow'
    OBVIOUS
  <2> QED
    BY ONLY <2>1, <2>2, <2>3, <2>4, <2>5 DEF Lasts, JobDone
<1>22. ASSUME LiveEditor
       PROVE  Lasts(p)' /\ JobDone'
  <2> USE <1>22 DEF LiveEditor
  <2>1. Lasts(p)'
    OBVIOUS
  <2>2. JobDone'
    OBVIOUS
  <2> QED
    BY ONLY <2>1, <2>2 DEF Lasts, JobDone
<1>23. ASSUME WriteOverride
       PROVE  Lasts(p)' /\ JobDone'
  <2> USE <1>23 DEF WriteOverride
  <2>1. Lasts(p)'
    OBVIOUS
  <2>2. JobDone'
    OBVIOUS
  <2> QED
    BY ONLY <2>1, <2>2 DEF Lasts, JobDone
<1>24. ASSUME LiveStage
       PROVE  Lasts(p)' /\ JobDone'
  <2> USE <1>24 DEF LiveStage
  <2>1. Lasts(p)'
    OBVIOUS
  <2>2. JobDone'
    BY SMTT(30)
  <2> QED
    BY ONLY <2>1, <2>2 DEF Lasts, JobDone
<1>25. ASSUME NEW item \in Items, NEW to, Stash(item),
              job' = [job EXCEPT !.pc = to], UNCHANGED net,
              \/ job.pc = "re_login" /\ to = "re_key"
              \/ job.pc = "re_key" /\ to = "re_stop"
       PROVE  Lasts(p)' /\ JobDone'
  <2>0. OnlyCreds(p)
    BY ONLY PortInv, p \in Projects, p = P, <1>25, StashIs DEF PortInv
  <2>1. Lasts(p)'
    BY <1>25, <2>0 DEF OnlyCreds
  <2>2. JobDone'
    BY <1>25, <2>0 DEF OnlyCreds
  <2> QED
    BY ONLY <2>1, <2>2 DEF Lasts, JobDone
<1>26. ASSUME StopOld
       PROVE  Lasts(p)' /\ JobDone'
  <2> USE <1>26 DEF StopOld, Stopped
  <2>1. Lasts(p)'
    OBVIOUS
  <2>2. JobDone'
    OBVIOUS
  <2> QED
    BY ONLY <2>1, <2>2 DEF Lasts, JobDone
<1>27. ASSUME RemoveOld
       PROVE  Lasts(p)' /\ JobDone'
  <2> USE <1>27 DEF RemoveOld
  <2>1. Lasts(p)'
    OBVIOUS
  <2>2. JobDone'
    BY SMTT(30)
  <2> QED
    BY ONLY <2>1, <2>2 DEF Lasts, JobDone
<1>28. ASSUME MakeNew
       PROVE  Lasts(p)' /\ JobDone'
  <2> USE <1>28 DEF MakeNew, Recreated, RecreatedPlain, PortAgain, MarkerPort
  <2>1. ProjectKinds(p)'
    <3>0. ProjectKinds(p) /\ ghost' = ghost /\ ws' = ws
      BY ONLY <1>28, DoneInv, p \in Projects DEF MakeNew, DoneInv, Lasts
    <3>1. CASE job.old.dind
      <4>1. job.svc \in {"none", "on", "off"} /\ job.old.label \in BOOLEAN
        OBVIOUS
      <4>2. Flag \in BOOLEAN
        BY ONLY <4>1 DEF Flag, Overlaid
      <4>3. con'[p] = Recreated
        BY ONLY <1>28, <3>1, PortInv, p = P, p \in Projects
           DEF MakeNew, PortInv, Shape
      <4>4. /\ con'[p].label = Flag /\ con'[p].dind = TRUE
            /\ con'[p].wired = FALSE /\ con'[p].editor = FALSE
        BY ONLY <4>3 DEF Recreated, NoCtr
      <4> QED
        BY ONLY <4>2, <4>4, <3>0 DEF ProjectKinds
    <3>2. CASE ~job.old.dind
      <4>1. con'[p].label \in BOOLEAN
        <5>1. job.svc \in {"none", "on", "off"} /\ job.old.label \in BOOLEAN
          OBVIOUS
        <5>2. Flag \in BOOLEAN
          BY ONLY <5>1 DEF Flag, Overlaid
        <5>3. con'[p] = RecreatedPlain
          BY ONLY <1>28, <3>2, PortInv, p = P, p \in Projects
             DEF MakeNew, PortInv, Shape
        <5> QED
          BY ONLY <5>2, <5>3 DEF RecreatedPlain, Recreated, NoCtr
      <4>2. con'[p].wired \in BOOLEAN
        BY <3>2
      <4>3. con'[p].dind = FALSE /\ con'[p].editor = FALSE
        BY <3>2
      <4> QED
        BY ONLY <4>1, <4>2, <4>3, <3>0 DEF ProjectKinds
    <3> QED
      BY ONLY <3>1, <3>2
  <2>2. GoneLasts(p)' /\ UpLasts(p)'
    BY SMTT(30)
  <2>3. ChoiceLasts(p)' /\ PlainLasts(p)'
    OBVIOUS
  <2>4. JobKinds'
    OBVIOUS
  <2>5. LiveKnows' /\ Promised' /\ StepsKnow'
    OBVIOUS
  <2> QED
    BY ONLY <2>1, <2>2, <2>3, <2>4, <2>5 DEF Lasts, JobDone
<1>29. ASSUME ClearOverride
       PROVE  Lasts(p)' /\ JobDone'
  <2> USE <1>29 DEF ClearOverride
  <2>1. Lasts(p)'
    OBVIOUS
  <2>2. JobDone'
    OBVIOUS
  <2> QED
    BY ONLY <2>1, <2>2 DEF Lasts, JobDone
<1>30. ASSUME CommandDone
       PROVE  Lasts(p)' /\ JobDone'
  <2> USE <1>30 DEF CommandDone, Finish
  <2>1. Lasts(p)'
    OBVIOUS
  <2>2. JobDone'
    OBVIOUS
  <2> QED
    BY ONLY <2>1, <2>2 DEF Lasts, JobDone
<1> QED
  BY ONLY ZenonT(60), <1>1, <1>2, <1>3, <1>4, <1>5, <1>6, <1>7, <1>8, <1>9,
     <1>10, <1>11, <1>12, <1>13, <1>14, <1>15, <1>16, <1>17, <1>18, <1>19,
     <1>20, <1>21, <1>22, <1>23, <1>24, <1>25, <1>26, <1>27, <1>28, <1>29,
     <1>30, CommandStep
     DEF CommandStep, StartPlain, StashLogin, StashKey, Go, Items

(* Every step keeps it.                                                    *)
LEMMA DoneStep ==
    ASSUME PortInv, DoneInv, [ProjectNext]_projectVars
    PROVE  DoneInv'
<1>1. CASE UNCHANGED projectVars
  BY <1>1 DEF projectVars, DoneInv, JobDone, StepsKnow, Lasts, ProjectKinds,
       JobKinds, GoneLasts, UpLasts, ChoiceLasts, PlainLasts, Promised,
       LiveKnows, CreateKnows, StartKnows, Deployed, DestroyKnows, Labelled,
       Sought, AsMarked, MarkedAs, Remnant, Runs, MarkerModel, MarkerAgent, Overlaid, Flag,
       JobAt, Exists, Up, P
<1>2. ASSUME NEW p \in Projects,
             BeginStep(p) \/ MeanwhileStep(p) \/ (CommandStep /\ p = P)
      PROVE  DoneInv'
  <2>1. Lasts(p)' /\ JobDone'
    BY <1>2, BeginKeeps, MeanwhileKeeps, WorkKeeps
  <2>2. ASSUME NEW q \in Projects, q # p PROVE Lasts(q)'
    BY <1>2, <2>2, OthersSame, OthersLast DEF PortInv, DoneInv
  <2> QED
    BY <2>1, <2>2 DEF DoneInv
<1>3. CASE ProjectNext
  <2>1. CommandStep \/ \E p \in Projects : BeginStep(p) \/ MeanwhileStep(p)
    BY <1>3, SMTT(30) DEF ProjectNext, CommandStep, BeginStep, MeanwhileStep
  <2>2. CommandStep => P \in Projects
    BY ZenonT(60) DEF CommandStep, PortInv, Shape, CommandDies, AllocatePort,
       CreateMarker, FillMarker, CreateNetwork, CreateContainer,
       StartContainer, InjectRoute, Deploy, CreateAuth, CreateReady,
       DestroyContainer, DestroyTree, DestroyNetwork, StartPlain,
       UpdateModels, UpdateAgents, LiveEditor, WriteOverride, LiveStage,
       StashLogin, StashKey, StopOld, RemoveOld, MakeNew, ClearOverride,
       CommandDone, Finish, Go
  <2> QED
    BY <2>1, <2>2, <1>2
<1> QED
  BY <1>1, <1>3

(* What a command reported done was done as a whole, and lasts until the   *)
(* next one that is not done in the live container, whatever removal of a  *)
(* destroy fails unnoticed (but for what it then leaves behind).           *)
THEOREM DoneStaysDone == ProjectSpec => []DoneMeansDone
<1>1. ProjectInit => DoneInv
  <2> SUFFICES ASSUME ProjectInit PROVE DoneInv
    OBVIOUS
  <2>1. job = NoJob
    BY DEF ProjectInit
  <2>2. JobDone
    BY <2>1
       DEF JobDone, StepsKnow, JobKinds, Promised, LiveKnows, CreateKnows,
           StartKnows, Deployed, DestroyKnows, JobAt, NoJob, NoText, NoOld,
           CreateSteps, StartSteps
  <2>3. ASSUME NEW p \in Projects PROVE Lasts(p)
    BY <2>1, ProjectAssumption
       DEF ProjectInit, Lasts, ProjectKinds, GoneLasts, UpLasts, ChoiceLasts,
           PlainLasts, Exists, Up, NoCtr, NoWs
  <2> QED
    BY <2>2, <2>3 DEF DoneInv
<1>2. PortInv /\ DoneInv /\ [ProjectNext]_projectVars => DoneInv'
  BY DoneStep
<1>3. DoneInv => DoneMeansDone
  BY DEF DoneInv, Lasts, GoneLasts, UpLasts, Runs, AsMarked, MarkedAs, Remnant, DoneMeansDone
<1> QED
  BY <1>1, <1>2, <1>3, PortInvariant, PTL DEF ProjectSpec

-----------------------------------------------------------------------------
(* A project with its workers behaves as one of each.                      *)
LEMMA BothAreEach == BothSpec => Spec /\ ProjectSpec
<1>1. BothInit => Init /\ ProjectInit
  BY DEF BothInit
<1>2. [BothNext]_bothVars => [Next]_vars /\ [ProjectNext]_projectVars
  BY DEF BothNext, ProjectStep, WorkersStep, bothVars
<1> QED
  BY <1>1, <1>2, PTL DEF BothSpec, Spec, ProjectSpec

(* What is proved of the workers and of the ports holds of a project with  *)
(* its workers.                                                            *)
THEOREM ProjectKeepsBoth ==
    BothSpec => []AcceptedBundlesWhole /\ []PortsOwned
BY BothAreEach, AcceptedStaysWhole, PortsStayOwned

(* And so does what is proved of workers whose commands do not overlap.    *)
THEOREM ProjectLedgerHolds ==
    ASSUME Single
    PROVE  BothSpec => []RegistryTells /\ ImplementsLedger
BY BothAreEach, RegistryTellsTrue, RegistryIsLedger
=============================================================================
