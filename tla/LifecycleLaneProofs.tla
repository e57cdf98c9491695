------------------------- MODULE LifecycleLaneProofs ------------------------
(***************************************************************************)
(* Proofs about LifecycleLane, for any requests and projects, whoever is   *)
(* killed when: its type invariant, mutual exclusion of project actions,   *)
(* the truth of what it shows, and that it implements ActionQueue.         *)
(***************************************************************************)
EXTENDS LifecycleLane, TLAPS

(* The points at which a child holds the flock, if it ever got it.         *)
Holding == {"hold", "act", "close", "unlock", "free"}

(* Who acts holds the flock; who holds it is at a point where it may, and  *)
(* an op is new until the dispatcher spawns its child.                     *)
ActorsHold ==
    /\ dmn.pc = "alone" => flock = Daemon
    /\ \A o \in Ops : child[o] \in {"hold", "act"} => flock = o

HoldersMay == \A o \in Ops : flock = o => child[o] \in Holding

NewIsNew ==
    /\ \A o \in Ops : target[o] = Nobody => child[o] = "none"
    /\ dmn.pc \in {"spawn", "lock"} =>
          dmn.op \in Ops /\ target[dmn.op] # Nobody
    /\ dmn.pc = "spawn" => child[dmn.op] = "none"
    /\ dmn.pc = "lock" => child[dmn.op] # "none"

LaneInv == TypeOK /\ ActorsHold /\ HoldersMay /\ NewIsNew

-----------------------------------------------------------------------------
(* The invariant holds in every state.                                     *)
THEOREM LaneInvariant == Spec => []LaneInv
<1> USE LaneAssumption DEF LaneInv, TypeOK, DaemonSteps, ChildPoints
<1> USE DEF ActorsHold, HoldersMay, NewIsNew, Holding
<1>1. Init => LaneInv
  BY DEF Init
<1>2. LaneInv /\ [Next]_vars => LaneInv'
  <2> SUFFICES ASSUME LaneInv, [Next]_vars PROVE LaneInv'
    OBVIOUS
  <2>1. ASSUME NEW o \in Ops, NEW p \in Projects, Submit(o, p)
        PROVE  LaneInv'
    BY <2>1 DEF Submit, Serve, Live
  <2>2. ASSUME Spawn
        PROVE  LaneInv'
    BY <2>2 DEF Spawn, Serve, Answer
  <2>3. ASSUME WriteLock
        PROVE  LaneInv'
    BY <2>3 DEF WriteLock, Serve, Answer
  <2>4. ASSUME WriteLockFails
        PROVE  LaneInv'
    BY <2>4 DEF WriteLockFails, Serve, Answer, Freed
  <2>5. ASSUME NEW p \in Projects, InlineBegin(p)
        PROVE  LaneInv'
    BY <2>5 DEF InlineBegin, Serve
  <2>6. ASSUME NEW p \in Projects, AloneBegin(p)
        PROVE  LaneInv'
    BY <2>6 DEF AloneBegin, Serve
  <2>7. ASSUME InlineEnd
        PROVE  LaneInv'
    BY <2>7 DEF InlineEnd, Serve, Answer, Freed
  <2>8. ASSUME NEW p \in Projects, DevBegin(p) \/ DevEnd(p)
        PROVE  LaneInv'
    BY <2>8 DEF DevBegin, DevEnd
  <2>9. ASSUME DaemonDies
        PROVE  LaneInv'
    BY <2>9 DEF DaemonDies, Serve, Freed
  <2>10. ASSUME DaemonStarts
        PROVE  LaneInv'
    BY <2>10 DEF DaemonStarts, Serve, Answer
  <2>11. ASSUME NEW o \in Ops, OpenLog(o) \/ OpenLogFails(o)
        PROVE  LaneInv'
    BY <2>11 DEF OpenLog, OpenLogFails, Go
  <2>12. ASSUME NEW o \in Ops, TakeFlock(o, "try") \/ TakeFlock(o, "wait")
        PROVE  LaneInv'
    BY <2>12 DEF TakeFlock, Go
  <2>13. ASSUME NEW o \in Ops, Queue(o) \/ TryFails(o)
        PROVE  LaneInv'
    BY <2>13 DEF Queue, TryFails, Go, Terminal
  <2>14. ASSUME NEW o \in Ops, Hold(o) \/ HoldFails(o) \/ Act(o)
        PROVE  LaneInv'
    BY <2>14 DEF Hold, HoldFails, Act, Go, Terminal
  <2>15. ASSUME NEW o \in Ops, ClearHolder(o) \/ ReleaseLock(o)
        PROVE  LaneInv'
    BY <2>15 DEF ClearHolder, ReleaseLock, Go
  <2>16. ASSUME NEW o \in Ops, ReleaseFlock(o) \/ Exit(o)
        PROVE  LaneInv'
    BY <2>16 DEF ReleaseFlock, Exit, Go, Freed
  <2>17. ASSUME NEW o \in Ops, Killed(o)
        PROVE  LaneInv'
    BY <2>17 DEF Killed, Go, Freed, Alive
  <2>18. ASSUME UNCHANGED vars
        PROVE  LaneInv'
    BY <2>18 DEF vars
  <2> QED
    BY <2>1, <2>2, <2>3, <2>4, <2>5, <2>6, <2>7, <2>8, <2>9, <2>10, <2>11,
       <2>12, <2>13, <2>14, <2>15, <2>16, <2>17, <2>18
       DEF Next, Dispatcher, ChildStep
<1> QED BY <1>1, <1>2, PTL DEF Spec

(* Two children never act at once, nor one while the daemon creates or     *)
(* destroys a project: run_lifecycle acts only under the host-wide flock.  *)
THEOREM MutualExclusion == Spec => []OneActor
<1>1. LaneInv => OneActor
  BY LaneAssumption DEF LaneInv, ActorsHold, OneActor, TypeOK
<1> QED BY <1>1, LaneInvariant, PTL

(* Every variable keeps its type.                                          *)
THEOREM LaneTyped == Spec => []TypeOK
<1>1. LaneInv => TypeOK
  BY DEF LaneInv
<1> QED BY <1>1, LaneInvariant, PTL

-----------------------------------------------------------------------------
(* An op that was answered for and has yet to run has its lock file; and   *)
(* the project the dispatcher is busy with has no such op.                 *)
RefusalInv ==
    /\ \A o \in accepted : target[o] # Nobody /\ (Pending(o) => o \in lock)
    /\ dmn.pc \in {"spawn", "lock"} =>
          /\ target[dmn.op] = dmn.project
          /\ dmn.op \notin accepted
          /\ \A o \in accepted : Pending(o) => target[o] # dmn.project
    /\ ContainerStays
    /\ OneOpPerProject

THEOREM RefusalsHold == Spec => []RefusalInv
<1> USE LaneAssumption DEF LaneInv, TypeOK, NewIsNew, RefusalInv,
        ContainerStays, OneOpPerProject, Pending, Alive
<1>1. Init => RefusalInv
  BY DEF Init
<1>2. LaneInv /\ RefusalInv /\ [Next]_vars => RefusalInv'
  <2> SUFFICES ASSUME LaneInv, RefusalInv, [Next]_vars PROVE RefusalInv'
    OBVIOUS
  <2>1. ASSUME NEW o \in Ops, NEW p \in Projects, Submit(o, p)
        PROVE  RefusalInv'
    BY <2>1 DEF Submit, Serve, Live, InFlight
  <2>2. ASSUME Spawn
        PROVE  RefusalInv'
    BY <2>2 DEF Spawn, Serve, Answer
  <2>3. ASSUME WriteLock
        PROVE  RefusalInv'
    BY <2>3 DEF WriteLock, Serve, Answer
  <2>4. ASSUME WriteLockFails
        PROVE  RefusalInv'
    BY <2>4 DEF WriteLockFails, Serve, Answer
  <2>5. ASSUME NEW p \in Projects, InlineBegin(p)
        PROVE  RefusalInv'
    BY <2>5 DEF InlineBegin, Serve, InFlight
  <2>6. ASSUME NEW p \in Projects, AloneBegin(p)
        PROVE  RefusalInv'
    BY <2>6 DEF AloneBegin, Serve
  <2>7. ASSUME InlineEnd
        PROVE  RefusalInv'
    BY <2>7 DEF InlineEnd, Serve, Answer
  <2>8. ASSUME NEW p \in Projects, DevBegin(p) \/ DevEnd(p)
        PROVE  RefusalInv'
    BY <2>8 DEF DevBegin, DevEnd
  <2>9. ASSUME DaemonDies \/ DaemonStarts
        PROVE  RefusalInv'
    BY <2>9 DEF DaemonDies, DaemonStarts, Serve, Answer
  <2>10. ASSUME NEW o \in Ops, OpenLog(o) \/ OpenLogFails(o)
        PROVE  RefusalInv'
    BY <2>10 DEF OpenLog, OpenLogFails, Go
  <2>11. ASSUME NEW o \in Ops, TakeFlock(o, "try") \/ TakeFlock(o, "wait")
        PROVE  RefusalInv'
    BY <2>11 DEF TakeFlock, Go
  <2>12. ASSUME NEW o \in Ops, Queue(o) \/ TryFails(o)
        PROVE  RefusalInv'
    BY <2>12 DEF Queue, TryFails, Go
  <2>13. ASSUME NEW o \in Ops, Hold(o) \/ HoldFails(o) \/ Act(o)
        PROVE  RefusalInv'
    BY <2>13 DEF Hold, HoldFails, Act, Go, Terminal
  <2>14. ASSUME NEW o \in Ops, ClearHolder(o) \/ ReleaseLock(o)
        PROVE  RefusalInv'
    BY <2>14 DEF ClearHolder, ReleaseLock, Go
  <2>15. ASSUME NEW o \in Ops, ReleaseFlock(o) \/ Exit(o)
        PROVE  RefusalInv'
    BY <2>15 DEF ReleaseFlock, Exit, Go
  <2>16. ASSUME NEW o \in Ops, Killed(o)
        PROVE  RefusalInv'
    BY <2>16 DEF Killed, Go
  <2>17. ASSUME UNCHANGED vars
        PROVE  RefusalInv'
    BY <2>17 DEF vars
  <2> QED
    BY <2>1, <2>2, <2>3, <2>4, <2>5, <2>6, <2>7, <2>8, <2>9, <2>10, <2>11,
       <2>12, <2>13, <2>14, <2>15, <2>16, <2>17
       DEF Next, Dispatcher, ChildStep
<1> QED BY <1>1, <1>2, LaneInvariant, PTL DEF Spec

(* "Two requests cannot both pass the refusal": of the ops answered        *)
(* started:true, a project has at most one still to run or running, also   *)
(* across a crash and restart of the daemon.                               *)
THEOREM OneOpEach == Spec => []OneOpPerProject
<1>1. RefusalInv => OneOpPerProject
  BY DEF RefusalInv
<1> QED BY <1>1, RefusalsHold, PTL

(* A verb inside a project's container never has it replaced under it.     *)
THEOREM ContainersStay == Spec => []ContainerStays
<1>1. RefusalInv => ContainerStays
  BY DEF RefusalInv
<1> QED BY <1>1, RefusalsHold, PTL

(* A child that has run far enough has written its terminal, every op that *)
(* was answered for has a child, and whoever lifecycle.holder names was    *)
(* killed or still holds the flock.                                        *)
Terminated == {"close", "unlock", "free", "exit", "gone"}
TellingInv ==
    /\ \A o \in Ops : child[o] \in Terminated => log[o] # "none"
    /\ \A o \in accepted : child[o] # "none"
    /\ \A o \in Ops : holder = o =>
          child[o] = "lost" \/ (child[o] \in {"act", "close"} /\ flock = o)

THEOREM TellingHolds == Spec => []TellingInv
<1> USE LaneAssumption
    DEF LaneInv, TypeOK, ActorsHold, NewIsNew, TellingInv, Terminated
<1>1. Init => TellingInv
  BY DEF Init
<1>2. LaneInv /\ TellingInv /\ [Next]_vars => TellingInv'
  <2> SUFFICES ASSUME LaneInv, TellingInv, [Next]_vars PROVE TellingInv'
    OBVIOUS
  <2>1. ASSUME NEW o \in Ops, NEW p \in Projects, Submit(o, p)
        PROVE  TellingInv'
    BY <2>1 DEF Submit
  <2>2. ASSUME Spawn
        PROVE  TellingInv'
    BY <2>2 DEF Spawn
  <2>3. ASSUME WriteLock
        PROVE  TellingInv'
    BY <2>3 DEF WriteLock
  <2>4. ASSUME WriteLockFails
        PROVE  TellingInv'
    BY <2>4 DEF WriteLockFails, Freed
  <2>5. ASSUME NEW p \in Projects, InlineBegin(p) \/ AloneBegin(p)
        PROVE  TellingInv'
    BY <2>5 DEF InlineBegin, AloneBegin
  <2>6. ASSUME InlineEnd \/ DaemonDies \/ DaemonStarts
        PROVE  TellingInv'
    BY <2>6 DEF InlineEnd, DaemonDies, DaemonStarts, Freed
  <2>7. ASSUME NEW p \in Projects, DevBegin(p) \/ DevEnd(p)
        PROVE  TellingInv'
    BY <2>7 DEF DevBegin, DevEnd
  <2>8. ASSUME NEW o \in Ops, OpenLog(o) \/ OpenLogFails(o)
        PROVE  TellingInv'
    BY <2>8 DEF OpenLog, OpenLogFails, Go
  <2>9. ASSUME NEW o \in Ops, TakeFlock(o, "try") \/ TakeFlock(o, "wait")
        PROVE  TellingInv'
    BY <2>9 DEF TakeFlock, Go
  <2>10. ASSUME NEW o \in Ops, Queue(o) \/ TryFails(o)
         PROVE  TellingInv'
    BY <2>10 DEF Queue, TryFails, Go, Terminal
  <2>11. ASSUME NEW o \in Ops, Hold(o) \/ HoldFails(o) \/ Act(o)
         PROVE  TellingInv'
    BY <2>11 DEF Hold, HoldFails, Act, Go, Terminal
  <2>12. ASSUME NEW o \in Ops, ClearHolder(o) \/ ReleaseLock(o)
         PROVE  TellingInv'
    BY <2>12 DEF ClearHolder, ReleaseLock, Go
  <2>13. ASSUME NEW o \in Ops, ReleaseFlock(o) \/ Exit(o)
         PROVE  TellingInv'
    BY <2>13 DEF ReleaseFlock, Exit, Go, Freed
  <2>14. ASSUME NEW o \in Ops, Killed(o)
         PROVE  TellingInv'
    BY <2>14 DEF Killed, Go, Freed, Alive
  <2>15. ASSUME UNCHANGED vars
         PROVE  TellingInv'
    BY <2>15 DEF vars
  <2> QED
    BY <2>1, <2>2, <2>3, <2>4, <2>5, <2>6, <2>7, <2>8, <2>9, <2>10, <2>11,
       <2>12, <2>13, <2>14, <2>15 DEF Next, Dispatcher, ChildStep
<1> QED BY <1>1, <1>2, LaneInvariant, PTL DEF Spec

(* "A reader that sees the op gone has already been able to read its       *)
(* terminal", and what lifecycle_active calls running does hold the flock, *)
(* whatever killed children have left in the lock files and the holder.    *)
THEOREM LaneTellsTrue == Spec => []ToldTrue
<1>1. LaneInv /\ RefusalInv /\ TellingInv => ToldTrue
  <2> SUFFICES ASSUME LaneInv, RefusalInv, TellingInv PROVE ToldTrue
    OBVIOUS
  <2>1. ASSUME NEW o \in accepted, o \notin Live,
               child[o] \notin {"nolog", "lost"}
        PROVE  log[o] # "none"
    <3>1. o \in Ops /\ child[o] # "none"
      BY DEF LaneInv, TypeOK, TellingInv
    <3>2. CASE Alive(o)
      BY <2>1, <3>1, <3>2
         DEF Live, RefusalInv, Pending, TellingInv, Terminated, LaneInv,
             TypeOK, ChildPoints
    <3>3. CASE ~Alive(o)
      BY <2>1, <3>1, <3>3 DEF Alive, TellingInv, Terminated
    <3> QED BY <3>2, <3>3
  <2>2. ASSUME NEW o \in Ops, ShownRunning(o)
        PROVE  flock = o
    BY <2>2 DEF ShownRunning, Live, Alive, TellingInv
  <2> QED BY <2>1, <2>2 DEF ToldTrue
<1> QED BY <1>1, LaneInvariant, RefusalsHold, TellingHolds, PTL

(* Two children never act at once nor one beside a create or destroy, a    *)
(* project has one accepted action pending, none is pending on one in      *)
(* whose container an inline verb works, and what is shown of the lane is  *)
(* true.                                                                   *)
THEOREM LaneStaysSafe == Spec => []LaneSafe
<1>1. OneActor /\ OneOpPerProject /\ ContainerStays /\ ToldTrue => LaneSafe
  BY DEF LaneSafe, Exclusive
<1> QED
  BY <1>1, MutualExclusion, OneOpEach, ContainersStay, LaneTellsTrue, PTL

-----------------------------------------------------------------------------
(* Refinement                                                              *)

(* A step that changes the status of one op, and whether the daemon works  *)
(* alone not at all, is a move of that op in ActionQueue.                  *)
LEMMA OneMoves ==
    ASSUME NEW o \in Ops, NEW from, NEW to,
           Status(o) = from, Status(o)' = to,
           \A q \in Ops \ {o} : Status(q)' = Status(q),
           (flock = Daemon)' = (flock = Daemon)
    PROVE  Actions!Move(o, from, to)
BY DEF Actions!Move

LEMMA NoneMoves ==
    ASSUME \A q \in Ops : Status(q)' = Status(q),
           (flock = Daemon)' = (flock = Daemon)
    PROVE  UNCHANGED Actions!queue
BY DEF Actions!queue

(* A child's step leaves the status of every other op alone.               *)
LEMMA OthersStay ==
    ASSUME NEW o \in Ops, TypeOK,
           \E to \in ChildPoints : child' = [child EXCEPT ![o] = to],
           flock' \in {flock, Freed(o)} \/ (flock = Nobody /\ flock' = o)
    PROVE  /\ \A q \in Ops \ {o} : Status(q)' = Status(q)
           /\ (flock = Daemon)' = (flock = Daemon)
BY LaneAssumption DEF TypeOK, Status, Freed

(* The lane implements one-at-a-time actions, each run at most once: a     *)
(* spawn enqueues, taking the flock begins, and leaving it ends.           *)
THEOREM LaneImplementsQueue == Spec => ImplementsQueue
<1> DEFINE QueueStep == Actions!QueueNext \/ UNCHANGED Actions!queue
<1>1. Init => Actions!QueueInit
  BY LaneAssumption DEF Init, Actions!QueueInit, Status
<1>2. LaneInv /\ [Next]_vars => [Actions!QueueNext]_(Actions!queue)
  <2> SUFFICES ASSUME LaneInv, [Next]_vars
               PROVE  QueueStep
    OBVIOUS
  <2> USE LaneAssumption DEF LaneInv, TypeOK
  <2>a. ASSUME NEW o \in Ops,
               \/ Actions!Move(o, "new", "queued")
               \/ Actions!Move(o, "queued", "ended")
               \/ Actions!Move(o, "running", "ended")
               \/ /\ Actions!NothingRuns
                  /\ Actions!Move(o, "queued", "running")
        PROVE  QueueStep
    BY <2>a DEF Actions!QueueNext, Actions!Enqueue, Actions!Begin,
                Actions!End, Actions!Drop
  <2>b. ASSUME NEW o \in Ops, Status(o) # "new", Status(o)' = "ended",
               \A q \in Ops \ {o} : Status(q)' = Status(q),
               (flock = Daemon)' = (flock = Daemon)
        PROVE  QueueStep
    <3>1. Status(o) \in {"queued", "running", "ended"}
      BY <2>b DEF Status
    <3>2. CASE Status(o) = "ended"
      BY <2>b, <3>2, NoneMoves
    <3>3. CASE Status(o) \in {"queued", "running"}
      BY <2>b, <3>3, OneMoves, <2>a
    <3> QED BY <3>1, <3>2, <3>3
  <2>c. ASSUME UNCHANGED <<child, flock>>
        PROVE  UNCHANGED Actions!queue
    BY <2>c, NoneMoves DEF Status
  <2>1. ASSUME NEW o \in Ops, NEW p \in Projects, Submit(o, p)
        PROVE  QueueStep
    BY <2>1, <2>c DEF Submit
  <2>2. ASSUME Spawn
        PROVE  QueueStep
    <3>1. CASE UNCHANGED child
      BY <2>2, <3>1, <2>c DEF Spawn
    <3>2. CASE child' = [child EXCEPT ![dmn.op] = "boot"]
      <4>1. PICK o \in Ops : o = dmn.op /\ child[o] = "none" /\ flock # o
        BY <2>2 DEF Spawn, NewIsNew, HoldersMay, Holding
      <4>2. child' = [child EXCEPT ![o] = "boot"] /\ flock' = flock
        BY <2>2, <3>2, <4>1 DEF Spawn
      <4>3. Status(o) = "new" /\ Status(o)' = "queued"
        BY <4>1, <4>2 DEF Status
      <4>4. /\ \A q \in Ops \ {o} : Status(q)' = Status(q)
            /\ (flock = Daemon)' = (flock = Daemon)
        BY <4>2, OthersStay DEF ChildPoints
      <4> QED BY <4>3, <4>4, <2>a, OneMoves
    <3> QED BY <2>2, <3>1, <3>2 DEF Spawn
  <2>3. ASSUME WriteLock \/ DaemonStarts
        PROVE  QueueStep
    BY <2>3, <2>c DEF WriteLock, DaemonStarts
  <2>4. ASSUME WriteLockFails
        PROVE  QueueStep
    <3>1. PICK o \in Ops : o = dmn.op /\ child[o] # "none"
      BY <2>4 DEF WriteLockFails, NewIsNew
    <3>2. child' = [child EXCEPT ![o] = "lost"] /\ flock' = Freed(o)
      BY <2>4, <3>1 DEF WriteLockFails
    <3>3. Status(o) # "new" /\ Status(o)' = "ended"
      BY <3>1, <3>2 DEF Status, Freed
    <3> QED BY <3>2, <3>3, <2>b, OthersStay DEF ChildPoints
  <2>5. ASSUME NEW p \in Projects, InlineBegin(p) \/ DevBegin(p) \/ DevEnd(p)
        PROVE  QueueStep
    BY <2>5, <2>c DEF InlineBegin, DevBegin, DevEnd
  <2>6. ASSUME NEW p \in Projects, AloneBegin(p)
        PROVE  QueueStep
    <3>1. flock = Nobody /\ flock' = Daemon /\ UNCHANGED child
      BY <2>6 DEF AloneBegin
    <3>2. Actions!NothingRuns
      BY <3>1 DEF Actions!NothingRuns, Status
    <3>3. \A q \in Ops : Status(q)' = Status(q)
      BY <3>1 DEF Status
    <3>4. Actions!BeginAlone
      BY <3>1, <3>2, <3>3 DEF Actions!BeginAlone
    <3> QED BY <3>4 DEF Actions!QueueNext
  <2>7. ASSUME InlineEnd \/ DaemonDies
        PROVE  QueueStep
    <3>1. flock' = Freed(Daemon) /\ UNCHANGED child
      BY <2>7 DEF InlineEnd, DaemonDies
    <3>2. \A q \in Ops : Status(q)' = Status(q)
      BY <3>1 DEF Freed, Status
    <3>3. CASE flock = Daemon
      BY <3>1, <3>2, <3>3 DEF Actions!QueueNext, Actions!EndAlone, Freed
    <3>4. CASE flock # Daemon
      BY <3>1, <3>2, <3>4, NoneMoves DEF Freed
    <3> QED BY <3>3, <3>4
  <2>8. ASSUME NEW o \in Ops,
               OpenLog(o) \/ Queue(o) \/ Hold(o) \/ HoldFails(o) \/ Act(o)
               \/ ClearHolder(o) \/ ReleaseLock(o) \/ Exit(o)
        PROVE  QueueStep
    <3>1. /\ UNCHANGED flock
          /\ \E to \in ChildPoints : child' = [child EXCEPT ![o] = to]
      BY <2>8 DEF OpenLog, Queue, Hold, HoldFails, Act, ClearHolder,
                  ReleaseLock, Exit, Go, ChildPoints
    <3>2. Status(o)' = Status(o)
      BY <2>8, <3>1 DEF OpenLog, Queue, Hold, HoldFails, Act, ClearHolder,
                        ReleaseLock, Exit, Go, Status
    <3>3. /\ \A q \in Ops \ {o} : Status(q)' = Status(q)
          /\ (flock = Daemon)' = (flock = Daemon)
      BY <3>1, OthersStay
    <3> QED BY <3>2, <3>3, NoneMoves
  <2>9. ASSUME NEW o \in Ops, OpenLogFails(o) \/ TryFails(o)
        PROVE  QueueStep
    <3>1. /\ UNCHANGED flock
          /\ \E to \in ChildPoints : child' = [child EXCEPT ![o] = to]
      BY <2>9 DEF OpenLogFails, TryFails, Go, ChildPoints
    <3>2. Status(o) # "new" /\ Status(o)' = "ended"
      BY <2>9, <3>1 DEF OpenLogFails, TryFails, Go, Status, HoldersMay, Holding
    <3>3. /\ \A q \in Ops \ {o} : Status(q)' = Status(q)
          /\ (flock = Daemon)' = (flock = Daemon)
      BY <3>1, OthersStay
    <3> QED BY <3>2, <3>3, <2>b
  <2>10. ASSUME NEW o \in Ops, TakeFlock(o, "try") \/ TakeFlock(o, "wait")
         PROVE  QueueStep
    <3>1. /\ flock = Nobody /\ flock' = o
          /\ child' = [child EXCEPT ![o] = "hold"]
          /\ child[o] \in {"try", "wait"}
      BY <2>10 DEF TakeFlock, Go
    <3>2. Actions!NothingRuns
      BY <3>1 DEF Actions!NothingRuns, Status
    <3>3. Status(o) = "queued" /\ Status(o)' = "running"
      BY <3>1 DEF Status
    <3>4. /\ \A q \in Ops \ {o} : Status(q)' = Status(q)
          /\ (flock = Daemon)' = (flock = Daemon)
      BY <3>1, OthersStay DEF ChildPoints
    <3>5. Actions!Move(o, "queued", "running")
      BY <3>3, <3>4, OneMoves
    <3> QED BY <3>2, <3>5, <2>a
  <2>11. ASSUME NEW o \in Ops, ReleaseFlock(o) \/ Killed(o)
         PROVE  QueueStep
    <3>1. child[o] # "none" /\ flock' = Freed(o)
      BY <2>11 DEF ReleaseFlock, Killed, Go, Alive
    <3>2. \E to \in {"exit", "lost"} : child' = [child EXCEPT ![o] = to]
      BY <2>11 DEF ReleaseFlock, Killed, Go
    <3>3. Status(o) # "new" /\ Status(o)' = "ended"
      BY <3>1, <3>2 DEF Status, Freed
    <3>4. /\ \A q \in Ops \ {o} : Status(q)' = Status(q)
          /\ (flock = Daemon)' = (flock = Daemon)
      BY <3>1, <3>2, OthersStay DEF ChildPoints
    <3> QED BY <3>3, <3>4, <2>b
  <2>12. ASSUME UNCHANGED vars
         PROVE  QueueStep
    BY <2>12, <2>c DEF vars
  <2> QED
    BY <2>1, <2>2, <2>3, <2>4, <2>5, <2>6, <2>7, <2>8, <2>9, <2>10, <2>11,
       <2>12
       DEF Next, Dispatcher, ChildStep
<1> QED BY <1>1, <1>2, LaneInvariant, PTL DEF Spec, ImplementsQueue,
           Actions!QueueSpec
=============================================================================
