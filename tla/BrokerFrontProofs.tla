------------------------- MODULE BrokerFrontProofs --------------------------
(***************************************************************************)
(* Proofs about BrokerFront, for any ops and faults: whatever restarts and *)
(* dies, one build works at a time and it is the one of build.lock, no     *)
(* create or destroy is run beside another, and what the page shows of an  *)
(* op is what happened to it.  And about DetectedApps, the other thing the *)
(* web UI asks the broker for: when detection pauses, and whose tab        *)
(* addresses stay.                                                         *)
(***************************************************************************)
EXTENDS BrokerFront, DetectedApps, TLAPS

(* A build's child that has still to work, or to let its lock go.          *)
Active(o) == child[o] \in {"boot", "work", "close"}

(* What the dispatcher serves.                                             *)
Serving(o) == dmn.pc \in {"spawn", "lock"} /\ dmn.op = o

FrontTyped ==
    /\ dmn \in [pc : {"idle", "spawn", "lock"}, op : Ops \cup {Nobody}]
    /\ dmn.pc = "idle" <=> dmn.op = Nobody
    /\ child \in [Ops -> Points]
    /\ build \in Builds \cup {Nobody}
    /\ brk \in [pc : {"up", "going", "down"}, run : Inline \cup {Nobody}]

(* An op is answered for only after its child was spawned, and once.       *)
AnsweredOnce ==
    /\ \A o \in accepted : o \in Ops /\ child[o] # "none"
    /\ \A o \in Ops : Serving(o) => o \notin accepted
    /\ dmn.pc = "spawn" => child[dmn.op] = "none"
    /\ dmn.pc = "lock" => child[dmn.op] # "none"

(* A build that is active is the one of the lock, or its lock is about to  *)
(* be written, and then no other build is active.  OneBuild alone is not   *)
(* inductive: a child that boots is one step from working, and one that    *)
(* closes is about to unlink a lock whatever it names.                     *)
LockNames ==
    AllLocked =>
        /\ \A o \in Builds : Active(o) => build = o \/ Serving(o)
        /\ \A o, q \in Builds : Serving(o) /\ Active(q) => q = o

FrontInv ==
    /\ FrontTyped /\ AnsweredOnce /\ LockNames
    /\ brk.run # Nobody => old = Nobody

-----------------------------------------------------------------------------
(* Once a child works without a lock, it does so for good.                 *)
LEMMA LockedBefore ==
    ASSUME FrontTyped, AnsweredOnce, AnsweredOnce', AllLocked',
           \A o \in Ops : child[o] # "none" => child'[o] # "none",
           \A o \in Ops : o \in accepted' => o \in accepted \/ o = dmn.op,
           \A o \in Ops : o = dmn'.op => o = dmn.op \/ child[o] = "none"
    PROVE  AllLocked
BY DEF AllLocked

(* A step of the daemon that touches no child but by reaping.              *)
LEMMA ReapKeeps ==
    ASSUME FrontTyped, AnsweredOnce, LockNames,
           child' = child \/ child' = Reap(child),
           UNCHANGED <<build, accepted>>,
           UNCHANGED dmn \/ dmn' = [pc |-> "idle", op |-> Nobody]
    PROVE  /\ child' \in [Ops -> Points] /\ build' \in Builds \cup {Nobody}
           /\ AnsweredOnce' /\ LockNames'
<1> USE BuildAssumption DEF Ops
<1>1. /\ child' \in [Ops -> Points]
      /\ \A o \in Ops : /\ child[o] = "none" <=> child'[o] = "none"
                        /\ Active(o)' <=> Active(o)
  BY DEF FrontTyped, Points, Reap, Active
<1>2. \A o \in Ops : Serving(o)' => Serving(o)
  BY DEF Serving
<1>3. AnsweredOnce'
  BY <1>1, <1>2 DEF AnsweredOnce, FrontTyped, Serving
<1>4. ASSUME AllLocked' PROVE AllLocked
  BY <1>1, <1>3, <1>4, LockedBefore DEF FrontTyped
<1>5. ASSUME AllLocked', NEW o \in Builds, Serving(o), ~Serving(o)'
      PROVE  ~Active(o)
  BY <1>1, <1>5 DEF AllLocked, Serving, AnsweredOnce, FrontTyped, Active
<1>6. LockNames'
  BY <1>1, <1>2, <1>4, <1>5 DEF LockNames
<1> QED
  BY <1>1, <1>3, <1>6 DEF FrontTyped

(* A step of the dispatcher's, of one op.                                  *)
LEMMA DispatcherStep ==
    ASSUME FrontTyped, AnsweredOnce, LockNames,
           (\E o \in Ops : Request(o)) \/ Spawn \/ WriteLock \/ WriteLockFails
    PROVE  /\ dmn' \in [pc : {"idle", "spawn", "lock"}, op : Ops \cup {Nobody}]
           /\ dmn'.pc = "idle" <=> dmn'.op = Nobody
           /\ child' \in [Ops -> Points] /\ build' \in Builds \cup {Nobody}
           /\ AnsweredOnce' /\ LockNames'
<1> USE BuildAssumption DEF Ops, FrontTyped
<1>1. CASE \E o \in Ops : Request(o)
  <2>1. PICK o \in Ops : Request(o)
    BY <1>1
  <2>2. AnsweredOnce' /\ (AllLocked' => AllLocked)
    BY <2>1 DEF Request, AnsweredOnce, Serving, AllLocked
  <2>3. ASSUME AllLocked, o \in Builds, NEW q \in Builds, Active(q)
        PROVE  FALSE
    <3>1. build = q
      BY <2>1, <2>3 DEF LockNames, Serving, Request
    <3> QED
      BY <2>1, <2>3, <3>1 DEF Request, Busy, PidAlive, Running, Active
  <2>4. LockNames'
    BY <2>1, <2>2, <2>3 DEF Request, LockNames, Serving, Active
  <2> QED
    BY <2>1, <2>2, <2>4 DEF Request
<1>2. CASE Spawn
  <2>1. dmn.op \in Ops /\ child[dmn.op] = "none" /\ Serving(dmn.op)
    BY <1>2 DEF Spawn, AnsweredOnce, Serving
  <2>2. /\ child' \in [Ops -> Points]
        /\ \A o \in Ops : child[o] # "none" => child'[o] # "none"
        /\ \A o \in Ops \ {dmn.op} : Active(o)' <=> Active(o)
        /\ \A o \in Ops : Serving(o)' <=> Serving(o)
    BY <1>2 DEF Spawn, Reap, Points, Active, Serving
  <2>3. AnsweredOnce'
    BY <1>2, <2>1, <2>2 DEF Spawn, AnsweredOnce, Serving
  <2>4. AllLocked' => AllLocked
    BY <1>2, <2>2, <2>3, LockedBefore DEF Spawn
  <2>5. LockNames'
    BY <1>2, <2>1, <2>2, <2>4 DEF Spawn, LockNames, Serving
  <2> QED
    BY <1>2, <2>2, <2>3, <2>5 DEF Spawn
<1>3. CASE WriteLock
  <2>1. dmn.op \in Ops /\ Serving(dmn.op) /\ dmn' = [pc |-> "idle", op |-> Nobody]
    BY <1>3 DEF WriteLock, Serving, Answer
  <2>2. AnsweredOnce' /\ (AllLocked' => AllLocked)
    <3>1. AnsweredOnce'
      BY <1>3, <2>1 DEF WriteLock, AnsweredOnce, Serving
    <3>2. UNCHANGED child /\ accepted' = accepted \cup {dmn.op}
      BY <1>3 DEF WriteLock
    <3> QED
      BY <2>1, <3>1, <3>2, LockedBefore
  <2>3. LockNames'
    BY <1>3, <2>1, <2>2 DEF WriteLock, LockNames, Serving, Active
  <2> QED
    BY <1>3, <2>1, <2>2, <2>3 DEF WriteLock
<1>4. CASE WriteLockFails
  BY <1>4, ReapKeeps DEF WriteLockFails, Answer
<1> QED
  BY <1>1, <1>2, <1>3, <1>4

(* A step of a child, or its death.                                        *)
LEMMA ChildMoves ==
    ASSUME FrontTyped, AnsweredOnce, LockNames,
           NEW o \in Ops, ChildStep(o) \/ Killed(o)
    PROVE  /\ dmn' = dmn
           /\ child' \in [Ops -> Points] /\ build' \in Builds \cup {Nobody}
           /\ AnsweredOnce' /\ LockNames'
<1> USE BuildAssumption DEF Ops, FrontTyped
<1>1. /\ UNCHANGED <<dmn, accepted>> /\ child' \in [Ops -> Points]
      /\ \A q \in Ops : child[q] = "none" <=> child'[q] = "none"
      /\ \A q \in Ops : Active(q)' => Active(q)
      /\ build' = build
            \/ (build' = Nobody /\ o \in Builds /\ Active(o) /\ ~Active(o)')
  BY DEF ChildStep, OpenLog, OpenLogFails, Finish, Close, Exit, Killed, Go,
         Release, Points, Active, Running
<1>2. AnsweredOnce'
  BY <1>1 DEF AnsweredOnce, Serving
<1>3. AllLocked' => AllLocked
  BY <1>1 DEF AllLocked
<1>4. LockNames'
  BY <1>1, <1>3 DEF LockNames, Serving
<1> QED
  BY <1>1, <1>2, <1>4

(* The invariant holds in every state.                                     *)
THEOREM FrontInvariant == Spec => []FrontInv
<1>1. ASSUME FrontInit PROVE FrontInv
  <2>1. FrontTyped
    BY <1>1, BuildAssumption
       DEF FrontInit, LanesInit, FrontTyped, Points, Ops
  <2>2. AnsweredOnce /\ LockNames
    BY <1>1, BuildAssumption
       DEF FrontInit, LanesInit, AnsweredOnce, LockNames, Serving, Active, Ops
  <2> QED
    BY <1>1, <2>1, <2>2 DEF FrontInit, FrontInv
<1>2. FrontInv /\ [Next]_vars => FrontInv'
  <2> SUFFICES ASSUME FrontInv, [Next]_vars PROVE FrontInv'
    OBVIOUS
  <2> USE DEF FrontInv, FrontTyped
  <2>1. ASSUME UNCHANGED <<lanes, brk, old>>
        PROVE  FrontInv'
    BY <2>1 DEF lanes, AnsweredOnce, LockNames, AllLocked, Serving, Active
  <2>2. ASSUME (\E o \in Ops : Accept(o)) \/ SpawnOp \/ LockOp \/ LockOpFails
        PROVE  FrontInv'
    <3>1. UNCHANGED <<brk, old>>
      BY <2>2 DEF Accept, SpawnOp, LockOp, LockOpFails, front
    <3> QED
      BY <2>2, <3>1, DispatcherStep DEF Accept, SpawnOp, LockOp, LockOpFails
  <2>3. ASSUME NEW o \in Ops, Lane(o) \/ LaneKilled(o)
        PROVE  FrontInv'
    BY <2>3, ChildMoves DEF Lane, LaneKilled, front
  <2>4. ASSUME OtherCall \/ StopDone \/ Crash \/ \E o \in All : Begin(o)
        PROVE  FrontInv'
    <3>1. /\ child' \in [Ops -> Points] /\ build' \in Builds \cup {Nobody}
          /\ AnsweredOnce' /\ LockNames'
      BY <2>4, ReapKeeps
         DEF OtherCall, OtherVerb, StopDone, Crash, Begin
    <3>2. /\ UNCHANGED dmn \/ dmn' = [pc |-> "idle", op |-> Nobody]
          /\ brk' \in [pc : {"up", "going", "down"}, run : Inline \cup {Nobody}]
          /\ brk'.run # Nobody => old' = Nobody
      BY <2>4 DEF OtherCall, OtherVerb, StopDone, Crash, Begin, Down, front
    <3> QED
      BY <3>1, <3>2
  <2>5. ASSUME UNCHANGED lanes,
               \/ End \/ Stop \/ StopGivesUp \/ OldEnds \/ Start
        PROVE  FrontInv'
    <3>1. /\ brk' \in [pc : {"up", "going", "down"}, run : Inline \cup {Nobody}]
          /\ brk'.run # Nobody => old' = Nobody
      BY <2>5 DEF End, Stop, StopGivesUp, OldEnds, Start, Down
    <3> QED
      BY <2>5, <3>1 DEF lanes, AnsweredOnce, LockNames, AllLocked, Serving,
                        Active
  <2>6. CASE Next
    <3>1. CASE \E o \in All : Refuse(o) \/ GiveUp(o) \/ Look(o)
      BY <2>1, <3>1
      DEF Refuse, GiveUp, Look, Poll, Probe, LastLook, LastFails, Turn
    <3>2. CASE WebRestarts \/ Login \/ Logout
               \/ (\E o \in Inline : FireInline(o))
               \/ (\E o \in Ops : FireLane(o))
      BY <2>1, <3>2 DEF WebRestarts, Login, Logout, FireInline, FireLane, Send
    <3>3. CASE \E o \in All : Accept(o)
      BY <2>2, <3>3 DEF Accept
    <3>4. CASE SpawnOp \/ LockOp \/ LockOpFails
      BY <2>2, <3>4
    <3>5. CASE \E o \in Ops : Lane(o) \/ LaneKilled(o)
      BY <2>3, <3>5
    <3>6. CASE OtherCall \/ StopDone \/ Crash \/ \E o \in All : Begin(o)
      BY <2>4, <3>6
    <3>7. CASE End \/ Stop \/ StopGivesUp \/ OldEnds \/ Start
      BY <2>5, <3>7 DEF End, Stop, StopGivesUp, OldEnds, Start
    <3> QED
      BY <2>6, <3>1, <3>2, <3>3, <3>4, <3>5, <3>6, <3>7
         DEF Next, Progress, Serve
  <2>7. CASE UNCHANGED vars
    BY <2>1, <2>7 DEF vars, front
  <2> QED
    BY <2>6, <2>7
<1> QED
  BY <1>1, <1>2, PTL DEF Spec

(* One project action of the daemon at a time, and one build, named by its *)
(* lock.                                                                   *)
THEOREM OneRuns == Spec => []OneAtATime
<1>1. FrontInv => OneAtATime
  <2> SUFFICES ASSUME FrontInv, AllLocked, NEW o \in Builds, child[o] = "work"
               PROVE  /\ \A q \in Builds : child[q] = "work" => q = o
                      /\ o \in accepted => OpAlive(o) /\ AgentBuildRuns
    BY DEF FrontInv, OneAtATime, OneBuild
  <2>1. \A q \in Builds : child[q] = "work" => Active(q)
    BY DEF Active
  <2>2. \A q \in Builds : child[q] = "work" => q = o
    BY <2>1 DEF FrontInv, LockNames
  <2>3. o \in accepted => build = o
    BY <2>1, BuildAssumption DEF FrontInv, LockNames, AnsweredOnce, Ops
  <2> QED
    BY <2>2, <2>3, BuildAssumption
       DEF OpAlive, AgentBuildRuns, PidAlive, Running, Ops
<1> QED
  BY <1>1, FrontInvariant, PTL

-----------------------------------------------------------------------------
(* What the page says                                                      *)

CallStates == {"none", "queued", "orphan", "done"}
RunStates  == {"none", "running", "lost"} \cup Ends
PageStates == {"none"} \cup Waiting \cup Shown
Late       == {"exit", "zombie", "reaped"}

ToldTyped ==
    /\ log \in [Ops -> Records] /\ rec \in [Inline -> Records]
    /\ req \in [All -> CallStates] /\ page \in [All -> PageStates]
    /\ run \in [Inline -> RunStates]
    /\ own \subseteq Parallel /\ old \in Inline \cup {Nobody}

(* A lane op is on record only once its verb has ended; who is answered    *)
(* for is tailed; what was found not alive is past its work; and a call    *)
(* still to be served, or turned away, has no child.                       *)
LaneTold(o) ==
    /\ child[o] \in {"none", "boot", "work"} => log[o] = "none"
    /\ page[o] = "ok" => log[o] = "done"
    /\ page[o] = "failed" => log[o] = "failed"
    /\ page[o] \in {"poll", "probe", "last", "gone"} => o \in accepted
    /\ o \in Parallel /\ o \in accepted /\ Active(o) => o \in own
    /\ AllLocked /\ page[o] \in {"last", "gone"} => child[o] \in Late
    /\ AllLocked /\ page[o] = "gone" => log[o] = "none"
    /\ page[o] = "refused" =>
          req[o] = "done" /\ child[o] = "none" /\ ~Serving(o)
    /\ req[o] \in {"queued", "orphan"} /\ ~Serving(o) => child[o] = "none"
    /\ page[o] = "none" =>
          req[o] = "none" /\ child[o] = "none" /\ ~Serving(o)

(* An inline op is on record only once it was answered for, and until then *)
(* it is a daemon's to run.                                                *)
InlineTold(o) ==
    /\ "ok" \in {page[o], run[o]} => rec[o] = "done"
    /\ "failed" \in {page[o], run[o]} => rec[o] = "failed"
    /\ "refused" \in {page[o], run[o]} => rec[o] = "none" /\ req[o] = "done"
    /\ rec[o] # "none" => req[o] = "done"
    /\ o \in {brk.run, old} => req[o] \in {"queued", "orphan"}
    /\ page[o] = "none" => req[o] = "none"
    /\ page[o] \notin {"post", "probe", "last"}

ToldInv ==
    /\ ToldTyped
    /\ \A o \in Ops : LaneTold(o)
    /\ \A o \in Inline : InlineTold(o)

(* A step that says nothing new of a lane op.                              *)
Untold(o) ==
    /\ \/ child'[o] = child[o]
       \/ child[o] = "zombie" /\ child'[o] = "reaped"
    /\ log'[o] = log[o]
    /\ o \in accepted' <=> o \in accepted
    /\ o \in own' <=> o \in own
    /\ Serving(o)' => Serving(o)
    /\ \/ /\ req'[o] = req[o] \/ (req[o] = "queued" /\ req'[o] = "orphan")
          /\ req[o] \in {"queued", "orphan"} /\ Serving(o) => Serving(o)'
       \/ req'[o] = "done" /\ page[o] # "none"
    /\ \/ page'[o] = page[o] \/ page'[o] \in {"unreach", "away", "blind"}
       \/ page[o] \in {"poll", "probe"} /\ page'[o] \in {"poll", "probe"}

LEMMA LaneUntold ==
    ASSUME NEW o \in Ops, LaneTold(o), AllLocked' => AllLocked, Untold(o)
    PROVE  LaneTold(o)'
<1>1. Active(o)' <=> Active(o)
  BY DEF Untold, Active
<1> QED BY <1>1 DEF LaneTold, Untold, Late

(* A step that says nothing new of an inline op.                           *)
InlineUntold(o) ==
    /\ rec'[o] = rec[o]
    /\ \/ req'[o] = req[o]
       \/ req[o] \in {"queued", "orphan"} /\ req'[o] \in {"orphan", "done"}
    /\ page'[o] = page[o] \/ page'[o] \in {"poll", "away"}
    /\ run'[o] = run[o] \/ run'[o] \in {"unreach", "lost"}
    /\ o \in {brk'.run, old'} => req'[o] \in {"queued", "orphan"}

LEMMA InlineKept ==
    ASSUME NEW o \in Inline, InlineTold(o), InlineUntold(o)
    PROVE  InlineTold(o)'
BY DEF InlineTold, InlineUntold

(* Who is answered, and what the clients that still wait are told.         *)
LEMMA AnswerIs ==
    ASSUME ToldTyped, NEW ops, NEW what, Answered(ops, what),
           what \in Ends \/ (what = "poll" /\ ops \cap Inline = {})
    PROVE  /\ req' \in [All -> CallStates] /\ page' \in [All -> PageStates]
           /\ run' \in [Inline -> RunStates]
           /\ \A o \in All : req'[o] = IF o \in ops THEN "done" ELSE req[o]
           /\ \A o \in Ops : page'[o] =
                 IF o \in ops /\ req[o] = "queued" THEN what ELSE page[o]
           /\ \A o \in Inline : /\ page'[o] = page[o]
                                /\ run'[o] = IF o \in ops /\ req[o] = "queued"
                                             THEN what ELSE run[o]
<1>1. Inline \cap Ops = {} /\ Inline \subseteq All /\ Ops \subseteq All
  BY FrontAssumption DEF All
<1>2. /\ req' = [o \in All |-> IF o \in ops THEN "done" ELSE req[o]]
      /\ run' = [o \in Inline |-> IF o \in {q \in ops : req[q] = "queued"}
                                  THEN what ELSE run[o]]
      /\ page' = [o \in All |-> IF o \in {q \in ops : req[q] = "queued"} \ Inline
                                THEN what ELSE page[o]]
  BY DEF Answered, Tell, Noted, Replied
<1>3. what \in PageStates /\ (ops \cap Inline # {} => what \in RunStates)
  BY DEF PageStates, RunStates, Ends, Waiting, Shown
<1> QED BY <1>1, <1>2, <1>3 DEF ToldTyped, CallStates

(* Once a child works without a lock, it does so for good.                 *)
LEMMA LockedNever ==
    ASSUME FrontInv, FrontInv', [Next]_vars, AllLocked'
    PROVE  AllLocked
<1>0. FrontTyped /\ AnsweredOnce /\ AnsweredOnce'
  BY DEF FrontInv
<1>1. CASE UNCHANGED lanes
  BY <1>1 DEF lanes, AllLocked
<1>2. CASE /\ UNCHANGED accepted
           /\ child' = child \/ child' = Reap(child)
           /\ UNCHANGED dmn \/ dmn' = [pc |-> "idle", op |-> Nobody]
  <2>1. \A o \in Ops : child[o] # "none" => child'[o] # "none"
    BY <1>2 DEF Reap
  <2>2. \A o \in Ops : o = dmn'.op => o = dmn.op
    BY <1>2, BuildAssumption
  <2> QED BY <1>0, <1>2, <2>1, <2>2, LockedBefore
<1>3. CASE \E o \in Ops : Request(o)
  BY <1>0, <1>3, LockedBefore DEF Request
<1>4. CASE Spawn
  <2>1. \A o \in Ops : child[o] # "none" => child'[o] # "none"
    BY <1>0, <1>4 DEF Spawn, Reap, FrontTyped
  <2>2. dmn'.op = dmn.op /\ UNCHANGED accepted
    BY <1>0, <1>4 DEF Spawn, FrontTyped
  <2> QED BY <1>0, <2>1, <2>2, LockedBefore
<1>5. CASE WriteLock
  <2>1. /\ UNCHANGED child /\ accepted' = accepted \cup {dmn.op}
        /\ dmn' = [pc |-> "idle", op |-> Nobody]
    BY <1>5 DEF WriteLock, Answer
  <2> QED BY <1>0, <2>1, LockedBefore, BuildAssumption
<1>6. ASSUME NEW q \in Ops, ChildStep(q) \/ Killed(q) PROVE AllLocked
  <2>1. PICK to : /\ child' = [child EXCEPT ![q] = to] /\ to # "none"
                  /\ UNCHANGED <<dmn, accepted>>
    BY <1>6 DEF ChildStep, OpenLog, OpenLogFails, Finish, Close, Exit, Killed, Go
  <2>2. \A o \in Ops : child[o] # "none" => child'[o] # "none"
    BY <1>0, <2>1 DEF FrontTyped
  <2> QED BY <1>0, <2>1, <2>2, LockedBefore
<1>7. CASE Next
  <2>1. CASE \/ (\E o \in All : Refuse(o) \/ GiveUp(o) \/ Look(o))
             \/ (\E o \in Inline : FireInline(o)) \/ (\E o \in Ops : FireLane(o))
             \/ WebRestarts \/ Login \/ Logout
             \/ End \/ Stop \/ StopGivesUp \/ OldEnds \/ Start
    BY <1>1, <2>1
    DEF Refuse, GiveUp, Look, Poll, Probe, LastLook, LastFails, Turn,
                      FireInline, FireLane, Send, WebRestarts, Login, Logout,
                      End, Stop, StopGivesUp, OldEnds, Start
  <2>2. CASE \/ OtherCall \/ StopDone \/ Crash \/ LockOpFails
             \/ \E o \in All : Begin(o)
    BY <1>2, <2>2 DEF OtherCall, OtherVerb, StopDone, Crash, LockOpFails,
                      WriteLockFails, Answer, Begin
  <2>3. CASE (\E o \in All : Accept(o)) \/ SpawnOp \/ LockOp
    BY <1>3, <1>4, <1>5, <2>3 DEF Accept, SpawnOp, LockOp
  <2>4. CASE \E o \in Ops : Lane(o) \/ LaneKilled(o)
    BY <1>6, <2>4 DEF Lane, LaneKilled
  <2> QED BY <1>7, <2>1, <2>2, <2>3, <2>4 DEF Next, Progress, Serve
<1>8. CASE UNCHANGED vars
  BY <1>1, <1>8 DEF vars
<1> QED BY <1>7, <1>8

(* What is found not alive is past its work.                               *)
LEMMA NotAlive ==
    ASSUME FrontInv, AllLocked, NEW o \in Ops, LaneTold(o), o \in accepted,
           ~OpAlive(o)
    PROVE  child[o] \in Late
<1>1. child[o] \in Points \ {"none"} /\ ~Serving(o)
  BY DEF FrontInv, FrontTyped, AnsweredOnce
<1>2. ~Active(o)
  <2> SUFFICES ASSUME Active(o) PROVE OpAlive(o)
    OBVIOUS
  <2>1. build = o \/ o \in own
    BY <1>1 DEF FrontInv, LockNames, LaneTold, Ops
  <2> QED BY <2>1 DEF OpAlive, PidAlive, Running, Active
<1> QED BY <1>1, <1>2 DEF Active, Points, Late

(* Every step keeps what is said of the lane ops.                          *)
LEMMA LaneStep ==
    ASSUME FrontInv, FrontInv', ToldInv, [Next]_vars, NEW o \in Ops
    PROVE  LaneTold(o)'
<1>0. /\ LaneTold(o) /\ ToldTyped /\ FrontTyped /\ AnsweredOnce
      /\ AllLocked' => AllLocked
      /\ o \in All /\ o \notin Inline /\ o # Nobody
  BY LockedNever, FrontAssumption, BuildAssumption
     DEF ToldInv, FrontInv, All, Ops
<1>1. ASSUME Untold(o) PROVE LaneTold(o)'
  BY <1>0, <1>1, LaneUntold
<1> DEFINE Still == UNCHANGED <<dmn, child, own, accepted, log>>
<1>2. ASSUME Still, req'[o] = req[o],
             \/ page'[o] = page[o]
             \/ page'[o] \in {"unreach", "away", "blind"}
             \/ page[o] \in {"poll", "probe"} /\ page'[o] \in {"poll", "probe"}
      PROVE  LaneTold(o)'
  BY <1>1, <1>2 DEF Untold, Serving
<1>3. CASE Stop \/ Start \/ Login \/ Logout \/ UNCHANGED vars
  BY <1>2, <1>3 DEF Stop, Start, Login, Logout, lanes, vars, front
<1>4. ASSUME NEW q \in Inline, FireInline(q) PROVE LaneTold(o)'
  BY <1>0, <1>2, <1>4 DEF FireInline, Send, ToldTyped, lanes
<1>5. ASSUME NEW q \in Ops, FireLane(q) PROVE LaneTold(o)'
  <2>1. /\ Still /\ page[q] = "none" /\ q \in All
        /\ \E to \in {"queued", "done"} : req' = [req EXCEPT ![q] = to]
        /\ \E to \in {"post", "unreach"} : page' = [page EXCEPT ![q] = to]
    BY <1>5 DEF FireLane, Send, lanes, All
  <2>2. CASE o # q
    BY <1>0, <1>2, <2>1, <2>2 DEF ToldTyped
  <2>3. CASE o = q
    <3>1. req'[o] \in {"queued", "done"} /\ page'[o] \in {"post", "unreach"}
      BY <1>0, <2>1, <2>3 DEF ToldTyped
    <3>2. child[o] = "none" /\ ~Serving(o) /\ (Serving(o)' <=> Serving(o))
      BY <1>0, <2>1, <2>3 DEF LaneTold, Serving
    <3> QED BY <1>0, <2>1, <3>1, <3>2 DEF LaneTold, Active
  <2> QED BY <2>2, <2>3
<1>6. ASSUME NEW q \in All, GiveUp(q) PROVE LaneTold(o)'
  <2>1. /\ Still /\ req[q] = "queued" /\ req' = [req EXCEPT ![q] = "orphan"]
        /\ page'[o] \in {page[o], "unreach"}
    BY <1>0, <1>6 DEF GiveUp, Tell, Replied, lanes
  <2>2. req'[o] = req[o] \/ (req[o] = "queued" /\ req'[o] = "orphan")
    BY <1>0, <2>1 DEF ToldTyped
  <2> QED BY <1>1, <2>1, <2>2 DEF Untold, Serving
<1>7. CASE WebRestarts
  <2>1. /\ Still /\ page'[o] \in {page[o], "unreach"}
        /\ req'[o] = req[o] \/ (req[o] = "queued" /\ req'[o] = "orphan")
    BY <1>0, <1>7 DEF WebRestarts, lanes
  <2> QED BY <1>1, <2>1 DEF Untold, Serving
<1>8. ASSUME NEW q \in All, Refuse(q) PROVE LaneTold(o)'
  <2>1. /\ Still /\ dmn.pc = "idle" /\ q \in Calls
        /\ req'[o] = IF o = q THEN "done" ELSE req[o]
        /\ page'[o] = IF o = q /\ req[o] = "queued" THEN "refused" ELSE page[o]
    BY <1>0, <1>8, AnswerIs DEF Refuse, Free, Pending, lanes, Ends
  <2>2. CASE o # q
    BY <1>2, <2>1, <2>2
  <2>3. CASE o = q
    <3>1. /\ req[o] \in {"queued", "orphan"} /\ ~Serving(o)
          /\ Serving(o)' <=> Serving(o)
      BY <2>1, <2>3 DEF Calls, Serving
    <3>2. child[o] = "none"
      BY <1>0, <3>1 DEF LaneTold
    <3> QED BY <1>0, <2>1, <2>3, <3>1, <3>2 DEF LaneTold, Active, Late
  <2> QED BY <2>2, <2>3
<1>9. ASSUME NEW q \in All, Accept(q) PROVE LaneTold(o)'
  <2>1. /\ UNCHANGED <<child, own, accepted, log, req, page>>
        /\ dmn.pc = "idle" /\ dmn' = [pc |-> "spawn", op |-> q] /\ q \in Calls
    BY <1>9 DEF Accept, Request, Pending, front
  <2>2. ~Serving(o) /\ (Serving(o)' <=> o = q) /\ (Active(o)' <=> Active(o))
    BY <2>1 DEF Serving, Active
  <2>3. o = q => req[o] \in {"queued", "orphan"}
    BY <2>1 DEF Calls
  <2> QED BY <1>0, <2>1, <2>2, <2>3 DEF LaneTold
<1>10. CASE SpawnOp
  <2>1. /\ UNCHANGED <<own, accepted, log, req, page>>
        /\ dmn.pc = "spawn" /\ Serving(dmn.op) /\ child[dmn.op] = "none"
        /\ child' = [Reap(child) EXCEPT ![dmn.op] = "boot"]
        /\ Serving(o)' <=> Serving(o)
    BY <1>0, <1>10
       DEF SpawnOp, Spawn, front, Serving, AnsweredOnce, FrontTyped
  <2>2. CASE o = dmn.op
    <3>1. child'[o] = "boot" /\ o \notin accepted
      BY <1>0, <2>1, <2>2 DEF Reap, AnsweredOnce
    <3> QED BY <1>0, <2>1, <2>2, <3>1 DEF LaneTold
  <2>3. CASE o # dmn.op
    <3>1. child'[o] = Reap(child)[o]
      BY <2>1, <2>3 DEF Reap
    <3> QED BY <1>1, <2>1, <3>1 DEF Untold, Reap
  <2> QED BY <2>2, <2>3
<1>11. CASE LockOp
  <2>1. /\ UNCHANGED <<child, log>> /\ accepted' = accepted \cup {dmn.op}
        /\ own' = IF dmn.op \in Builds THEN own ELSE own \cup {dmn.op}
        /\ dmn.pc = "lock" /\ dmn.op \in Ops
        /\ dmn' = [pc |-> "idle", op |-> Nobody]
    BY <1>0, <1>11 DEF LockOp, WriteLock, Answer, FrontTyped
  <2>2. {dmn.op} \cap Inline = {}
    BY <2>1, FrontAssumption
  <2>3. /\ req'[o] = IF o = dmn.op THEN "done" ELSE req[o]
        /\ page'[o] = IF o = dmn.op /\ req[o] = "queued" THEN "poll" ELSE page[o]
    BY <1>0, <1>11, <2>2, AnswerIs DEF LockOp
  <2>4. ~Serving(o)' /\ (Serving(o) <=> o = dmn.op) /\ (Active(o)' <=> Active(o))
    BY <2>1 DEF Serving, Active
  <2>5. CASE o = dmn.op
    <3>1. o \notin accepted
      BY <1>0, <2>4, <2>5 DEF AnsweredOnce
    <3>2. o \in Parallel => o \in own'
      BY <2>1, <2>5, BuildAssumption
    <3> QED BY <1>0, <2>1, <2>3, <2>4, <2>5, <3>1, <3>2 DEF LaneTold
  <2>6. CASE o # dmn.op
    BY <1>1, <2>1, <2>3, <2>4, <2>6 DEF Untold
  <2> QED BY <2>5, <2>6
<1>12. CASE LockOpFails
  <2>1. /\ UNCHANGED <<child, log, accepted, own>> /\ dmn.pc = "lock"
        /\ dmn' = [pc |-> "idle", op |-> Nobody]
    BY <1>12 DEF LockOpFails, WriteLockFails, Answer
  <2>2. /\ req'[o] = IF o = dmn.op THEN "done" ELSE req[o]
        /\ page'[o] \in {page[o], "unreach"}
    BY <1>0, <1>12, AnswerIs DEF LockOpFails, Ends
  <2>3. ~Serving(o)' /\ (Serving(o) <=> o = dmn.op)
    BY <2>1 DEF Serving
  <2>4. Serving(o) => page[o] # "none"
    BY <1>0 DEF LaneTold
  <2> QED BY <1>1, <2>1, <2>2, <2>3, <2>4 DEF Untold
<1>13. CASE OtherCall \/ \E q \in All : Begin(q)
  <2>1. /\ UNCHANGED <<dmn, own, accepted, log, req, page>>
        /\ child' = Reap(child)
    BY <1>13 DEF OtherCall, OtherVerb, Begin, front
  <2> QED BY <1>1, <2>1 DEF Untold, Reap, Serving
<1>14. CASE End \/ OldEnds
  <2>1. PICK q \in Inline, what \in Ends : Answered({q}, what)
    <3>1. CASE End
      BY <1>0, <3>1 DEF End, Served, Raised, FrontTyped, Ends
    <3>2. CASE OldEnds
      BY <1>0, <3>2 DEF OldEnds, Served, ToldTyped, Ends
    <3> QED BY <1>14, <3>1, <3>2
  <2>2. req'[o] = req[o] /\ page'[o] = page[o]
    BY <1>0, <2>1, AnswerIs
  <2>3. Still
    BY <1>14 DEF End, OldEnds, lanes
  <2> QED BY <1>2, <2>2, <2>3
<1>15. CASE StopDone \/ StopGivesUp \/ Crash
  <2>1. PICK kept : Down(kept) /\ (kept = {old} \/ kept = {brk.run})
    BY <1>15 DEF StopDone, StopGivesUp, Crash
  <2>2. o \notin kept
    BY <1>0, <2>1 DEF FrontTyped, ToldTyped
  <2>3. /\ req'[o] = IF o \in Calls THEN "done" ELSE req[o]
        /\ page'[o] \in {page[o], "unreach"}
    BY <1>0, <2>1, <2>2, AnswerIs DEF Down, Ends
  <2>4. req[o] \in {"queued", "orphan"} <=> o \in Calls
    BY <1>0 DEF Calls
  <2>5. req[o] \in {"queued", "orphan"} => page[o] # "none"
    BY <1>0 DEF LaneTold
  <2>6. /\ UNCHANGED <<own, accepted, log>>
        /\ child' = child \/ child' = Reap(child)
        /\ dmn' = dmn \/ dmn' = [pc |-> "idle", op |-> Nobody]
    BY <1>15 DEF StopDone, StopGivesUp, Crash, lanes
  <2>7. Serving(o)' => Serving(o)
    BY <2>6 DEF Serving
  <2> QED BY <1>1, <2>3, <2>4, <2>5, <2>6, <2>7 DEF Untold, Reap
<1>16. ASSUME NEW q \in All, Look(q), q # o PROVE LaneTold(o)'
  <2>1. UNCHANGED <<lanes, req>> /\ \E to : page' = [page EXCEPT ![q] = to]
    BY <1>16 DEF Look, Poll, Probe, LastLook, LastFails, Turn
  <2> QED BY <1>0, <1>2, <1>16, <2>1 DEF lanes, ToldTyped
<1>17. CASE Look(o)
  <2>1. Still /\ UNCHANGED req
    BY <1>17 DEF Look, Poll, Probe, LastLook, LastFails, Turn, lanes
  <2>2. ASSUME NEW to, Turn(o, to) PROVE page'[o] = to
    BY <1>0, <2>2 DEF Turn, ToldTyped
  <2>3. /\ Serving(o)' <=> Serving(o)
        /\ Active(o)' <=> Active(o)
    BY <2>1 DEF Serving, Active
  <2>4. ASSUME page[o] \in {"poll", "last"}, log[o] # "none",
               Turn(o, ByRecord(log[o]))
        PROVE  LaneTold(o)'
    <3>1. page'[o] = IF log[o] = "done" THEN "ok" ELSE "failed"
      BY <2>2, <2>4 DEF ByRecord
    <3>2. log[o] \in {"done", "failed"}
      BY <1>0, <2>4 DEF ToldTyped, Records
    <3> QED BY <1>0, <2>1, <2>3, <2>4, <3>1, <3>2 DEF LaneTold
  <2>5. CASE Poll(o)
    <3>1. CASE Turn(o, "away") \/ Turn(o, "probe")
      BY <1>2, <2>1, <2>2, <2>5, <3>1 DEF Poll
    <3>2. CASE log[o] # "none" /\ Turn(o, ByRecord(log[o]))
      BY <2>4, <2>5, <3>2 DEF Poll
    <3> QED BY <1>0, <2>5, <3>1, <3>2 DEF Poll
  <2>6. CASE Probe(o)
    <3>1. page[o] = "probe" /\ o \in accepted
      BY <1>0, <2>6 DEF Probe, LaneTold
    <3>2. CASE Turn(o, "poll")
      BY <1>2, <2>1, <2>2, <3>1, <3>2
    <3>3. CASE Turn(o, "last") /\ ~OpAlive(o)
      <4>1. page'[o] = "last"
        BY <2>2, <3>3
      <4>2. AllLocked => child[o] \in Late
        BY <1>0, <3>1, <3>3, NotAlive
      <4> QED BY <1>0, <2>1, <2>3, <3>1, <4>1, <4>2 DEF LaneTold
    <3> QED BY <2>6, <3>2, <3>3 DEF Probe
  <2>7. CASE LastLook(o)
    <3>1. CASE log[o] # "none" /\ Turn(o, ByRecord(log[o]))
      BY <2>4, <2>7, <3>1 DEF LastLook
    <3>2. CASE log[o] = "none" /\ Turn(o, "gone")
      <4>1. page'[o] = "gone" /\ page[o] = "last"
        BY <2>2, <2>7, <3>2 DEF LastLook
      <4> QED BY <1>0, <2>1, <2>3, <3>2, <4>1 DEF LaneTold
    <3> QED BY <2>7, <3>1, <3>2 DEF LastLook
  <2>8. CASE LastFails(o)
    BY <1>2, <2>1, <2>2, <2>8 DEF LastFails
  <2> QED BY <1>17, <2>5, <2>6, <2>7, <2>8 DEF Look
<1>18. ASSUME NEW q \in Ops, Lane(q) \/ LaneKilled(q) PROVE LaneTold(o)'
  <2>1. /\ UNCHANGED <<dmn, accepted, req, page>>
        /\ Serving(o)' <=> Serving(o)
    BY <1>18 DEF Lane, LaneKilled, ChildStep, OpenLog, OpenLogFails, Finish,
                 Close, Exit, Killed, Go, front, Serving
  <2>2. PICK to \in Points :
           /\ child' = [child EXCEPT ![q] = to]
           /\ \/ child[q] = "boot" /\ to \in {"work", "exit"}
              \/ child[q] = "work" /\ to = "close"
              \/ child[q] = "close" /\ to = "exit"
              \/ Running(q) /\ to = "zombie"
           /\ \/ log' = log
              \/ /\ child[q] = "work" /\ to = "close"
                 /\ \E record \in Records : log' = [log EXCEPT ![q] = record]
           /\ own' = own \/ (own' = own \ {q} /\ to = "exit")
    BY <1>18 DEF Lane, LaneKilled, ChildStep, OpenLog, OpenLogFails, Finish,
                 Close, Exit, Killed, Go, Release, Points, Running
  <2>3. CASE o # q
    <3>1. /\ child'[o] = child[o] /\ log'[o] = log[o]
          /\ o \in own' <=> o \in own
      BY <1>0, <2>2, <2>3 DEF FrontTyped, ToldTyped
    <3> QED BY <1>1, <2>1, <3>1 DEF Untold
  <2>4. CASE o = q
    <3>1. child'[o] = to /\ child[o] # "none"
      BY <1>0, <2>2, <2>4 DEF FrontTyped, Running
    <3>2. /\ to \in {"work", "close", "exit", "zombie"}
          /\ to = "work" => child[o] = "boot"
          /\ child[o] \in Late => to \in Late
          /\ to \in {"work", "close"} => Active(o)
      BY <2>2, <2>4 DEF Running, Active, Late
    <3>3. log'[o] = log[o] \/ child[o] = "work"
      BY <2>2, <2>4
    <3>4. Active(o)' => Active(o) /\ own' = own
      BY <2>2, <3>1, <3>2 DEF Active
    <3>5. child[o] = "work" => log[o] = "none" /\ page[o] \notin {"ok", "failed"}
      BY <1>0 DEF LaneTold
    <3>6. to = "work" => log'[o] = "none"
      BY <1>0, <2>2, <2>4, <3>2 DEF LaneTold
    <3> QED
      BY <1>0, <2>1, <3>1, <3>2, <3>3, <3>4, <3>5, <3>6 DEF LaneTold, Late
  <2> QED BY <2>3, <2>4
<1>19. ASSUME NEW q \in All, Look(q) PROVE LaneTold(o)'
  BY <1>16, <1>17, <1>19
<1> QED
  BY <1>3, <1>4, <1>5, <1>6, <1>7, <1>8, <1>9, <1>10, <1>11, <1>12, <1>13,
     <1>14, <1>15, <1>18, <1>19
     DEF Next, Progress, Serve

(* And of the inline ops.                                                  *)
LEMMA InlineStep ==
    ASSUME FrontInv, ToldInv, [Next]_vars, NEW o \in Inline
    PROVE  InlineTold(o)'
<1>0. /\ InlineTold(o) /\ ToldTyped /\ FrontTyped
      /\ brk.run # Nobody => old = Nobody
      /\ o \in All /\ o \notin Ops /\ o # Nobody
  BY FrontAssumption DEF ToldInv, FrontInv, All
<1>1. ASSUME InlineUntold(o) PROVE InlineTold(o)'
  BY <1>0, <1>1, InlineKept
<1>2. ASSUME rec'[o] = rec[o], req'[o] = req[o], run'[o] = run[o],
             page'[o] = page[o] \/ page'[o] = "away",
             brk'.run = brk.run, old' = old
      PROVE  InlineTold(o)'
  BY <1>0, <1>1, <1>2 DEF InlineUntold, InlineTold
<1>3. CASE \/ Stop \/ Start \/ Login \/ Logout \/ OtherCall \/ SpawnOp
           \/ (\E q \in All : Accept(q))
           \/ (\E q \in Ops : Lane(q) \/ LaneKilled(q)) \/ UNCHANGED vars
  <2>1. UNCHANGED <<rec, req, run, page, old>> /\ brk'.run = brk.run
    BY <1>0, <1>3 DEF Stop, Start, Login, Logout, OtherCall, SpawnOp, Accept,
                      Lane, LaneKilled, vars, front, FrontTyped
  <2> QED BY <1>2, <2>1
<1>4. ASSUME NEW q \in Inline, FireInline(q) PROVE InlineTold(o)'
  <2>1. /\ UNCHANGED <<rec, brk, old>> /\ page[q] = "none"
        /\ \E to \in {"queued", "done"} : req' = [req EXCEPT ![q] = to]
        /\ \E to \in {"running", "unreach"} : run' = [run EXCEPT ![q] = to]
        /\ page' = [page EXCEPT ![q] = "poll"]
    BY <1>4 DEF FireInline, Send
  <2>2. CASE o # q
    BY <1>0, <1>2, <2>1, <2>2 DEF ToldTyped
  <2>3. CASE o = q
    <3>1. /\ req'[o] \in {"queued", "done"} /\ page'[o] = "poll"
          /\ run'[o] \in {"running", "unreach"}
      BY <1>0, <2>1, <2>3 DEF ToldTyped
    <3>2. req[o] = "none" /\ rec[o] = "none" /\ o \notin {brk.run, old}
      BY <1>0, <2>1, <2>3 DEF InlineTold
    <3> QED BY <1>0, <2>1, <3>1, <3>2 DEF InlineTold
  <2> QED BY <2>2, <2>3
<1>5. ASSUME NEW q \in Ops, FireLane(q) PROVE InlineTold(o)'
  <2>1. /\ UNCHANGED <<rec, brk, old, run>> /\ o # q
        /\ \E to : req' = [req EXCEPT ![q] = to]
        /\ \E to : page' = [page EXCEPT ![q] = to]
    BY <1>0, <1>5 DEF FireLane, Send
  <2> QED BY <1>0, <1>2, <2>1 DEF ToldTyped
<1>6. ASSUME NEW q \in All, GiveUp(q) PROVE InlineTold(o)'
  <2>1. /\ UNCHANGED <<rec, brk, old>> /\ req[q] = "queued"
        /\ req' = [req EXCEPT ![q] = "orphan"]
        /\ run'[o] \in {run[o], "unreach"} /\ page'[o] = page[o]
    BY <1>0, <1>6 DEF GiveUp, Tell, Noted, Replied
  <2>2. req'[o] = req[o] \/ (req[o] = "queued" /\ req'[o] = "orphan")
    BY <1>0, <2>1 DEF ToldTyped
  <2>3. o \in {brk.run, old} => req'[o] \in {"queued", "orphan"}
    BY <1>0, <2>2 DEF InlineTold
  <2> QED BY <1>1, <2>1, <2>2, <2>3 DEF InlineUntold
<1>7. CASE WebRestarts
  <2>1. /\ UNCHANGED <<rec, brk, old>>
        /\ req'[o] = IF req[o] = "queued" THEN "orphan" ELSE req[o]
        /\ run'[o] \in {run[o], "lost"}
        /\ page'[o] = IF page[o] = "post" THEN "unreach" ELSE page[o]
    BY <1>0, <1>7 DEF WebRestarts
  <2>2. page'[o] = page[o]
    BY <1>0, <2>1 DEF InlineTold
  <2>3. o \in {brk.run, old} => req'[o] \in {"queued", "orphan"}
    BY <1>0, <2>1 DEF InlineTold
  <2> QED BY <1>1, <2>1, <2>2, <2>3 DEF InlineUntold
<1>8. ASSUME NEW q \in All, Refuse(q) PROVE InlineTold(o)'
  <2>1. /\ UNCHANGED <<rec, brk, old>> /\ q \in Calls \ {brk.run, old}
        /\ req'[o] = IF o = q THEN "done" ELSE req[o]
        /\ run'[o] = IF o = q /\ req[o] = "queued" THEN "refused" ELSE run[o]
        /\ page'[o] = page[o]
    BY <1>0, <1>8, AnswerIs DEF Refuse, Pending, Ends
  <2>2. CASE o # q
    BY <1>2, <2>1, <2>2
  <2>3. CASE o = q
    <3>1. req[o] \in {"queued", "orphan"} /\ o \notin {brk.run, old}
      BY <2>1, <2>3 DEF Calls
    <3>2. rec[o] = "none"
      BY <1>0, <3>1 DEF InlineTold
    <3> QED BY <1>0, <2>1, <2>3, <3>1, <3>2 DEF InlineTold
  <2> QED BY <2>2, <2>3
<1>9. ASSUME NEW q \in All, Begin(q) PROVE InlineTold(o)'
  <2>1. /\ UNCHANGED <<rec, req, run, page, old>> /\ brk'.run = q /\ q \in Calls
    BY <1>0, <1>9 DEF Begin, Pending, FrontTyped
  <2>2. o = q => req[o] \in {"queued", "orphan"}
    BY <2>1 DEF Calls
  <2> QED BY <1>0, <2>1, <2>2 DEF InlineTold
<1>10. CASE LockOp \/ LockOpFails
  <2>1. UNCHANGED <<rec, brk, old>> /\ dmn.op \in Ops
    BY <1>0, <1>10 DEF LockOp, LockOpFails, WriteLock, WriteLockFails, FrontTyped
  <2>2. {dmn.op} \cap Inline = {} /\ o # dmn.op
    BY <1>0, <2>1, FrontAssumption
  <2>3. req'[o] = req[o] /\ run'[o] = run[o] /\ page'[o] = page[o]
    BY <1>0, <1>10, <2>2, AnswerIs DEF LockOp, LockOpFails, Ends
  <2> QED BY <1>2, <2>1, <2>3
<1>11. ASSUME NEW q \in Inline, Served(q) \/ (Raised(q) /\ q # old),
              q \in {brk.run, old}, brk'.run = Nobody,
              old' = IF q = old THEN Nobody ELSE old
       PROVE  InlineTold(o)'
  <2>1. PICK end \in {"done", "failed", "none"}, what \in Ends :
           /\ Answered({q}, what)
           /\ rec' = [rec EXCEPT ![q] = end]
           /\ what = "ok" <=> end = "done"
           /\ what = "failed" <=> end = "failed"
           /\ what # "refused"
    <3>1. CASE Served(q)
      BY <3>1 DEF Served, Ends
    <3>2. CASE Raised(q)
      <4>1. ToldInv /\ q \in Inline
        BY <1>11
      <4>2. rec[q] = "none"
        BY <1>11, <4>1 DEF ToldInv, InlineTold
      <4>3. rec' = [rec EXCEPT ![q] = "none"] /\ Answered({q}, "unreach")
        BY <1>0, <3>2, <4>2 DEF Raised, ToldTyped
      <4> QED BY <4>3 DEF Ends
    <3> QED BY <1>11, <3>1, <3>2
  <2>2. /\ req'[o] = IF o = q THEN "done" ELSE req[o]
        /\ run'[o] = IF o = q /\ req[o] = "queued" THEN what ELSE run[o]
        /\ page'[o] = page[o]
    BY <1>0, <2>1, AnswerIs
  <2>3. o # q => o \notin {brk'.run, old'} \/ o \in {brk.run, old}
    BY <1>0, <1>11
  <2>4. CASE o # q
    <3>1. rec'[o] = rec[o]
      BY <1>0, <2>1, <2>4 DEF ToldTyped
    <3> QED BY <1>0, <1>1, <2>2, <2>3, <2>4, <3>1 DEF InlineUntold, InlineTold
  <2>5. CASE o = q
    <3>1. req[o] \in {"queued", "orphan"} /\ rec[o] = "none"
      BY <1>0, <1>11, <2>5 DEF InlineTold
    <3>2. {page[o], run[o]} \cap {"ok", "failed", "refused"} = {}
      BY <1>0, <3>1 DEF InlineTold
    <3>3. rec'[o] = end
      BY <1>0, <2>1, <2>5 DEF ToldTyped
    <3>4. o \notin {brk'.run, old'}
      BY <1>0, <1>11, <2>5
    <3> QED BY <1>0, <2>1, <2>2, <2>5, <3>1, <3>2, <3>3, <3>4 DEF InlineTold
  <2> QED BY <2>4, <2>5
<1>12. CASE End
  <2>1. /\ brk.run \in Inline /\ brk'.run = Nobody /\ UNCHANGED old
        /\ Served(brk.run) \/ Raised(brk.run)
    BY <1>0, <1>12 DEF End, FrontTyped
  <2>2. brk.run # old
    BY <1>0, <2>1, FrontAssumption
  <2> QED BY <1>11, <2>1, <2>2
<1>13. CASE OldEnds
  <2>1. old \in Inline /\ Served(old) /\ old' = Nobody /\ UNCHANGED brk
    BY <1>0, <1>13 DEF OldEnds, ToldTyped
  <2>2. brk.run = Nobody
    BY <1>0, <2>1, FrontAssumption
  <2> QED BY <1>11, <2>1, <2>2
<1>14. CASE StopDone \/ StopGivesUp \/ Crash
  <2>1. PICK kept : /\ Down(kept)
                    /\ kept = {old'}
    BY <1>14 DEF StopDone, StopGivesUp, Crash
  <2>2. /\ req'[o] = IF o \in Calls \ kept THEN "done" ELSE req[o]
        /\ run'[o] \in {run[o], "unreach"} /\ page'[o] = page[o]
    BY <1>0, <2>1, AnswerIs DEF Down, Ends
  <2>3. brk'.run = Nobody /\ old' \in {brk.run, old} /\ UNCHANGED rec
    BY <1>14, <2>1 DEF StopDone, StopGivesUp, Crash, Down
  <2>4. o = old' => req'[o] \in {"queued", "orphan"}
    BY <1>0, <2>1, <2>2, <2>3 DEF InlineTold
  <2>5. o \in Calls => req[o] \in {"queued", "orphan"}
    BY DEF Calls
  <2> QED BY <1>0, <1>1, <2>2, <2>3, <2>4, <2>5 DEF InlineUntold
<1>15. ASSUME NEW q \in All, Look(q) PROVE InlineTold(o)'
  <2>1. /\ UNCHANGED <<brk, old, req, run, rec>>
        /\ \E to : page' = [page EXCEPT ![q] = to]
    BY <1>15 DEF Look, Poll, Probe, LastLook, LastFails, Turn
  <2>2. CASE q # o
    BY <1>0, <1>2, <2>1, <2>2 DEF ToldTyped
  <2>3. CASE q = o
    <3>1. Poll(o)
      BY <1>0, <1>15, <2>3 DEF Look, Probe, LastLook, LastFails, InlineTold
    <3>2. ASSUME NEW to, Turn(o, to) PROVE page'[o] = to
      BY <1>0, <3>2 DEF Turn, ToldTyped
    <3>3. CASE Turn(o, "away")
      BY <1>2, <2>1, <3>2, <3>3
    <3>4. CASE run[o] \in Ends /\ Turn(o, run[o])
      <4>1. page'[o] = run[o]
        BY <3>2, <3>4
      <4> QED BY <1>0, <2>1, <3>4, <4>1 DEF InlineTold, Ends
    <3>5. CASE rec[o] # "none" /\ Turn(o, ByRecord(rec[o]))
      <4>1. page'[o] = IF rec[o] = "done" THEN "ok" ELSE "failed"
        BY <3>2, <3>5 DEF ByRecord
      <4>2. rec[o] \in {"done", "failed"}
        BY <1>0, <3>5 DEF ToldTyped, Records
      <4> QED BY <1>0, <2>1, <4>1, <4>2 DEF InlineTold
    <3> QED BY <1>0, <3>1, <3>3, <3>4, <3>5 DEF Poll
  <2> QED BY <2>2, <2>3
<1> QED
  BY <1>3, <1>4, <1>5, <1>6, <1>7, <1>8, <1>9, <1>10, <1>12, <1>13, <1>14, <1>15
     DEF Next, Progress, Serve

LEMMA TypedStep ==
    ASSUME FrontInv, ToldInv, [Next]_vars
    PROVE  ToldTyped'
<1>0. ToldTyped /\ FrontTyped /\ Ops \subseteq All /\ Inline \subseteq All
  BY DEF ToldInv, FrontInv, All
<1> DEFINE Calling == /\ req' \in [All -> CallStates]
                      /\ page' \in [All -> PageStates]
                      /\ run' \in [Inline -> RunStates]
           Keeping == /\ log' \in [Ops -> Records] /\ rec' \in [Inline -> Records]
                      /\ own' \subseteq Parallel /\ old' \in Inline \cup {Nobody}
<1>1. Keeping
  <2>1. CASE UNCHANGED <<own, log, rec, old>>
    BY <1>0, <2>1 DEF ToldTyped
  <2>2. ASSUME NEW o \in Ops, Lane(o) \/ LaneKilled(o) PROVE Keeping
    <3>1. /\ UNCHANGED <<rec, old>> /\ own' \subseteq own
          /\ \/ UNCHANGED log
             \/ \E record \in Records : log' = [log EXCEPT ![o] = record]
      BY <2>2 DEF Lane, LaneKilled, ChildStep, OpenLog, OpenLogFails, Finish,
                  Close, Exit, Killed, Go, Release, front
    <3> QED BY <1>0, <3>1 DEF ToldTyped
  <2>3. CASE LockOp
    <3>1. /\ UNCHANGED <<rec, old, log>>
          /\ own' = IF dmn.op \in Builds THEN own ELSE own \cup {dmn.op}
          /\ dmn.op \in Ops
      BY <1>0, <2>3, BuildAssumption DEF LockOp, WriteLock, FrontTyped
    <3> QED BY <1>0, <3>1 DEF ToldTyped, Ops
  <2>4. CASE End \/ OldEnds
    <3>1. PICK o : Served(o) \/ Raised(o)
      BY <2>4 DEF End, OldEnds
    <3>2. \/ UNCHANGED rec
          \/ \E end \in {"done", "failed"} : rec' = [rec EXCEPT ![o] = end]
      BY <3>1 DEF Served, Raised
    <3>3. UNCHANGED <<own, log>> /\ old' \in {old, Nobody}
      BY <2>4 DEF End, OldEnds, lanes
    <3> QED BY <1>0, <3>2, <3>3 DEF ToldTyped, Records
  <2>5. CASE StopGivesUp
    BY <1>0, <2>5 DEF StopGivesUp, Down, ToldTyped, FrontTyped, lanes
  <2>6. CASE Next
    <3>1. CASE \/ \E o \in All : \/ Refuse(o) \/ GiveUp(o) \/ Accept(o)
                                 \/ Begin(o) \/ Look(o)
               \/ WebRestarts \/ Login \/ Logout
      BY <2>1, <3>1 DEF Refuse, GiveUp, Accept, Request, Begin, Look, Poll,
                        Probe, LastLook, LastFails, Turn, WebRestarts, Login,
                        Logout, lanes, front
    <3>2. CASE \/ (\E o \in Inline : FireInline(o))
               \/ (\E o \in Ops : FireLane(o))
      BY <2>1, <3>2 DEF FireInline, FireLane, Send, lanes
    <3>3. CASE \/ SpawnOp \/ OtherCall \/ LockOpFails \/ Stop \/ StopDone
               \/ Crash \/ Start
      BY <2>1, <3>3 DEF SpawnOp, Spawn, OtherCall, OtherVerb, LockOpFails,
                        WriteLockFails, Stop, StopDone, Crash, Start, lanes,
                        front
    <3> QED BY <2>2, <2>3, <2>4, <2>5, <2>6, <3>1, <3>2, <3>3
               DEF Next, Progress, Serve
  <2>7. CASE UNCHANGED vars
    BY <2>1, <2>7 DEF vars, lanes, front
  <2> QED BY <2>6, <2>7
<1>2. Calling
  <2>1. CASE UNCHANGED <<req, page, run>>
    BY <1>0, <2>1 DEF ToldTyped
  <2>2. ASSUME NEW ops, NEW what, Answered(ops, what),
               what \in Ends \/ (what = "poll" /\ ops \cap Inline = {})
        PROVE  Calling
    BY <1>0, <2>2, AnswerIs
  <2> HIDE DEF Calling
  <2>3. ASSUME NEW o \in All, FireInline(o) \/ FireLane(o) PROVE Calling
    <3>1. /\ \E to \in {"queued", "done"} : req' = [req EXCEPT ![o] = to]
          /\ \/ UNCHANGED run
             \/ \E to \in {"running", "unreach"} : run' = [run EXCEPT ![o] = to]
          /\ \E to \in {"poll", "post", "unreach"} :
                page' = [page EXCEPT ![o] = to]
      BY <2>3 DEF FireInline, FireLane, Send
    <3> QED BY <1>0, <3>1 DEF Calling, ToldTyped, CallStates, RunStates,
                              PageStates, Ends, Waiting, Shown
  <2>4. ASSUME NEW o \in All, GiveUp(o) PROVE Calling
    <3>1. /\ req' = [req EXCEPT ![o] = "orphan"]
          /\ run' = [q \in Inline |-> IF q \in {p \in {o} : req[p] = "queued"}
                                      THEN "unreach" ELSE run[q]]
          /\ page' = [q \in All |->
                        IF q \in {p \in {o} : req[p] = "queued"} \ Inline
                        THEN "unreach" ELSE page[q]]
      BY <2>4 DEF GiveUp, Tell, Noted, Replied
    <3>2. "unreach" \in PageStates /\ "unreach" \in RunStates
      BY DEF PageStates, Shown, RunStates, Ends
    <3> QED BY <1>0, <3>1, <3>2 DEF Calling, ToldTyped, CallStates
  <2>5. CASE WebRestarts
    <3>1. /\ req' = [o \in All |-> IF req[o] = "queued" THEN "orphan" ELSE req[o]]
          /\ run' = [o \in Inline |-> IF run[o] = "none" THEN "none" ELSE "lost"]
          /\ page' = [o \in All |-> IF page[o] = "post" THEN "unreach" ELSE page[o]]
      BY <2>5 DEF WebRestarts
    <3>2. "unreach" \in PageStates /\ "none" \in RunStates /\ "lost" \in RunStates
      BY DEF PageStates, Shown, RunStates, Ends
    <3> QED BY <1>0, <3>1, <3>2 DEF Calling, ToldTyped, CallStates
  <2>6. ASSUME NEW o \in All, Look(o) PROVE Calling
    <3>1. PICK to \in PageStates : Turn(o, to)
      <4>1. CASE Poll(o)
        <5>1. o \in Inline => run[o] \in RunStates
          BY <1>0 DEF ToldTyped
        <5> QED BY <4>1, <5>1 DEF Poll, ByRecord, PageStates, Shown, Waiting, Ends
      <4>2. CASE Probe(o) \/ LastLook(o) \/ LastFails(o)
        BY <4>2 DEF Probe, LastLook, LastFails, ByRecord, PageStates, Shown,
                    Waiting, Ends
      <4> QED BY <2>6, <4>1, <4>2 DEF Look
    <3> QED BY <1>0, <3>1 DEF Calling, Turn, ToldTyped
  <2>7. CASE Next
    <3>1. CASE \E o \in All : Refuse(o)
      BY <2>2, <3>1 DEF Refuse, Ends
    <3>2. CASE LockOp
      <4>1. Answered({dmn.op}, "poll") /\ dmn.op \in Ops
        BY <1>0, <3>2, BuildAssumption DEF LockOp, WriteLock, FrontTyped
      <4>2. {dmn.op} \cap Inline = {}
        BY <4>1, FrontAssumption
      <4> QED BY <2>2, <4>1, <4>2
    <3>3. CASE LockOpFails
      BY <2>2, <3>3 DEF LockOpFails, Ends
    <3>4. CASE End \/ OldEnds
      BY <2>2, <3>4 DEF End, OldEnds, Served, Raised, Ends
    <3>5. CASE StopDone \/ StopGivesUp \/ Crash
      BY <2>2, <3>5 DEF StopDone, StopGivesUp, Crash, Down, Ends
    <3>6. CASE \/ (\E o \in All : Accept(o) \/ Begin(o))
               \/ (\E o \in Ops : Lane(o) \/ LaneKilled(o))
               \/ SpawnOp \/ OtherCall \/ Stop \/ Start \/ Login \/ Logout
      BY <2>1, <3>6 DEF Accept, Begin, Lane, LaneKilled, SpawnOp, OtherCall,
                        Stop, Start, Login, Logout, front
    <3> QED
      BY <1>0, <2>3, <2>4, <2>5, <2>6, <2>7, <3>1, <3>2, <3>3, <3>4, <3>5, <3>6
         DEF Next, Progress, Serve
  <2>8. CASE UNCHANGED vars
    BY <2>1, <2>8 DEF vars, front
  <2> QED BY <2>7, <2>8
<1> QED BY <1>1, <1>2 DEF ToldTyped

THEOREM ToldInvariant == Spec => []ToldInv
<1>1. FrontInit => ToldInv
  <2> SUFFICES ASSUME FrontInit PROVE ToldInv
    OBVIOUS
  <2>1. /\ child = [o \in Ops |-> "none"] /\ log = [o \in Ops |-> "none"]
        /\ own = {} /\ old = Nobody /\ brk.run = Nobody
        /\ dmn = [pc |-> "idle", op |-> Nobody]
        /\ req = [o \in All |-> "none"] /\ page = req
        /\ run = [o \in Inline |-> "none"] /\ rec = run
    BY DEF FrontInit, LanesInit
  <2>2. ToldTyped
    BY <2>1 DEF ToldTyped, Records, CallStates, RunStates, PageStates
  <2>3. ASSUME NEW o \in Ops PROVE LaneTold(o)
    BY <2>1 DEF LaneTold, Active, Serving, All
  <2>4. ASSUME NEW o \in Inline PROVE InlineTold(o)
    BY <2>1, FrontAssumption DEF InlineTold, All
  <2> QED BY <2>2, <2>3, <2>4 DEF ToldInv
<1>2. FrontInv /\ FrontInv' /\ ToldInv /\ [Next]_vars => ToldInv'
  BY LaneStep, InlineStep, TypedStep DEF ToldInv
<1> QED
  BY <1>1, <1>2, FrontInvariant, PTL DEF Spec

(* The page says what happened, for any ops and faults: whatever crashes,  *)
(* stops early, restarts or loses its session meanwhile.                   *)
THEOREM ShownStaysTrue == Spec => []ShownTrue
<1>1. ToldInv => ShownTrue
  <2> SUFFICES ASSUME ToldInv, AllLocked
               PROVE  /\ \A o \in Ops :
                            /\ page[o] = "ok" => log[o] = "done"
                            /\ page[o] = "failed" => log[o] = "failed"
                            /\ page[o] = "gone" => /\ log[o] = "none"
                                                   /\ child[o] \in Late
                            /\ page[o] = "refused" => child[o] = "none"
                      /\ \A o \in Inline :
                            /\ page[o] = "ok" => rec[o] = "done"
                            /\ page[o] = "failed" => rec[o] = "failed"
                            /\ page[o] = "refused" =>
                                  rec[o] = "none" /\ o # brk.run
    BY DEF ShownTrue, Late
  <2>1. \A o \in Ops : LaneTold(o)
    BY DEF ToldInv
  <2>2. \A o \in Inline : InlineTold(o)
    BY DEF ToldInv
  <2> QED BY <2>1, <2>2 DEF LaneTold, InlineTold
<1> QED
  BY <1>1, ToldInvariant, PTL

-----------------------------------------------------------------------------
(* The web apps that the page shows in tabs, for any ports, addresses and  *)
(* scenes.  Of the records only their fields matter here, and that three   *)
(* of those are functions on the ports.                                    *)
LabFields  == {"there", "reg", "legible", "inside", "sock"}
WebFields  == {"off", "offFile", "snap", "checks", "tried", "order", "pool",
               "slot", "slotFile", "full", "freeing", "ending"}
ViewFields == {"sess", "paused", "pc", "detect", "old", "marker", "credit",
               "reg", "opened", "gotTab", "gotUrl", "tab", "url", "front",
               "pane"}

AppsShaped ==
    /\ DOMAIN lab = LabFields /\ DOMAIN web = WebFields
    /\ DOMAIN view = ViewFields
    /\ DOMAIN lab.reg = Ports /\ DOMAIN web.slot = Ports
    /\ DOMAIN web.slotFile = Ports

(* A removed project has no registry, and destroy answers only for one.    *)
AppsInv ==
    /\ AppsShaped
    /\ PausedMeansOwn
    /\ web.ending => ~lab.there
    /\ ~lab.there => lab.reg = Each("no")

(* One step of AddressesKept.                                              *)
AddressKept ==
    \A p \in Ports :
          lab.reg[p] = "page" /\ lab'.reg[p] = "page" /\ web.slot[p] # 0
          => \/ web'.slot[p] = web.slot[p]
             \/ p \in web.freeing
             \/ web.slotFile # web.slot

(* A reservation (_origin_port_for) never moves an address that is held.   *)
LEMMA ReservedKeeps ==
    ASSUME NEW want
    PROVE  /\ DOMAIN Reserved(want) = Ports
           /\ \A p \in Ports :
                 web.slot[p] # 0 => Reserved(want)[p] = web.slot[p]
BY DEF Reserved

(* The invariant holds at first, in every scene.                           *)
LEMMA AppsStart == AppsInit => AppsInv
<1> SUFFICES ASSUME AppsInit PROVE AppsInv
  OBVIOUS
<1>0. PICK scene \in Scenes : AppsInit!(scene)
  BY DEF AppsInit
<1>1. /\ DOMAIN lab = LabFields /\ DOMAIN lab.reg = Ports /\ lab.there
  BY <1>0 DEF LabFields, Each
<1>2. /\ DOMAIN web = WebFields /\ DOMAIN web.slot = Ports
      /\ DOMAIN web.slotFile = Ports /\ ~web.ending
  BY <1>0 DEF WebFields, Each
<1>3. DOMAIN view = ViewFields /\ ~view.paused
  BY <1>0 DEF ViewFields
<1> QED
  BY <1>1, <1>2, <1>3 DEF AppsInv, AppsShaped, PausedMeansOwn

(* Every step of the apps, the web UI, the broker and the page keeps the   *)
(* invariant, and the addresses of hand-added ports.                       *)
LEMMA AppsStep ==
    ASSUME AppsInv, [AppsNext]_appVars
    PROVE  AppsInv' /\ AddressKept
<1>1. ASSUME NEW p \in Ports, AppListens(p)
      PROVE  AppsInv' /\ AddressKept
  BY <1>1 DEF AppListens, Event, AppsInv, AppsShaped, PausedMeansOwn,
       AddressKept, Each, LabFields, WebFields, ViewFields
<1>2. ASSUME NEW p \in Ports, AppCloses(p)
      PROVE  AppsInv' /\ AddressKept
  BY <1>2 DEF AppCloses, Event, AppsInv, AppsShaped, PausedMeansOwn,
       AddressKept, Each, LabFields, WebFields, ViewFields
<1>3. ASSUME NEW p \in Ports, InnerListens(p)
      PROVE  AppsInv' /\ AddressKept
  BY <1>3 DEF InnerListens, Event, AppsInv, AppsShaped, PausedMeansOwn,
       AddressKept, Each, LabFields, WebFields, ViewFields
<1>4. ASSUME NEW p \in Ports, PortAdded(p)
      PROVE  AppsInv' /\ AddressKept
  BY <1>4 DEF PortAdded, Event, AppsInv, AppsShaped, PausedMeansOwn,
       AddressKept, Each, LabFields, WebFields, ViewFields
<1>5. ASSUME NEW p \in Ports, PortRemoved(p)
      PROVE  AppsInv' /\ AddressKept
  BY <1>5 DEF PortRemoved, Event, AppsInv, AppsShaped, PausedMeansOwn,
       AddressKept, Each, LabFields, WebFields, ViewFields
<1>6. ASSUME AgentWrites
      PROVE  AppsInv' /\ AddressKept
  BY <1>6 DEF AgentWrites, Event, AppsInv, AppsShaped, PausedMeansOwn,
       AddressKept, Each, LabFields, WebFields, ViewFields
<1>7. ASSUME Destroyed
      PROVE  AppsInv' /\ AddressKept
  BY <1>7 DEF Destroyed, Event, AppsInv, AppsShaped, PausedMeansOwn,
       AddressKept, Each, LabFields, WebFields, ViewFields
<1>8. ASSUME Recreated
      PROVE  AppsInv' /\ AddressKept
  BY <1>8 DEF Recreated, AppsInv, AppsShaped, PausedMeansOwn, AddressKept,
       Each, LabFields, WebFields, ViewFields
<1>9. ASSUME VolumeFills
      PROVE  AppsInv' /\ AddressKept
  BY <1>9 DEF VolumeFills, Event, AppsInv, AppsShaped, PausedMeansOwn,
       AddressKept, Each, LabFields, WebFields, ViewFields
<1>10. ASSUME WebUiRestarts
      PROVE  AppsInv' /\ AddressKept
  BY <1>10 DEF WebUiRestarts, Event, Forgotten, NoCredit, Kept, AppsInv,
       AppsShaped, PausedMeansOwn, AddressKept, Each, LabFields, WebFields,
       ViewFields
<1>11. ASSUME BrokerRestarts
      PROVE  AppsInv' /\ AddressKept
  BY <1>11 DEF BrokerRestarts, Event, Gathers, AppsInv, AppsShaped,
       PausedMeansOwn, AddressKept, Each, LabFields, WebFields, ViewFields
<1>12. ASSUME NEW p \in Ports, RemoveOpened(p)
      PROVE  AppsInv' /\ AddressKept
  BY <1>12, ReservedKeeps DEF RemoveOpened, Event, WithSlots, Freed, Kept,
       Registered, AppsInv, AppsShaped, PausedMeansOwn, AddressKept, Each,
       LabFields, WebFields, ViewFields
<1>13. ASSUME NEW p \in Ports, OthersOpen(p)
      PROVE  AppsInv' /\ AddressKept
  BY <1>13, ReservedKeeps DEF OthersOpen, Event, WithSlots, Kept, AppsInv,
       AppsShaped, PausedMeansOwn, AddressKept, Each, LabFields, WebFields,
       ViewFields
<1>14. ASSUME NEW p \in Ports, Open(p)
      PROVE  AppsInv' /\ AddressKept
  <2>1. CASE view.url[p] # 0 \/ view.tab[p] = "hand" \/ view.sess = "none"
    <3>1. web' = web /\ lab' = lab /\ DOMAIN view' = ViewFields
      BY <1>14, <2>1 DEF Open, AppsInv, AppsShaped
    <3>2. view'.sess = view.sess
          /\ (view'.paused = view.paused \/ view.sess = "none")
      BY <1>14, <2>1 DEF Open, AppsInv, AppsShaped, ViewFields
    <3> QED
      BY <3>1, <3>2 DEF AppsInv, AppsShaped, PausedMeansOwn, AddressKept
  <2>2. CASE ~(view.url[p] # 0 \/ view.tab[p] = "hand" \/ view.sess = "none")
    <3> DEFINE slot == IF Offered(p) /\ lab.there THEN Reserved({p})
                       ELSE web.slot
    <3>1. web' = WithSlots(web, slot) /\ lab' = lab
      BY <1>14, <2>2 DEF Open
    <3>2. /\ DOMAIN view' = ViewFields /\ view'.sess = view.sess
          /\ view'.paused = view.paused
      BY <1>14, <2>2 DEF Open, AppsInv, AppsShaped, ViewFields
    <3>3. /\ DOMAIN slot = Ports
          /\ \A q \in Ports : web.slot[q] # 0 => slot[q] = web.slot[q]
      BY ReservedKeeps DEF AppsInv, AppsShaped
    <3> HIDE DEF slot
    <3>4. /\ DOMAIN web' = WebFields /\ web'.slot = slot
          /\ DOMAIN web'.slotFile = Ports /\ web'.ending = web.ending
      BY <3>1, <3>3 DEF WithSlots, Kept, AppsInv, AppsShaped, WebFields
    <3> QED
      BY <3>1, <3>2, <3>3, <3>4
      DEF AppsInv, AppsShaped, PausedMeansOwn, AddressKept
  <2> QED
    BY <2>1, <2>2
<1>15. ASSUME OthersList
      PROVE  AppsInv' /\ AddressKept
  BY <1>15, ReservedKeeps DEF OthersList, Event, WithSlots, Kept, AppsInv,
       AppsShaped, PausedMeansOwn, AddressKept, Each, LabFields, WebFields,
       ViewFields
<1>16. ASSUME OthersAsk
      PROVE  AppsInv' /\ AddressKept
  BY <1>16 DEF OthersAsk, Event, AppsInv, AppsShaped, PausedMeansOwn,
       AddressKept, Each, LabFields, WebFields, ViewFields
<1>17. ASSUME Switch
      PROVE  AppsInv' /\ AddressKept
  <2> DEFINE freed == IF lab.legible THEN Opened(lab.reg) ELSE {}
  <2>1. CASE web.off
    <3>1. /\ web' = WithSwitch(web, FALSE) /\ lab' = lab /\ view' = view
      BY <1>17, <2>1 DEF Switch
    <3>2. /\ DOMAIN web' = WebFields /\ web'.slot = web.slot
          /\ web'.slotFile = web.slotFile /\ web'.ending = web.ending
      BY <3>1 DEF WithSwitch, AppsInv, AppsShaped, WebFields
    <3> QED
      BY <3>1, <3>2 DEF AppsInv, AppsShaped, PausedMeansOwn, AddressKept
  <2>2. CASE ~web.off
    <3>1. /\ web' = WithSwitch(Forgotten(WithSlots(web, Freed(freed))), TRUE)
          /\ view' = NoCredit(view) /\ lab' = lab
      BY <1>17, <2>2 DEF Switch
    <3>2. \A q \in freed : lab.reg[q] # "page"
      BY DEF Opened
    <3>3. /\ DOMAIN Freed(freed) = Ports
          /\ \A q \in Ports : q \notin freed => Freed(freed)[q] = web.slot[q]
      BY DEF Freed
    <3> HIDE DEF freed
    <3>4. /\ DOMAIN web' = WebFields /\ web'.slot = Freed(freed)
          /\ DOMAIN web'.slotFile = Ports /\ web'.ending = web.ending
      BY <3>1, <3>3 DEF WithSwitch, Forgotten, WithSlots, Kept, AppsInv,
         AppsShaped, WebFields
    <3>5. /\ DOMAIN view' = ViewFields /\ view'.sess = view.sess
          /\ view'.paused = view.paused
      BY <3>1 DEF NoCredit, AppsInv, AppsShaped, ViewFields
    <3> QED
      BY <3>1, <3>2, <3>3, <3>4, <3>5
      DEF AppsInv, AppsShaped, PausedMeansOwn, AddressKept
  <2> QED
    BY <2>1, <2>2
<1>18. ASSUME LookAway
      PROVE  AppsInv' /\ AddressKept
  BY <1>18 DEF LookAway, Event, AppsInv, AppsShaped, PausedMeansOwn,
       AddressKept, Each, LabFields, WebFields, ViewFields
<1>19. ASSUME Visit
      PROVE  AppsInv' /\ AddressKept
  BY <1>19 DEF Visit, Event, AppsInv, AppsShaped, PausedMeansOwn, AddressKept,
       Each, LabFields, WebFields, ViewFields
<1>20. ASSUME SignIn
      PROVE  AppsInv' /\ AddressKept
  BY <1>20 DEF SignIn, Event, NoCredit, AppsInv, AppsShaped, PausedMeansOwn,
       AddressKept, Each, LabFields, WebFields, ViewFields
<1>21. ASSUME Listen
      PROVE  AppsInv' /\ AddressKept
  BY <1>21 DEF Listen, Checking, AppsInv, AppsShaped, PausedMeansOwn,
       AddressKept, Each, LabFields, WebFields, ViewFields
<1>22. ASSUME LookUp
      PROVE  AppsInv' /\ AddressKept
  BY <1>22 DEF LookUp, Checking, AppsInv, AppsShaped, PausedMeansOwn,
       AddressKept, Each, LabFields, WebFields, ViewFields
<1>23. ASSUME LookUpFails
      PROVE  AppsInv' /\ AddressKept
  BY <1>23 DEF LookUpFails, Checking, AppsInv, AppsShaped, PausedMeansOwn,
       AddressKept, Each, LabFields, WebFields, ViewFields
<1>24. ASSUME Refused
      PROVE  AppsInv' /\ AddressKept
  BY <1>24 DEF Refused, Done, Hears, TokenDead, Gathers, AppsInv, AppsShaped,
       PausedMeansOwn, AddressKept, Each, LabFields, WebFields, ViewFields
<1>25. ASSUME ReadFails
      PROVE  AppsInv' /\ AddressKept
  BY <1>25 DEF ReadFails, Done, Hears, Gathers, CutShort, Event, AppsInv,
       AppsShaped, PausedMeansOwn, AddressKept, Each, LabFields, WebFields,
       ViewFields
<1>26. ASSUME Unresolved
      PROVE  AppsInv' /\ AddressKept
  BY <1>26 DEF Unresolved, Event, AppsInv, AppsShaped, PausedMeansOwn,
       AddressKept, Each, LabFields, WebFields, ViewFields
<1>27. ASSUME Store
      PROVE  AppsInv' /\ AddressKept
  <2>1. /\ DOMAIN web' = WebFields /\ web'.slot = web.slot /\ lab' = lab
        /\ web'.slotFile = web.slotFile /\ web'.ending = web.ending
    BY <1>27 DEF Store, AppsInv, AppsShaped, WebFields
  <2>2. /\ DOMAIN view' = ViewFields /\ view'.sess = view.sess
        /\ view'.paused = view.paused
    <3>1. CASE web.off
      BY <1>27, <3>1
      DEF Store, Done, Hears, Gathers, AppsInv, AppsShaped, ViewFields
    <3>2. CASE ~web.off /\ ~lab.there
      BY <1>27, <3>2
      DEF Store, Done, Hears, Gathers, AppsInv, AppsShaped, ViewFields
    <3>3. CASE ~web.off /\ lab.there
      <4>1. view' = IF view.pc = "wait"
                    THEN [Gathers(view, "") EXCEPT !.credit = ~view.old]
                    ELSE NoCredit(view)
        BY <1>27, <3>3 DEF Store
      <4> QED
        BY <4>1 DEF Gathers, NoCredit, AppsInv, AppsShaped, ViewFields
    <3> QED
      BY <3>1, <3>2, <3>3
  <2> QED
    BY <2>1, <2>2 DEF AppsInv, AppsShaped, PausedMeansOwn, AddressKept
<1>28. ASSUME NEW p \in Ports, Check(p)
      PROVE  AppsInv' /\ AddressKept
  BY <1>28 DEF Check, AppsInv, AppsShaped, PausedMeansOwn, AddressKept, Each,
       LabFields, WebFields, ViewFields
<1>29. ASSUME Ask
      PROVE  AppsInv' /\ AddressKept
  <2>1. lab' = lab /\ web' = web
    BY <1>29 DEF Ask
  <2> DEFINE asked == [view EXCEPT !.old = FALSE]
  <2>2. /\ DOMAIN asked = ViewFields /\ asked.sess = view.sess
        /\ asked.paused = view.paused
    BY DEF AppsInv, AppsShaped, ViewFields
  <2>3. \/ \E marker \in {"fallback", "off", "", "withheld"} :
                view' = Gathers(asked, marker)
        \/ view' = Gathers(asked, "unauthorized") /\ view.sess = "none"
        \/ view' = [asked EXCEPT !.pc = "wait"]
    BY <1>29 DEF Ask
  <2> HIDE DEF asked
  <2>4. /\ DOMAIN view' = ViewFields /\ view'.sess = view.sess
        /\ view'.paused = view.paused \/ view.sess = "none"
    BY <2>2, <2>3 DEF Gathers, ViewFields
  <2> QED
    BY <2>1, <2>4 DEF AppsInv, AppsShaped, PausedMeansOwn, AddressKept
<1>30. ASSUME Reply
      PROVE  AppsInv' /\ AddressKept
  BY <1>30, ReservedKeeps DEF Reply, WithSlots, Kept, AppsInv, AppsShaped,
       PausedMeansOwn, AddressKept, Each, LabFields, WebFields, ViewFields
<1>31. ASSUME Land
      PROVE  AppsInv' /\ AddressKept
  BY <1>31 DEF Land, AppsInv, AppsShaped, PausedMeansOwn, AddressKept, Each,
       LabFields, WebFields, ViewFields
<1>32. ASSUME DestroyEnds
      PROVE  AppsInv' /\ AddressKept
  BY <1>32, ReservedKeeps DEF DestroyEnds, WithSlots, WithSwitch, Forgotten,
       NoCredit, Kept, AppsInv, AppsShaped, PausedMeansOwn, AddressKept, Each,
       LabFields, WebFields, ViewFields
<1>33. ASSUME NEW p \in Ports, PortFreed(p)
      PROVE  AppsInv' /\ AddressKept
  BY <1>33, ReservedKeeps DEF PortFreed, WithSlots, Freed, Kept, AppsInv,
       AppsShaped, PausedMeansOwn, AddressKept, Each, LabFields, WebFields,
       ViewFields
<1>34. ASSUME UNCHANGED appVars
      PROVE  AppsInv' /\ AddressKept
  BY <1>34
  DEF appVars, AppsInv, AppsShaped, PausedMeansOwn, AddressKept
<1> QED
  BY <1>1, <1>2, <1>3, <1>4, <1>5, <1>6, <1>7, <1>8, <1>9, <1>10, <1>11,
     <1>12, <1>13, <1>14, <1>15, <1>16, <1>17, <1>18, <1>19, <1>20, <1>21,
     <1>22, <1>23, <1>24, <1>25, <1>26, <1>27, <1>28, <1>29, <1>30, <1>31,
     <1>32, <1>33, <1>34
  DEF AppsNext, Outside, Operators, Detection, PageStep, Relayed

(* The invariant of the detected apps.                                     *)
THEOREM AppsInvariant == AppsSpec => []AppsInv
<1>1. AppsInv /\ [AppsNext]_appVars => AppsInv'
  BY AppsStep
<1> QED
  BY AppsStart, <1>1, PTL DEF AppsSpec

(* Detection pauses only with the end of the page's own session, for any   *)
(* ports and scenes: whoever else's token is refused, whatever restarts.   *)
THEOREM DetectionPauses == AppsSpec => []PausedMeansOwn
<1>1. AppsInv => PausedMeansOwn
  BY DEF AppsInv
<1> QED
  BY AppsInvariant, <1>1, PTL

(* The address of a hand-added port stays, for any ports, pool and scenes: *)
(* over switches, Removes, restarts and a registry nobody can read.        *)
THEOREM HandAddedStays == AppsSpec => AddressesKept
<1>1. AppsInv /\ [AppsNext]_appVars => [AddressKept]_appVars
  BY AppsStep
<1>2. [AddressKept]_appVars <=> [\A p \in Ports :
          lab.reg[p] = "page" /\ lab'.reg[p] = "page" /\ web.slot[p] # 0
          => \/ web'.slot[p] = web.slot[p]
             \/ p \in web.freeing
             \/ web.slotFile # web.slot]_appVars
  BY DEF AddressKept
<1> QED
  BY AppsInvariant, <1>1, <1>2, PTL DEF AppsSpec, AddressesKept

=============================================================================
