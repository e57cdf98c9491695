----------------------------- MODULE BuildLane ------------------------------
(***************************************************************************)
(* The broker's other detached lanes (cli/broker.py): builds, which share  *)
(* one lock file naming the child that runs, and PR reviews and dev-box    *)
(* provisions, which run side by side with a lock file each.  Liveness is  *)
(* `kill(pid, 0)` on the pid in the file: it also reaches a child that has *)
(* ended and that the daemon, which never waits on its children, has not   *)
(* reaped yet (subprocess does that when the next process is started).     *)
(*                                                                         *)
(* A definition Bad... is a faulty variant of the one after it.  Nothing   *)
(* uses it; it is there to show that a property can fail.                  *)
(***************************************************************************)
EXTENDS FiniteSets

CONSTANTS
    Builds, Parallel,   \* requests of the build lane and of the other two
    Nobody              \* no op: build.lock does not exist

Ops == Builds \cup Parallel

ASSUME BuildAssumption == Builds \cap Parallel = {} /\ Nobody \notin Ops

VARIABLES
    dmn,        \* the op the dispatcher serves, and its step
    child,      \* per op: where its process is
    build,      \* build.lock: the op it names
    own,        \* the parallel ops with a lock file of their own
    accepted,   \* history: the ops answered started:true
    log,        \* per op: the terminal record of its view log
    lost        \* history: the children killed, or without a log to write

lanes == <<dmn, child, build, own, accepted, log, lost>>

-----------------------------------------------------------------------------
Points  == {"none", "boot", "work", "close", "exit", "zombie", "reaped"}
Records == {"none", "done", "failed"}

Running(o)  == child[o] \in {"boot", "work", "close", "exit"}
PidAlive(o) == Running(o) \/ child[o] = "zombie"

(* _build_in_progress, build_alive and rscore's agent_build_running, which *)
(* reads the command line instead: a zombie has none.                      *)
Busy           == build # Nobody /\ PidAlive(build)
OpAlive(o)     == (build = o \/ o \in own) /\ PidAlive(o)
AgentBuildRuns == build # Nobody /\ Running(build)

Reap(procs) == [o \in Ops |-> IF procs[o] = "zombie" THEN "reaped"
                                                     ELSE procs[o]]

LanesInit ==
    /\ dmn = [pc |-> "idle", op |-> Nobody]
    /\ child = [o \in Ops |-> "none"]
    /\ build = Nobody /\ own = {}
    /\ accepted = {} /\ lost = {}
    /\ log = [o \in Ops |-> "none"]

-----------------------------------------------------------------------------
(* The dispatcher                                                          *)

Request(o) ==
    /\ dmn.pc = "idle" /\ child[o] = "none"
    /\ o \in Builds => ~Busy
    /\ dmn' = [pc |-> "spawn", op |-> o]
    /\ UNCHANGED <<child, build, own, accepted, log, lost>>

Answer == dmn' = [pc |-> "idle", op |-> Nobody]

Spawn ==
    /\ dmn.pc = "spawn"
    /\ child' = [Reap(child) EXCEPT ![dmn.op] = "boot"]
    /\ dmn' = [dmn EXCEPT !.pc = "lock"]
    /\ UNCHANGED <<build, own, accepted, log, lost>>

WriteLock ==
    /\ dmn.pc = "lock"
    /\ IF dmn.op \in Builds THEN build' = dmn.op /\ UNCHANGED own
                            ELSE own' = own \cup {dmn.op} /\ UNCHANGED build
    /\ accepted' = accepted \cup {dmn.op}
    /\ Answer
    /\ UNCHANGED <<child, log, lost>>

(* The error escapes dispatch; the child goes on.                          *)
WriteLockFails ==
    /\ dmn.pc = "lock"
    /\ Answer
    /\ UNCHANGED <<child, build, own, accepted, log, lost>>

(* Starts no process, so nobody is reaped.                                 *)
BadOtherVerb == dmn.pc = "idle" /\ UNCHANGED lanes

(* Any other verb that starts a process (docker, mostly).                  *)
OtherVerb ==
    /\ dmn.pc = "idle"
    /\ child' = Reap(child)
    /\ UNCHANGED <<dmn, build, own, accepted, log, lost>>

-----------------------------------------------------------------------------
(* The child: run_build, run_review, run_dev_box                           *)

Go(o, from, to) ==
    /\ child[o] = from
    /\ child' = [child EXCEPT ![o] = to]
    /\ UNCHANGED <<dmn, accepted>>

(* Every lane's child unlinks build.lock.                                  *)
BadRelease(o) == build' = Nobody /\ own' = own \ {o}

(* A build child unlinks build.lock whatever it names.                     *)
Release(o) ==
    IF o \in Builds THEN build' = Nobody /\ UNCHANGED own
                    ELSE own' = own \ {o} /\ UNCHANGED build

OpenLog(o) ==
    /\ Go(o, "boot", "work")
    /\ UNCHANGED <<build, own, log, lost>>

OpenLogFails(o) ==
    /\ Go(o, "boot", "exit")
    /\ Release(o)
    /\ lost' = lost \cup {o}
    /\ UNCHANGED log

(* The verb ends; done or fail goes to the view log.                       *)
Finish(o) ==
    /\ Go(o, "work", "close")
    /\ \E record \in Records \ {"none"} : log' = [log EXCEPT ![o] = record]
    /\ UNCHANGED <<build, own, lost>>

Close(o) ==
    /\ Go(o, "close", "exit")
    /\ Release(o)
    /\ UNCHANGED <<log, lost>>

Exit(o) ==
    /\ Go(o, "exit", "zombie")
    /\ UNCHANGED <<build, own, log, lost>>

Killed(o) ==
    /\ Running(o)
    /\ Go(o, child[o], "zombie")
    /\ lost' = lost \cup {o}
    /\ UNCHANGED <<build, own, log>>

ChildStep(o) ==
    OpenLog(o) \/ OpenLogFails(o) \/ Finish(o) \/ Close(o) \/ Exit(o)

-----------------------------------------------------------------------------
(* Properties                                                              *)

(* Every child that was spawned got its lock; a build that did not is seen *)
(* by nobody.                                                              *)
AllLocked ==
    \A o \in Ops : child[o] # "none" => o \in accepted \/ o = dmn.op

(* "That lane serialises on BUILD_LOCK": two builds never work at once,    *)
(* though each release unlinks the lock without looking whose it is; and   *)
(* the lock names the build that works, so its tail sees it alive and an   *)
(* agent update is refused.                                                *)
OneBuild ==
    AllLocked =>
        \A o \in Builds : child[o] = "work" =>
            /\ \A q \in Builds : child[q] = "work" => q = o
            /\ o \in accepted => OpAlive(o) /\ AgentBuildRuns

(* The build lane is free again, however the build ended.                  *)
LaneFreed == Busy ~> ~Busy
=============================================================================
