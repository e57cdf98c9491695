---------------------------- MODULE LifecycleLane ---------------------------
(***************************************************************************)
(* The broker's lifecycle lane (cli/broker.py): the serial dispatcher, the *)
(* detached child it spawns per project start/stop/update, the per-op lock *)
(* files that make an op "in flight", the host-wide flock the children     *)
(* queue on, and the inline verbs that must stay out of their way.         *)
(*                                                                         *)
(* The webui mints a fresh op_id for every request, so an op is submitted  *)
(* once; a second request for a project is another op.                     *)
(*                                                                         *)
(* A definition Bad... is a faulty variant of the one after it.  Nothing   *)
(* uses it; it is there to show that a property can fail.                  *)
(***************************************************************************)
EXTENDS Naturals, FiniteSets

CONSTANTS
    Ops,            \* the start/stop/update requests, by op_id
    Projects,
    Nobody,         \* no op, no project
    Daemon,         \* the broker daemon, as the holder of the flock
    CanKill,        \* a child may be hard-killed
    DaemonCanDie,   \* so may the daemon, which is then started again
    WithDevLane     \* dev_box_provision is offered too

ASSUME LaneAssumption ==
    /\ Nobody \notin Ops \cup Projects /\ Daemon \notin Ops
    /\ Daemon # Nobody
    /\ CanKill \in BOOLEAN /\ DaemonCanDie \in BOOLEAN
    /\ WithDevLane \in BOOLEAN

VARIABLES
    dmn,        \* the dispatcher: its step, the op it spawns, the project
    child,      \* per op: where its run_lifecycle is; lost if it was killed
                \* or could not open its log, gone when it ended by itself
    target,     \* per op: the project it is for
    lock,       \* the ops with a lifecycle-locks/<op_id>.json
    flock,      \* who holds lifecycle.lock
    holder,     \* the op named by lifecycle.holder
    dev,        \* the projects a dev-box child is provisioning
    accepted,   \* history: the ops answered started:true
    log         \* per op: the terminal record in its view log

vars == <<dmn, child, target, lock, flock, holder, dev, accepted, log>>

-----------------------------------------------------------------------------
DaemonSteps == {"idle", "spawn", "lock", "inline", "alone", "down"}
ChildPoints == {"none", "boot", "try", "wait", "hold", "act", "close",
                "unlock", "free", "exit", "gone", "nolog", "lost"}

Alive(o)    == child[o] \notin {"none", "gone", "lost"}
(* Only the op that runs counts, not the queue.                            *)
BadInFlight(p) == \E o \in lock : Alive(o) /\ target[o] = p /\ holder = o

InFlight(p) == \E o \in lock : Alive(o) /\ target[o] = p
Live        == {o \in lock : Alive(o)}

(* What lifecycle_active calls running.                                    *)
ShownRunning(o) == o \in Live /\ holder = o

Init ==
    /\ dmn = [pc |-> "idle", op |-> Nobody, project |-> Nobody]
    /\ child = [o \in Ops |-> "none"]
    /\ target = [o \in Ops |-> Nobody]
    /\ lock = {} /\ flock = Nobody /\ holder = Nobody
    /\ dev = {}
    /\ accepted = {} /\ log = [o \in Ops |-> "none"]

-----------------------------------------------------------------------------
(* The dispatcher: one request at a time                                   *)

Serve(pc, op, project) == dmn' = [pc |-> pc, op |-> op, project |-> project]
Answer == Serve("idle", Nobody, Nobody)

(* start, stop, update: refused while the project is in flight; the locks  *)
(* of dead children are pruned before the child is spawned.                *)
Submit(o, p) ==
    /\ dmn.pc = "idle"
    /\ target[o] = Nobody
    /\ ~InFlight(p)
    /\ lock' = Live
    /\ target' = [target EXCEPT ![o] = p]
    /\ Serve("spawn", o, p)
    /\ UNCHANGED <<child, flock, holder, dev, accepted, log>>

Spawn ==
    /\ dmn.pc = "spawn"
    /\ \/ /\ child' = [child EXCEPT ![dmn.op] = "boot"]
          /\ Serve("lock", dmn.op, dmn.project)
       \/ Answer /\ UNCHANGED child
    /\ UNCHANGED <<target, lock, flock, holder, dev, accepted, log>>

WriteLock ==
    /\ dmn.pc = "lock"
    /\ lock' = lock \cup {dmn.op}
    /\ accepted' = accepted \cup {dmn.op}
    /\ Answer
    /\ UNCHANGED <<child, target, flock, holder, dev, log>>

Freed(o) == IF flock = o THEN Nobody ELSE flock

(* The lock cannot be written: the child is killed, with its group.        *)
WriteLockFails ==
    /\ dmn.pc = "lock"
    /\ child' = [child EXCEPT ![dmn.op] = "lost"]
    /\ flock' = Freed(dmn.op)
    /\ Answer
    /\ UNCHANGED <<target, lock, holder, dev, accepted, log>>

(* A verb that works inside one project's container (box_add, port_add...) *)
InlineBegin(p) ==
    /\ dmn.pc = "idle"
    /\ ~InFlight(p)
    /\ Serve("inline", Nobody, p)
    /\ UNCHANGED <<child, target, lock, flock, holder, dev, accepted, log>>

(* Looks at the lock files only.                                           *)
BadAloneBegin(p) ==
    /\ dmn.pc = "idle"
    /\ Live = {}
    /\ flock' = Daemon
    /\ Serve("alone", Nobody, p)
    /\ UNCHANGED <<child, target, lock, holder, dev, accepted, log>>

(* create, destroy: refused while an op is in flight or the flock is held. *)
AloneBegin(p) ==
    /\ dmn.pc = "idle"
    /\ Live = {}
    /\ flock = Nobody
    /\ flock' = Daemon
    /\ Serve("alone", Nobody, p)
    /\ UNCHANGED <<child, target, lock, holder, dev, accepted, log>>

(* A verb that raises leaves the flock's descriptor open.                  *)
BadInlineEnd ==
    /\ dmn.pc \in {"inline", "alone"}
    /\ flock' \in {flock, Freed(Daemon)}
    /\ Answer
    /\ UNCHANGED <<child, target, lock, holder, dev, accepted, log>>

InlineEnd ==
    /\ dmn.pc \in {"inline", "alone"}
    /\ flock' = Freed(Daemon)
    /\ Answer
    /\ UNCHANGED <<child, target, lock, holder, dev, accepted, log>>

(* dev_box_provision: refused while the project is in flight, then a child *)
(* of the dev lane works in the project's container.                       *)
DevBegin(p) ==
    /\ WithDevLane
    /\ dmn.pc = "idle"
    /\ ~InFlight(p)
    /\ dev' = dev \cup {p}
    /\ UNCHANGED <<dmn, child, target, lock, flock, holder, accepted, log>>

DevEnd(p) ==
    /\ p \in dev
    /\ dev' = dev \ {p}
    /\ UNCHANGED <<dmn, child, target, lock, flock, holder, accepted, log>>

(* An inline verb dies with the daemon; the kernel drops its flock.        *)
DaemonDies ==
    /\ DaemonCanDie /\ dmn.pc # "down"
    /\ flock' = Freed(Daemon)
    /\ Serve("down", Nobody, Nobody)
    /\ UNCHANGED <<child, target, lock, holder, dev, accepted, log>>

DaemonStarts ==
    /\ dmn.pc = "down"
    /\ Answer
    /\ UNCHANGED <<child, target, lock, flock, holder, dev, accepted, log>>

Dispatcher ==
    \/ \E o \in Ops, p \in Projects : Submit(o, p)
    \/ Spawn \/ WriteLock \/ WriteLockFails
    \/ \E p \in Projects : InlineBegin(p) \/ AloneBegin(p)
    \/ InlineEnd
    \/ \E p \in Projects : DevBegin(p) \/ DevEnd(p)
    \/ DaemonDies \/ DaemonStarts

-----------------------------------------------------------------------------
(* The child: run_lifecycle                                                *)

Go(o, from, to) ==
    /\ child[o] = from
    /\ child' = [child EXCEPT ![o] = to]
    /\ UNCHANGED <<dmn, target, dev, accepted>>

OpenLog(o) ==
    /\ Go(o, "boot", "try")
    /\ UNCHANGED <<lock, flock, holder, log>>

(* No op-log: the per-op lock goes and nothing is ever written.            *)
OpenLogFails(o) ==
    /\ Go(o, "boot", "nolog")
    /\ lock' = lock \ {o}
    /\ UNCHANGED <<flock, holder, log>>

TakeFlock(o, from) ==
    /\ flock = Nobody
    /\ Go(o, from, "hold")
    /\ flock' = o
    /\ UNCHANGED <<lock, holder, log>>

(* LOCK_NB fails: announce the queue, then block.                          *)
Queue(o) ==
    /\ flock # Nobody
    /\ Go(o, "try", "wait")
    /\ UNCHANGED <<lock, flock, holder, log>>

Terminal(o, record) == log' = [log EXCEPT ![o] = record]

(* An OS error before the flock is held.                                   *)
TryFails(o) ==
    /\ Go(o, "try", "close")
    /\ Terminal(o, "fail")
    /\ UNCHANGED <<lock, flock, holder>>

Hold(o) ==
    /\ Go(o, "hold", "act")
    /\ holder' = o
    /\ UNCHANGED <<lock, flock, log>>

(* lifecycle.holder cannot be written, at all or after it was truncated:   *)
(* the verb is not run.                                                    *)
HoldFails(o) ==
    /\ Go(o, "hold", "close")
    /\ Terminal(o, "fail")
    /\ holder' \in {holder, Nobody}
    /\ UNCHANGED <<lock, flock>>

(* The verb runs, and ends one way or the other.                           *)
Act(o) ==
    /\ Go(o, "act", "close")
    /\ \E record \in {"done", "fail"} : Terminal(o, record)
    /\ UNCHANGED <<lock, flock, holder>>

ClearHolder(o) ==
    /\ Go(o, "close", "unlock")
    /\ holder' = IF flock = o /\ holder = o THEN Nobody ELSE holder
    /\ UNCHANGED <<lock, flock, log>>

ReleaseLock(o) ==
    /\ Go(o, "unlock", "free")
    /\ lock' = lock \ {o}
    /\ UNCHANGED <<flock, holder, log>>

ReleaseFlock(o) ==
    /\ Go(o, "free", "exit")
    /\ flock' = Freed(o)
    /\ UNCHANGED <<lock, holder, log>>

Exit(o) ==
    /\ Go(o, "exit", "gone") \/ Go(o, "nolog", "lost")
    /\ UNCHANGED <<lock, flock, holder, log>>

(* OOM, kill -9: the files stay, the kernel drops the flock.               *)
Killed(o) ==
    /\ CanKill /\ Alive(o)
    /\ Go(o, child[o], "lost")
    /\ flock' = Freed(o)
    /\ UNCHANGED <<lock, holder, log>>

ChildStep(o) ==
    \/ OpenLog(o) \/ OpenLogFails(o)
    \/ TakeFlock(o, "try") \/ TakeFlock(o, "wait") \/ Queue(o) \/ TryFails(o)
    \/ Hold(o) \/ HoldFails(o) \/ Act(o) \/ ClearHolder(o) \/ ReleaseLock(o)
    \/ ReleaseFlock(o) \/ Exit(o)

-----------------------------------------------------------------------------
Next ==
    \/ Dispatcher
    \/ \E o \in Ops : ChildStep(o) \/ Killed(o)

(* A request that is being served and a child that can step go on; every   *)
(* verb ends.  Nobody has to send a request, and nobody dies by force.     *)
Fairness ==
    /\ WF_vars(Spawn) /\ WF_vars(WriteLock \/ WriteLockFails)
    /\ WF_vars(InlineEnd)
    /\ \A o \in Ops : WF_vars(ChildStep(o))

Spec     == Init /\ [][Next]_vars
FairSpec == Spec /\ Fairness

-----------------------------------------------------------------------------
(* Properties                                                              *)

(* Every variable holds a value of its type.                               *)
TypeOK ==
    /\ dmn \in [pc : DaemonSteps, op : Ops \cup {Nobody},
                project : Projects \cup {Nobody}]
    /\ child \in [Ops -> ChildPoints]
    /\ target \in [Ops -> Projects \cup {Nobody}]
    /\ lock \subseteq Ops
    /\ flock \in Ops \cup {Nobody, Daemon}
    /\ holder \in Ops \cup {Nobody}
    /\ dev \subseteq Projects
    /\ accepted \subseteq Ops
    /\ log \in [Ops -> {"none", "done", "fail"}]

(* "Project lifecycle actions run one at a time": two children never act   *)
(* at once, nor a child while the daemon creates or destroys a project,    *)
(* whoever is killed when.                                                 *)
OneActor ==
    \A o \in Ops : child[o] = "act" =>
        /\ dmn.pc # "alone"
        /\ \A q \in Ops \ {o} : child[q] # "act"

(* Of one project's actions that were answered started:true there is at    *)
(* most one that still has to run or runs: "two requests cannot both pass  *)
(* the refusal".  A child that was not answered for, because the daemon    *)
(* died before it wrote the lock, is the exception: nothing refuses for it.*)
Pending(o) == child[o] \in {"boot", "try", "wait", "hold", "act"}
OneOpPerProject ==
    \A o, q \in accepted :
        o # q /\ Pending(o) /\ Pending(q) => target[o] # target[q]

(* A verb that works inside a project's container is never under way while *)
(* an action that was answered for replaces that container, or waits to.   *)
ContainerStays ==
    dmn.pc = "inline" =>
        \A o \in accepted : Pending(o) => target[o] # dmn.project

(* The three of them: no two actors, whatever they are and whoever died    *)
(* before, are ever in each other's way.                                   *)
Exclusive == OneActor /\ OneOpPerProject /\ ContainerStays

(* "A reader that sees the op gone has already been able to read its       *)
(* terminal", unless it was killed or could not open a log; and an op is   *)
(* called running only while it holds the flock, whatever a killed one has *)
(* left in lifecycle.holder.                                               *)
ToldTrue ==
    /\ \A o \in accepted :
          o \notin Live /\ child[o] \notin {"nolog", "lost"} => log[o] # "none"
    /\ \A o \in Ops : ShownRunning(o) => flock = o

(* What the lane promises of every state: nobody is in another's way, and  *)
(* nobody who looks at the lock files, the holder and the logs is misled.  *)
LaneSafe == Exclusive /\ ToldTrue

(* "A hard-killed child can never wedge the queue": every op that was      *)
(* answered started:true ends, and frees its project for the next one.  A  *)
(* child without a lock is not promised that: create and destroy are not   *)
(* refused for it and may take the flock before it, time and again.        *)
OpsEnd ==
    /\ \A o \in Ops : o \in accepted ~> child[o] \in {"gone", "lost"}
    /\ \A p \in Projects : InFlight(p) ~> ~InFlight(p)

(* The lane implements one-at-a-time actions, each run at most once.       *)
Status(o) ==
    IF flock = o THEN "running"
    ELSE CASE child[o] = "none" -> "new"
           [] child[o] \in {"boot", "try", "wait"} -> "queued"
           [] OTHER -> "ended"
Actions == INSTANCE ActionQueue WITH
             status <- [o \in Ops |-> Status(o)],
             alone <- flock = Daemon
ImplementsQueue == Actions!QueueSpec
=============================================================================
