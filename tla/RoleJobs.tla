------------------------------ MODULE RoleJobs ------------------------------
(***************************************************************************)
(* The job side of a role-MCP daemon (container/role-mcp/daemon.py): the   *)
(* job files with the in-memory slot counter, and the coroutine behind one *)
(* send_job, which spawns an agent, waits for it under the sync bound and  *)
(* leaves a memory note.  Coroutines interleave only at an await, so a     *)
(* step here is the code between two awaits.                               *)
(*                                                                         *)
(* The daemon is its container's main process: when it goes, so do the     *)
(* agents it spawned.                                                      *)
(*                                                                         *)
(* A definition Bad... is a faulty variant of the one after it.  Nothing   *)
(* uses it; it is there to show that a property can fail.                  *)
(***************************************************************************)
EXTENDS Naturals, FiniteSets

CONSTANTS
    Calls,          \* the call ids that may be allocated
    Cap,            \* MAX_CONCURRENT_CALLS; 0 is uncapped
    SpawnCanFail,   \* the agent's process may fail to start
    StageCanFail,   \* so may the staging of the call's directory
    CanRestart      \* the container may be stopped or killed, and started

ASSUME JobsAssumption ==
    /\ IsFiniteSet(Calls)
    /\ Cap \in Nat
    /\ SpawnCanFail \in BOOLEAN /\ StageCanFail \in BOOLEAN
    /\ CanRestart \in BOOLEAN

VARIABLES
    up,         \* the daemon runs
    job,        \* per call: status and error of jobs/<call>.json
    mode,       \* per call: sync or async
    running,    \* JobTable._running_count
    at,         \* per call: where its coroutine is
    agent,      \* per call: the spawned process
    note        \* per call: memories/<caller>/<call>.md and who wrote it

vars == <<up, job, mode, running, at, agent, note>>

-----------------------------------------------------------------------------
JobStates == {"none", "running", "done", "failed", "sync_timeout", "orphan"}
Places    == {"none", "task", "exec", "wait", "ok", "bad", "reap", "late",
              "told", "end", "cut", "raised"}
Agents    == {"none", "alive", "exit 0", "exit 1"}
Notes     == {"none", "log", "stub", "cancelled", "sync_timeout"}

RunningJobs == {n \in Calls : job[n] = "running"}

Init ==
    /\ up = TRUE
    /\ job = [n \in Calls |-> "none"]
    /\ mode = [n \in Calls |-> "async"]
    /\ running = 0
    /\ at = [n \in Calls |-> "none"]
    /\ agent = [n \in Calls |-> "none"]
    /\ note = [n \in Calls |-> "none"]

-----------------------------------------------------------------------------
(* Admits one call too many.                                               *)
BadRegister(n) ==
    /\ up /\ job[n] = "none"
    /\ Cap = 0 \/ running <= Cap
    /\ job' = [job EXCEPT ![n] = "running"]
    /\ \E m \in {"sync", "async"} : mode' = [mode EXCEPT ![n] = m]
    /\ running' = running + 1
    /\ at' = [at EXCEPT ![n] = "task"]
    /\ UNCHANGED <<up, agent, note>>

(* send_job with credentials staged: register, under the lock, or refuse.  *)
Register(n) ==
    /\ up /\ job[n] = "none"
    /\ Cap = 0 \/ running < Cap
    /\ job' = [job EXCEPT ![n] = "running"]
    /\ \E m \in {"sync", "async"} : mode' = [mode EXCEPT ![n] = m]
    /\ running' = running + 1
    /\ at' = [at EXCEPT ![n] = "task"]
    /\ UNCHANGED <<up, agent, note>>

Move(n, from, to) ==
    /\ up
    /\ at[n] = from
    /\ at' = [at EXCEPT ![n] = to]
    /\ UNCHANGED <<up, mode>>

NoteIfNone(n, text) ==
    note' = IF note[n] = "none" THEN [note EXCEPT ![n] = text] ELSE note

(* run: stage the call's directory and ask for the process.                *)
Stage(n) ==
    /\ \/ Move(n, "task", "exec")
       \/ StageCanFail /\ Move(n, "task", "raised")
    /\ UNCHANGED <<job, running, agent, note>>

(* ... which starts, or "spawn failed" is returned.                        *)
Start(n) ==
    /\ \/ Move(n, "exec", "wait") /\ agent' = [agent EXCEPT ![n] = "alive"]
       \/ SpawnCanFail /\ Move(n, "exec", "bad") /\ UNCHANGED agent
    /\ UNCHANGED <<job, running, note>>

(* The agent may write its own log, and ends one way or the other.         *)
AgentLogs(n) ==
    /\ agent[n] = "alive"
    /\ note' = [note EXCEPT ![n] = "log"]
    /\ UNCHANGED <<up, job, mode, running, at, agent>>

AgentEnds(n) ==
    /\ agent[n] = "alive"
    /\ \E e \in {"exit 0", "exit 1"} : agent' = [agent EXCEPT ![n] = e]
    /\ UNCHANGED <<up, job, mode, running, at, note>>

(* communicate() returns: a missing log is replaced by a stub.             *)
Collect(n) ==
    /\ \/ agent[n] = "exit 0" /\ Move(n, "wait", "ok")
       \/ agent[n] = "exit 1" /\ Move(n, "wait", "bad")
    /\ NoteIfNone(n, "stub")
    /\ UNCHANGED <<job, running, agent>>

(* mark_done, mark_failed: only a job that was running frees a slot.       *)
Mark(n, status) ==
    /\ job' = [job EXCEPT ![n] = status]
    /\ running' = IF job[n] = "running" /\ running > 0 THEN running - 1
                                                       ELSE running

MarkDone(n) ==
    /\ Move(n, "ok", "end")
    /\ Mark(n, "done")
    /\ UNCHANGED <<agent, note>>

MarkFailed(n) ==
    /\ Move(n, "bad", "end")
    /\ Mark(n, "failed")
    /\ UNCHANGED <<agent, note>>

-----------------------------------------------------------------------------
(* The sync bound cancels run() at the await it is at.                     *)

(* Before the process exists to the handler nobody leaves a note.          *)
TimeoutEarly(n) ==
    /\ mode[n] = "sync"
    /\ Move(n, "task", "late") \/ Move(n, "exec", "late")
    /\ UNCHANGED <<job, running, agent, note>>

(* The cancelled call is nobody's to mark.                                 *)
BadTimeoutUnmarked(n) ==
    /\ mode[n] = "sync"
    /\ Move(n, "wait", "end")
    /\ agent' = [agent EXCEPT ![n] = IF @ = "alive" THEN "exit 1" ELSE @]
    /\ UNCHANGED <<job, running, note>>

(* Else the process group is killed and awaited ...                        *)
Timeout(n) ==
    /\ mode[n] = "sync"
    /\ Move(n, "wait", "reap")
    /\ agent' = [agent EXCEPT ![n] = IF @ = "alive" THEN "exit 1" ELSE @]
    /\ UNCHANGED <<job, running, note>>

(* Takes every cancellation for a timeout.                                 *)
BadReapNote(n) ==
    /\ Move(n, "reap", "late")
    /\ NoteIfNone(n, "sync_timeout")
    /\ UNCHANGED <<job, running, agent>>

(* ... and a neutral note left if there is none.                           *)
Reap(n) ==
    /\ Move(n, "reap", "late")
    /\ NoteIfNone(n, "cancelled")
    /\ UNCHANGED <<job, running, agent>>

(* The timeout arm of tool_send_job: the job is filed, the slot free ...   *)
MarkTimeout(n) ==
    /\ Move(n, "late", "told")
    /\ Mark(n, "sync_timeout")
    /\ UNCHANGED <<agent, note>>

(* ... and, a write later, the note upgraded.                              *)
NoteTimeout(n) ==
    /\ Move(n, "told", "end")
    /\ note' = IF note[n] \in {"none", "cancelled"}
               THEN [note EXCEPT ![n] = "sync_timeout"] ELSE note
    /\ UNCHANGED <<job, running, agent>>

-----------------------------------------------------------------------------
(* The container stops or is killed: handlers that are reached write their *)
(* neutral note; the job files stay as they are.  A call that goes between *)
(* its job's end and its note is cut.                                      *)
Down ==
    /\ CanRestart /\ up
    /\ up' = FALSE
    /\ \E reached \in SUBSET {n \in Calls : at[n] \in {"wait", "reap"}} :
          note' = [n \in Calls |-> IF n \in reached /\ note[n] = "none"
                                   THEN "cancelled" ELSE note[n]]
    /\ agent' = [n \in Calls |-> IF agent[n] = "alive" THEN "exit 1"
                                                       ELSE agent[n]]
    /\ at' = [n \in Calls |-> CASE at[n] = "none" -> "none"
                                 [] at[n] \in {"told", "cut"} -> "cut"
                                 [] OTHER -> "end"]
    /\ UNCHANGED <<job, mode, running>>

(* reconcile_on_startup: the running jobs are orphans, no slot is taken.   *)
Up ==
    /\ ~up
    /\ up' = TRUE
    /\ job' = [n \in Calls |-> IF job[n] = "running" THEN "orphan" ELSE job[n]]
    /\ running' = 0
    /\ UNCHANGED <<mode, at, agent, note>>

Daemon(n) ==
    \/ Stage(n) \/ Start(n) \/ Collect(n) \/ MarkDone(n) \/ MarkFailed(n)
    \/ Reap(n) \/ MarkTimeout(n) \/ NoteTimeout(n)

Next ==
    \/ \E n \in Calls :
          \/ Register(n) \/ Daemon(n) \/ TimeoutEarly(n) \/ Timeout(n)
          \/ AgentLogs(n) \/ AgentEnds(n)
    \/ Down \/ Up

(* The event loop runs what is ready, and an agent's turn ends.  The bound *)
(* need not strike and nobody has to send or restart anything.             *)
Fairness == \A n \in Calls : WF_vars(Daemon(n)) /\ WF_vars(AgentEnds(n))

Spec     == Init /\ [][Next]_vars
FairSpec == Spec /\ Fairness

-----------------------------------------------------------------------------
(* Properties                                                              *)

(* Every variable holds a value of its type.                               *)
TypeOK ==
    /\ up \in BOOLEAN
    /\ job \in [Calls -> JobStates]
    /\ mode \in [Calls -> {"sync", "async"}]
    /\ running \in Nat
    /\ at \in [Calls -> Places]
    /\ agent \in [Calls -> Agents]
    /\ note \in [Calls -> Notes]

(* The counter that admits calls is the number of jobs a caller would see  *)
(* running: no slot is freed twice, none is kept by a job that ended; and  *)
(* never are more agents at work than the cap, not even across a timeout   *)
(* (the group is dead before the slot is free) or a restart.               *)
SlotsExact ==
    /\ up => running = Cardinality(RunningJobs)
    /\ Cap > 0 => Cardinality({n \in Calls : agent[n] = "alive"}) <= Cap

(* "Every call leaves a trace for summarize regardless of how it ended":   *)
(* every call whose agent was started or that ran into the sync bound.     *)
(* The note says sync_timeout exactly when the bound struck and the agent  *)
(* had not written its own: "Summarize therefore never learns `this query  *)
(* blows the sync budget' from a routine project stop".  Between the two   *)
(* writes of the timeout's arm the job is filed and the note is not yet    *)
(* its; a call that was cut there keeps the handler's word, or none.  And  *)
(* a job that has ended has no agent left working for it.                  *)
NoteTellsWhy ==
    \A n \in Calls :
        /\ note[n] = "sync_timeout" => job[n] = "sync_timeout"
        /\ job[n] = "sync_timeout" =>
              \/ note[n] \in {"sync_timeout", "log"}
              \/ at[n] \in {"told", "cut"} /\ note[n] \in {"none", "cancelled"}
        /\ job[n] \in {"done", "failed"} /\ agent[n] # "none" => note[n] # "none"
        /\ job[n] \in {"done", "failed", "sync_timeout"} => agent[n] # "alive"

(* A polling caller does not wait for ever: every job ends, or the daemon  *)
(* does (and reconciles it when it is back), unless staging the call's     *)
(* directory has failed.                                                   *)
JobEnds ==
    \A n \in Calls : job[n] = "running" ~>
                        (job[n] # "running" \/ ~up \/ at[n] = "raised")
=============================================================================
