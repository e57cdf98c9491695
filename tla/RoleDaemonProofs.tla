-------------------------- MODULE RoleDaemonProofs --------------------------
(***************************************************************************)
(* Proofs about a role-MCP daemon.  RoleJobs, for any calls and any cap,   *)
(* wherever bounds strike, spawns fail and the container stops: its type   *)
(* invariant, that every note tells why its job ended, and that the slots  *)
(* are exact.  RoleMemory, for any callers, calls and summaries, overlaps, *)
(* kills and ids out of order included: no note is passed over but one     *)
(* that came after a greater id, and none goes in twice but for the        *)
(* exceptions.  RoleDaemon: each behaviour is one of each of them.         *)
(***************************************************************************)
EXTENDS RoleDaemon, FiniteSetTheorems, WellFoundedInduction, TLAPS

-----------------------------------------------------------------------------
(* Jobs                                                                    *)

(* Where a coroutine is tells what its job and its agent are: on its way   *)
(* the job runs, before the spawn there is no agent, and only a coroutine  *)
(* that waits for its agent has a living one.                              *)
InStep(n) ==
    /\ at[n] \notin {"none", "told", "end", "cut"} => up /\ job[n] = "running"
    /\ at[n] = "told" => up
    /\ at[n] \in {"told", "cut"} => job[n] = "sync_timeout"
    /\ at[n] = "none" <=> job[n] = "none"
    /\ at[n] \in {"none", "task", "exec"} => agent[n] = "none"
    /\ agent[n] = "alive" => at[n] = "wait"

(* What a note says depends on the way the call has taken: a stub stands   *)
(* only where the agent was collected, the bound's word after the bound.   *)
NoteFits(n) ==
    /\ note[n] = "stub" => at[n] \in {"ok", "bad", "end"}
    /\ note[n] = "sync_timeout" => job[n] = "sync_timeout"
    /\ job[n] = "sync_timeout" =>
          \/ note[n] \in {"sync_timeout", "log"}
          \/ at[n] \in {"told", "cut"} /\ note[n] \in {"none", "cancelled"}
    /\ at[n] \in {"ok", "bad"} /\ agent[n] # "none" => note[n] # "none"
    /\ job[n] \in {"done", "failed"} /\ agent[n] # "none" => note[n] # "none"

(* The call is as it was.                                                  *)
Untouched(n) ==
    /\ at'[n] = at[n] /\ job'[n] = job[n]
    /\ agent'[n] = agent[n] /\ note'[n] = note[n]

JobInv == TypeOK /\ \A n \in Calls : InStep(n) /\ NoteFits(n)

-----------------------------------------------------------------------------
(* A step of one call leaves the others fitting.                           *)
LEMMA OthersFit ==
    ASSUME NEW n \in Calls, JobInv, up' = up, TypeOK',
           InStep(n)', NoteFits(n)',
           \A m \in Calls \ {n} : Untouched(m)
    PROVE  JobInv'
BY DEF JobInv, InStep, NoteFits, Untouched

(* The invariant holds in every state.                                     *)
THEOREM JobInvariant == Spec => []JobInv
<1>1. Init => JobInv
  BY DEF Init, JobInv, TypeOK, InStep, NoteFits, JobStates, Places, Agents,
         Notes
<1>2. JobInv /\ [Next]_vars => JobInv'
  <2> SUFFICES ASSUME JobInv, [Next]_vars PROVE JobInv'
    OBVIOUS
  <2> USE DEF JobInv, TypeOK
  <2>1. ASSUME NEW n \in Calls,
               Register(n) \/ Daemon(n) \/ TimeoutEarly(n) \/ Timeout(n)
               \/ AgentLogs(n) \/ AgentEnds(n)
        PROVE  JobInv'
    <3>1. up' = up /\ \A m \in Calls \ {n} : Untouched(m)
      BY <2>1 DEF Register, Daemon, Stage, Start, Collect, MarkDone, MarkFailed,
                  Mark, Reap, MarkTimeout, NoteTimeout, TimeoutEarly, Timeout,
                  AgentLogs, AgentEnds, Move, NoteIfNone, Untouched
    <3>2. TypeOK'
      <4> USE DEF Register, Daemon, Stage, Start, Collect, MarkDone, MarkFailed,
                  Reap, MarkTimeout, NoteTimeout, TimeoutEarly, Timeout,
                  AgentLogs, AgentEnds
      <4>1. up' \in BOOLEAN
        BY <2>1 DEF Move
      <4>2. job' \in [Calls -> JobStates]
        BY <2>1 DEF Mark, JobStates
      <4>3. mode' \in [Calls -> {"sync", "async"}]
        <5>1. CASE Register(n)
          <6>1. PICK m \in {"sync", "async"} :
                   mode' = [mode EXCEPT ![n] = m]
            BY <5>1
          <6> QED
            BY <6>1
        <5>2. CASE mode' = mode
          BY <5>2
        <5> QED
          BY <2>1, <5>1, <5>2 DEF Move
      <4>4. running' \in Nat
        <5>1. \/ running' = running \/ running' = running + 1
              \/ running > 0 /\ running' = running - 1
          BY <2>1 DEF Mark
        <5> QED
          BY <5>1
      <4>5. at' \in [Calls -> Places]
        BY <2>1 DEF Move, Places
      <4>6. agent' \in [Calls -> Agents]
        BY <2>1 DEF Agents
      <4>7. note' \in [Calls -> Notes]
        BY <2>1 DEF NoteIfNone, Notes
      <4> QED
        BY <4>1, <4>2, <4>3, <4>4, <4>5, <4>6, <4>7
    <3>3. InStep(n)' /\ NoteFits(n)'
      <4> USE DEF InStep, NoteFits
      <4>1. CASE Register(n)
        BY <4>1 DEF Register
      <4>2. CASE Stage(n)
        BY <4>2 DEF Stage, Move
      <4>3. CASE Start(n)
        BY <4>3 DEF Start, Move
      <4>4. CASE Collect(n)
        BY <4>4 DEF Collect, Move, NoteIfNone
      <4>5. CASE MarkDone(n) \/ MarkFailed(n)
        BY <4>5 DEF MarkDone, MarkFailed, Mark, Move
      <4>6. CASE Reap(n)
        BY <4>6 DEF Reap, Move, NoteIfNone
      <4>7. CASE MarkTimeout(n)
        BY <4>7 DEF MarkTimeout, Mark, Move, Notes
      <4>10. CASE NoteTimeout(n)
        BY <4>10 DEF NoteTimeout, Move, Notes
      <4>8. CASE TimeoutEarly(n) \/ Timeout(n)
        BY <4>8 DEF TimeoutEarly, Timeout, Move
      <4>9. CASE AgentLogs(n) \/ AgentEnds(n)
        BY <4>9 DEF AgentLogs, AgentEnds
      <4> QED
        BY <2>1, <4>1, <4>2, <4>3, <4>4, <4>5, <4>6, <4>7, <4>8, <4>9, <4>10
           DEF Daemon
    <3> QED
      BY <3>1, <3>2, <3>3, OthersFit
  <2>2. ASSUME Down
        PROVE  JobInv'
    <3>1. TypeOK'
      <4>1. at' \in [Calls -> Places]
        BY <2>2 DEF Down, Places
      <4>2. agent' \in [Calls -> Agents]
        BY <2>2 DEF Down, Agents
      <4>3. note' \in [Calls -> Notes]
        BY <2>2 DEF Down, Notes
      <4> QED
        BY <2>2, <4>1, <4>2, <4>3 DEF Down
    <3>2. ASSUME NEW m \in Calls
          PROVE  InStep(m)' /\ NoteFits(m)'
      BY <2>2 DEF Down, InStep, NoteFits
    <3> QED
      BY <3>1, <3>2
  <2>3. ASSUME Up
        PROVE  JobInv'
    BY <2>3 DEF Up, JobStates, Places, Agents, Notes, InStep, NoteFits
  <2>4. ASSUME UNCHANGED vars
        PROVE  JobInv'
    BY <2>4 DEF vars, InStep, NoteFits
  <2> QED
    BY <2>1, <2>2, <2>3, <2>4 DEF Next
<1> QED
  BY <1>1, <1>2, PTL DEF Spec

(* Every variable of the job table holds a value of its type.              *)
THEOREM JobsTyped == Spec => []TypeOK
<1>1. JobInv => TypeOK
  BY DEF JobInv
<1> QED
  BY <1>1, JobInvariant, PTL

(* Whatever a call met, its note tells how it ended, and a job that has    *)
(* ended has no agent at work.                                             *)
THEOREM NotesTellWhy == Spec => []NoteTellsWhy
<1>1. JobInv => NoteTellsWhy
  BY DEF JobInv, TypeOK, InStep, NoteFits, NoteTellsWhy
<1> QED
  BY <1>1, JobInvariant, PTL

-----------------------------------------------------------------------------
(* The counter of a daemon that runs is the number of its running jobs,    *)
(* and it respects the cap.                                                *)
SlotsInv ==
    /\ up => running = Cardinality(RunningJobs)
    /\ up /\ Cap > 0 => running <= Cap

(* Marking the running job of a call takes exactly that one off the count. *)
LEMMA MarkFreesOne ==
    ASSUME NEW n \in Calls, NEW status \in JobStates \ {"running"},
           JobInv, SlotsInv, up, up' = up, job[n] = "running",
           Mark(n, status)
    PROVE  SlotsInv'
<1>1. IsFiniteSet(RunningJobs) /\ n \in RunningJobs
  BY JobsAssumption, FS_Subset DEF RunningJobs
<1>2. RunningJobs' = RunningJobs \ {n}
  BY DEF Mark, RunningJobs, JobInv, TypeOK
<1>3. Cardinality(RunningJobs') = Cardinality(RunningJobs) - 1
  BY <1>1, <1>2, FS_RemoveElement
<1>4. Cardinality(RunningJobs) \in Nat /\ Cardinality(RunningJobs) # 0
  BY <1>1, FS_CardinalityType, FS_EmptySet
<1>5. running' = running - 1
  BY <1>4 DEF Mark, SlotsInv, JobInv, TypeOK
<1> QED
  BY <1>3, <1>4, <1>5, JobsAssumption DEF SlotsInv

(* The counter is exact in every state: the slots of the jobs a caller     *)
(* would see running, each once, within the cap.                           *)
THEOREM SlotsInvariant == Spec => []SlotsInv
<1>1. Init => SlotsInv
  <2>1. Init => RunningJobs = {}
    BY DEF Init, RunningJobs
  <2> QED
    BY <2>1, FS_EmptySet, JobsAssumption DEF Init, SlotsInv
<1>2. JobInv /\ SlotsInv /\ [Next]_vars => SlotsInv'
  <2> SUFFICES ASSUME JobInv, SlotsInv, [Next]_vars PROVE SlotsInv'
    OBVIOUS
  <2>1. ASSUME NEW n \in Calls, Register(n)
        PROVE  SlotsInv'
    <3>1. IsFiniteSet(RunningJobs) /\ n \notin RunningJobs
      BY <2>1, JobsAssumption, FS_Subset DEF RunningJobs, Register
    <3>2. RunningJobs' = RunningJobs \cup {n}
      BY <2>1 DEF Register, RunningJobs, JobInv, TypeOK
    <3>3. Cardinality(RunningJobs') = Cardinality(RunningJobs) + 1
      BY <3>1, <3>2, FS_AddElement
    <3> QED
      BY <2>1, <3>3, JobsAssumption DEF Register, SlotsInv, JobInv, TypeOK
  <2>2. ASSUME NEW n \in Calls, MarkDone(n) \/ MarkFailed(n) \/ MarkTimeout(n)
        PROVE  SlotsInv'
    <3>1. up /\ up' = up /\ job[n] = "running"
      BY <2>2 DEF MarkDone, MarkFailed, MarkTimeout, Move, JobInv, InStep
    <3>2. PICK status \in JobStates \ {"running"} : Mark(n, status)
      BY <2>2 DEF MarkDone, MarkFailed, MarkTimeout, JobStates
    <3> QED
      BY <3>1, <3>2, MarkFreesOne
  <2>3. ASSUME UNCHANGED <<up, job, running>>
        PROVE  SlotsInv'
    BY <2>3 DEF SlotsInv, RunningJobs
  <2>4. ASSUME Down
        PROVE  SlotsInv'
    BY <2>4 DEF Down, SlotsInv
  <2>5. ASSUME Up
        PROVE  SlotsInv'
    <3>1. RunningJobs' = {}
      BY <2>5 DEF Up, RunningJobs, JobInv, TypeOK, JobStates
    <3> QED
      BY <2>5, <3>1, FS_EmptySet, JobsAssumption DEF Up, SlotsInv
  <2> QED
    BY <2>1, <2>2, <2>3, <2>4, <2>5
       DEF Next, Daemon, vars, Stage, Start, Collect, Reap, NoteTimeout,
           TimeoutEarly, Timeout, AgentLogs, AgentEnds, Move
<1> QED
  BY <1>1, <1>2, JobInvariant, PTL DEF Spec

(* The slots are exact, and never are more agents at work than the cap:    *)
(* an agent that lives belongs to a running job of a daemon that runs.     *)
THEOREM SlotsStayExact == Spec => []SlotsExact
<1>1. JobInv /\ SlotsInv => SlotsExact
  <2> SUFFICES ASSUME JobInv, SlotsInv, Cap > 0
               PROVE  Cardinality({n \in Calls : agent[n] = "alive"}) <= Cap
    BY DEF SlotsInv, SlotsExact
  <2> DEFINE Alive == {n \in Calls : agent[n] = "alive"}
  <2>1. Alive \subseteq RunningJobs
    BY DEF JobInv, InStep, RunningJobs
  <2>2. IsFiniteSet(RunningJobs)
    BY JobsAssumption, FS_Subset DEF RunningJobs
  <2>3. Cardinality(Alive) <= Cardinality(RunningJobs)
    BY <2>1, <2>2, FS_Subset
  <2>4. IsFiniteSet(Alive)
    BY <2>1, <2>2, FS_Subset
  <2>5. Cardinality(Alive) \in Nat /\ Cardinality(RunningJobs) \in Nat
    BY <2>2, <2>4, FS_CardinalityType
  <2>6. CASE up
    BY <2>3, <2>5, <2>6, JobsAssumption DEF SlotsInv, JobInv, TypeOK
  <2>7. CASE ~up
    <3>1. Alive = {}
      BY <2>7 DEF JobInv, InStep
    <3> QED
      BY <3>1, FS_EmptySet, JobsAssumption
  <2> QED
    BY <2>6, <2>7
<1> QED
  BY <1>1, JobInvariant, SlotsInvariant, PTL

-----------------------------------------------------------------------------
(* Memory                                                                  *)

(* The marks and the summaries under way are about notes that exist, ...   *)
MemoryTyped ==
    /\ Started \subseteq Sent /\ from \in [Started -> Callers]
    /\ notes \subseteq Started
    /\ mark \in [Callers -> Nat]
    /\ sum \in [Sums -> SUBSET notes]
    /\ digest \in [Sent -> 0..2]
    /\ disturbed \in BOOLEAN

MarksFit == \A c \in Callers : mark[c] # 0 => mark[c] \in notes \cap Of(c)

(* ... what lies below a mark has gone in, unless it came too late, ...    *)
Timely     == notes \ late
NonePassed == \A n \in Timely : n <= mark[from[n]] => digest[n] > 0

(* ... and whoever is summarizing a note has in hand, or finds in          *)
(* global.md, all of that caller's before it that did not.                 *)
NoGaps ==
    \A s \in Sums : \A n \in sum[s] : \A m \in Timely \cap Of(from[n]) :
        m <= n => m \in sum[s] \/ digest[m] > 0

(* Until something is disturbed, one summary is under way at most, about   *)
(* what lies past the marks, and what is in global.md does not.            *)
Undisturbed ==
    ~disturbed =>
        /\ \A r, s \in Sums : sum[r] # {} /\ sum[s] # {} => r = s
        /\ \A s \in Sums : \A n \in sum[s] : n > mark[from[n]]
        /\ \A n \in Sent : /\ digest[n] <= 1
                           /\ digest[n] > 0 => /\ n \in Started
                                               /\ n <= mark[from[n]]

MemoryInv == /\ MemoryTyped /\ MarksFit /\ NoGaps
             /\ NonePassed /\ Undisturbed

(* A set of natural numbers that is not empty has a least element ...      *)
LEMMA NatMin ==
    ASSUME NEW S \in SUBSET Nat, S # {}
    PROVE  \E x \in S : \A y \in S : x <= y
<1> DEFINE R == {ss \in Nat \X Nat : ss[1] < ss[2]}
<1>1. IsWellFoundedOn(R, Nat)
  BY NatLessThanWellFounded DEF OpToRel
<1> HIDE DEF R
<1>2. PICK x \in S : \A y \in S : <<y, x>> \notin R
  BY <1>1, WFMin
<1>3. \A y \in S : y \in Nat /\ x \in Nat /\ ~(y < x)
  BY <1>2 DEF R
<1> QED BY <1>3

(* ... and, if it is bounded, a greatest one, which Max returns.           *)
LEMMA MaxIs ==
    ASSUME NEW b \in Nat, NEW S \in SUBSET (0..b), S # {}
    PROVE  Max(S) \in S /\ \A y \in S : y <= Max(S)
<1> DEFINE Below == {b - y : y \in S}
<1>1. PICK d \in Below : \A e \in Below : d <= e
  <2>1. Below \in SUBSET Nat /\ Below # {}
    <3>1. \A y \in S : y \in Nat /\ y <= b /\ b - y \in Nat
      OBVIOUS
    <3> QED BY <3>1
  <2> QED BY <2>1, NatMin
<1>2. PICK x \in S : d = b - x
  BY <1>1
<1>3. \A y \in S : x >= y
  <2> SUFFICES ASSUME NEW y \in S PROVE x >= y
    OBVIOUS
  <2>1. x \in Nat /\ y \in Nat /\ b - y \in Below
    OBVIOUS
  <2>2. b - x <= b - y
    BY <1>1, <1>2, <2>1
  <2> QED BY <2>1, <2>2
<1>4. Max(S) \in S /\ \A y \in S : Max(S) >= y
  BY <1>3 DEF Max
<1> QED BY <1>4

(* A caller's mark after a summary: the last of its notes in the batch, or *)
(* as it was.                                                              *)
LEMMA MarkedIs ==
    ASSUME MemoryTyped, NEW s \in Sums, NEW c \in Callers
    PROVE  \/ /\ Marked(s)[c] \in sum[s] \cap Of(c)
              /\ \A n \in sum[s] \cap Of(c) : n <= Marked(s)[c]
           \/ sum[s] \cap Of(c) = {} /\ Marked(s)[c] = mark[c]
<1> DEFINE Batch == sum[s] \cap Of(c)
<1>1. Marked(s)[c] = IF Batch = {} THEN mark[c] ELSE Max(Batch)
  BY DEF Marked
<1>2. MaxCalls \in Nat /\ Batch \subseteq 0..MaxCalls
  <2>1. Batch \subseteq Sent
    BY DEF MemoryTyped
  <2> QED BY <2>1, MemoryAssumption DEF Sent
<1>3. CASE Batch = {}
  BY <1>1, <1>3
<1>4. CASE Batch # {}
  BY <1>1, <1>2, <1>4, MaxIs
<1> QED BY <1>3, <1>4

(* A summary writes its notes into global.md and changes no other entry.   *)
LEMMA DigestedIs ==
    ASSUME MemoryTyped, NEW s \in Sums
    PROVE  /\ Digested(s) \in [Sent -> 0..2]
           /\ \A n \in Sent : /\ n \in sum[s] => Digested(s)[n] > 0
                              /\ digest[n] > 0 => Digested(s)[n] > 0
                              /\ n \notin sum[s] =>
                                    Digested(s)[n] = digest[n]
                              /\ n \in sum[s] /\ digest[n] = 0 =>
                                    Digested(s)[n] = 1
BY DEF Digested, MemoryTyped

(* The numbers of the calls.                                               *)
LEMMA NotesAreSent ==
    ASSUME MemoryTyped
    PROVE  /\ \A n \in Started : n \in Sent /\ n \in Nat /\ from[n] \in Callers
           /\ \A n \in notes : n \in Started /\ n \in Of(from[n])
           /\ \A s \in Sums : \A n \in sum[s] : n \in notes
BY MemoryAssumption DEF MemoryTyped, Started, Sent, Of

-----------------------------------------------------------------------------
(* The invariant holds in every state, whatever the order of ids and ends. *)
THEOREM MemoryInvariant == MemorySpec => []MemoryInv
<1>1. MemoryInit => MemoryInv
  <2> SUFFICES ASSUME MemoryInit PROVE MemoryInv
    OBVIOUS
  <2>1. /\ Started = {} /\ from \in [Started -> Callers]
        /\ notes = {} /\ disturbed = FALSE
        /\ \A s \in Sums : sum[s] = {}
        /\ \A c \in Callers : mark[c] = 0
    BY DEF MemoryInit, Started
  <2>2. /\ mark \in [Callers -> Nat] /\ sum \in [Sums -> SUBSET notes]
        /\ digest \in [Sent -> 0..2] /\ \A n \in Sent : digest[n] = 0
    BY <2>1 DEF MemoryInit
  <2>3. MemoryTyped
    <3>1. disturbed \in BOOLEAN
      BY <2>1, Zenon
    <3>2. notes \subseteq Started /\ Started \subseteq Sent
      BY <2>1
    <3> QED BY <2>1, <2>2, <3>1, <3>2, Zenon DEF MemoryTyped
  <2>4. MarksFit /\ NoGaps /\ NonePassed /\ Undisturbed
    BY <2>1, <2>2 DEF MarksFit, NoGaps, NonePassed, Timely, Undisturbed
  <2> QED BY <2>3, <2>4 DEF MemoryInv
<1>2. MemoryInv /\ [MemoryNext]_memoryVars => MemoryInv'
  <2> SUFFICES ASSUME MemoryInv, [MemoryNext]_memoryVars PROVE MemoryInv'
    OBVIOUS
  <2>0. /\ MemoryTyped /\ MarksFit /\ NoGaps /\ NonePassed /\ Undisturbed
        /\ \A n \in Started : n \in Sent /\ n \in Nat /\ from[n] \in Callers
        /\ \A n \in notes : n \in Started /\ n \in Of(from[n])
        /\ \A s \in Sums : \A n \in sum[s] : n \in notes
    BY NotesAreSent DEF MemoryInv
  <2>1. ASSUME NEW c \in Callers, StartCall(c)
        PROVE  MemoryInv'
    <3>1. PICK k \in Sent \ Started :
             from' = [m \in Started \cup {k} |-> IF m = k THEN c ELSE from[m]]
      BY <2>1 DEF StartCall
    <3>2. UNCHANGED <<notes, mark, sum, digest, late, disturbed>>
      BY <2>1 DEF StartCall
    <3>3. /\ Started' = Started \cup {k} /\ k \notin Started
          /\ from' \in [Started' -> Callers]
          /\ \A n \in Started : from'[n] = from[n]
      BY <2>0, <3>1 DEF MemoryTyped, Started
    <3>4. MemoryTyped'
      BY <2>0, <3>1, <3>2, <3>3 DEF MemoryTyped, Sent
    <3>5. /\ \A n \in notes : from'[n] = from[n] /\ n \in Started
          /\ \A d \in Callers : notes \cap Of(d)' = notes \cap Of(d)
      BY <2>0, <3>3 DEF Of
    <3>6. MarksFit'
      BY <2>0, <3>2, <3>5 DEF MarksFit
    <3>7. NoGaps'
      BY <2>0, <3>2, <3>5 DEF NoGaps, Timely
    <3>8. NonePassed'
      BY <2>0, <3>2, <3>5 DEF NonePassed, Timely
    <3>9. Undisturbed'
      BY <2>0, <3>2, <3>3, <3>5 DEF Undisturbed
    <3> QED BY <3>4, <3>6, <3>7, <3>8, <3>9 DEF MemoryInv
  <2>2. ASSUME NEW k \in Started, WriteNote(k)
        PROVE  MemoryInv'
    <3>1. /\ k \notin notes /\ notes' = notes \cup {k}
          /\ late \subseteq late'
          /\ k \in late' \/ \A m \in notes \cap Of(from[k]) : ~(m > k)
          /\ UNCHANGED <<from, mark, sum, digest, disturbed>>
      BY <2>2 DEF WriteNote
    <3>2. UNCHANGED Started /\ \A c \in Callers : UNCHANGED Of(c)
      BY <3>1 DEF Started, Of
    <3>3. MemoryTyped'
      BY <2>0, <3>1, <3>2 DEF MemoryTyped
    <3>4. k \in Of(from[k]) /\ from[k] \in Callers /\ k \in Nat /\ 0 < k
      BY <2>0 DEF Of, Sent
    <3>5. MarksFit'
      BY <2>0, <3>1, <3>2 DEF MarksFit
    <3>6. ASSUME k \in Timely'
          PROVE  \A n \in notes : from[n] = from[k] => n < k
      BY <2>0, <3>1, <3>4, <3>6 DEF Timely, Of
    <3>7. NoGaps'
      <4> SUFFICES ASSUME NEW s \in Sums, NEW n \in sum[s],
                          NEW m \in Timely' \cap Of(from[n]), m <= n
                   PROVE  m \in sum[s] \/ digest[m] > 0
        BY <2>0, <3>1, <3>2 DEF NoGaps
      <4>1. n \in notes /\ n \in Nat /\ from[m] = from[n]
        BY <2>0 DEF Of
      <4>2. m # k
        BY <3>4, <3>6, <4>1
      <4> QED BY <2>0, <3>1, <4>2 DEF NoGaps, Timely
    <3>8. NonePassed'
      <4>1. ASSUME k \in Timely' PROVE mark[from[k]] < k
        <5>1. CASE mark[from[k]] = 0
          BY <3>4, <5>1
        <5>2. CASE mark[from[k]] # 0
          BY <2>0, <3>4, <3>6, <4>1, <5>2 DEF MarksFit, Of
        <5> QED BY <5>1, <5>2
      <4>2. ASSUME NEW n \in Timely', n <= mark[from[n]]
            PROVE  digest[n] > 0
        <5>1. n # k
          BY <2>0, <3>4, <4>1, <4>2 DEF MemoryTyped
        <5> QED BY <2>0, <3>1, <4>2, <5>1 DEF NonePassed, Timely
      <4> QED BY <3>1, <4>2 DEF NonePassed
    <3>9. Undisturbed'
      BY <2>0, <3>1, <3>2 DEF Undisturbed
    <3> QED BY <3>3, <3>5, <3>7, <3>8, <3>9 DEF MemoryInv
  <2>3. ASSUME NEW s \in Sums, Summarize(s)
        PROVE  MemoryInv'
    <3>1. /\ sum[s] = {} /\ sum' = [sum EXCEPT ![s] = ListNew]
          /\ disturbed' = (disturbed \/ \E r \in Sums : sum[r] # {})
          /\ UNCHANGED <<from, notes, mark, digest, late>>
      BY <2>3 DEF Summarize
    <3>2. UNCHANGED Started /\ \A c \in Callers : UNCHANGED Of(c)
      BY <3>1 DEF Started, Of
    <3>3. /\ sum'[s] = ListNew /\ ListNew \subseteq notes
          /\ \A r \in Sums \ {s} : sum'[r] = sum[r]
      BY <2>0, <3>1 DEF MemoryTyped, ListNew
    <3>4. MemoryTyped'
      BY <2>0, <3>1, <3>2, <3>3 DEF MemoryTyped
    <3>5. MarksFit' /\ NonePassed'
      BY <2>0, <3>1, <3>2 DEF MarksFit, NonePassed, Timely
    <3>6. NoGaps'
      <4>1. ASSUME NEW n \in ListNew, NEW m \in Timely \cap Of(from[n]), m <= n
            PROVE  m \in ListNew \/ digest[m] > 0
        BY <2>0, <4>1 DEF ListNew, NonePassed, Timely, Of, MemoryTyped
      <4> QED BY <2>0, <3>1, <3>2, <3>3, <4>1 DEF NoGaps, Timely, Of
    <3>7. Undisturbed'
      BY <2>0, <3>1, <3>2, <3>3 DEF Undisturbed, ListNew
    <3> QED BY <3>4, <3>5, <3>6, <3>7 DEF MemoryInv
  <2>4. ASSUME sum' \in [Sums -> SUBSET notes],
               \A r \in Sums : sum'[r] \in {sum[r], {}},
               UNCHANGED <<from, notes, mark, digest, late, disturbed>>
        PROVE  MemoryInv'
    <3>1. UNCHANGED Started /\ \A c \in Callers : UNCHANGED Of(c)
      BY <2>4 DEF Started, Of
    <3>2. MemoryTyped'
      BY <2>0, <2>4, <3>1 DEF MemoryTyped
    <3>3. MarksFit' /\ NonePassed'
      BY <2>0, <2>4, <3>1 DEF MarksFit, NonePassed, Timely
    <3>4. NoGaps'
      BY <2>0, <2>4, <3>1 DEF NoGaps, Timely, Of
    <3>5. Undisturbed'
      BY <2>0, <2>4, <3>1 DEF Undisturbed
    <3> QED BY <3>2, <3>3, <3>4, <3>5 DEF MemoryInv
  <2>5. ASSUME NEW s \in Sums, AgentFails(s)
        PROVE  MemoryInv'
    BY <2>0, <2>4, <2>5 DEF AgentFails, MemoryTyped
  <2>6. ASSUME NEW s \in Sums, Record(s)
        PROVE  MemoryInv'
    <3>1. /\ sum[s] # {} /\ sum' = [sum EXCEPT ![s] = {}]
          /\ digest' = Digested(s) /\ mark' = Marked(s)
          /\ UNCHANGED <<from, notes, late, disturbed>>
      BY <2>6 DEF Record
    <3>2. UNCHANGED Started /\ \A c \in Callers : UNCHANGED Of(c)
      BY <3>1 DEF Started, Of
    <3>3. /\ digest' \in [Sent -> 0..2]
          /\ \A n \in Sent :
                /\ n \in sum[s] \/ digest[n] > 0 => digest'[n] > 0
                /\ n \notin sum[s] => digest'[n] = digest[n]
                /\ n \in sum[s] /\ digest[n] = 0 => digest'[n] = 1
      BY <2>0, <3>1, DigestedIs
    <3>4. \A c \in Callers :
             \/ /\ mark'[c] \in sum[s] \cap Of(c)
                /\ \A n \in sum[s] \cap Of(c) : n <= mark'[c]
             \/ sum[s] \cap Of(c) = {} /\ mark'[c] = mark[c]
      BY <2>0, <3>1, MarkedIs
    <3>5. mark' \in [Callers -> Nat]
      <4>1. mark' = [c \in Callers |-> mark'[c]]
        BY <3>1 DEF Marked
      <4>2. \A c \in Callers : mark'[c] \in Nat
        BY <2>0, <3>4 DEF MemoryTyped
      <4> QED BY <4>1, <4>2
    <3>6. /\ sum' \in [Sums -> SUBSET notes]
          /\ \A r \in Sums : sum'[r] = IF r = s THEN {} ELSE sum[r]
      BY <2>0, <3>1 DEF MemoryTyped
    <3>7. MemoryTyped'
      BY <2>0, <3>1, <3>2, <3>3, <3>5, <3>6 DEF MemoryTyped
    <3>8. MarksFit'
      BY <2>0, <3>1, <3>2, <3>4 DEF MarksFit
    <3>9. NoGaps'
      BY <2>0, <3>1, <3>2, <3>3, <3>6 DEF NoGaps, Timely, Of
    <3>10. NonePassed'
      <4> SUFFICES ASSUME NEW n \in Timely, n <= mark'[from[n]]
                   PROVE  digest'[n] > 0
        BY <3>1 DEF NonePassed, Timely
      <4>1. n \in Of(from[n]) /\ from[n] \in Callers /\ n \in Sent
        BY <2>0 DEF Timely
      <4>2. CASE mark'[from[n]] = mark[from[n]]
        BY <2>0, <3>3, <4>1, <4>2 DEF NonePassed
      <4>3. CASE mark'[from[n]] \in sum[s] \cap Of(from[n])
        <5>1. n \in sum[s] \/ digest[n] > 0
          BY <2>0, <4>1, <4>3 DEF NoGaps, Timely, Of
        <5> QED BY <3>3, <4>1, <5>1
      <4> QED BY <3>4, <4>1, <4>2, <4>3
    <3>11. Undisturbed'
      <4> SUFFICES ASSUME ~disturbed PROVE Undisturbed'
        BY <3>1 DEF Undisturbed
      <4>1. \A r \in Sums : sum'[r] = {}
        BY <2>0, <3>1, <3>6 DEF Undisturbed
      <4>2. ASSUME NEW n \in Sent
            PROVE  /\ digest'[n] <= 1
                   /\ digest'[n] > 0 => n \in Started /\ n <= mark'[from[n]]
        <5>1. CASE n \in sum[s]
          <6>1. n \in Started /\ n \in Of(from[n]) /\ from[n] \in Callers
            BY <2>0, <5>1
          <6>2. digest[n] = 0
            BY <2>0, <5>1, <6>1 DEF Undisturbed, MemoryTyped
          <6> QED BY <3>3, <3>4, <5>1, <6>1, <6>2
        <5>2. CASE n \notin sum[s] /\ digest[n] > 0
          <6>1. n \in Started /\ n <= mark[from[n]] /\ digest[n] <= 1
            BY <2>0, <5>2 DEF Undisturbed
          <6>2. from[n] \in Callers /\ n \in Nat
            BY <2>0, <6>1
          <6>3. \A k \in sum[s] \cap Of(from[n]) :
                   k > mark[from[n]] /\ k \in Nat
            BY <2>0 DEF Undisturbed, Of
          <6>4. mark[from[n]] <= mark'[from[n]]
            <7>1. mark[from[n]] \in Nat
              BY <2>0, <6>2 DEF MemoryTyped
            <7> QED BY <3>4, <6>2, <6>3, <7>1
          <6>5. n <= mark'[from[n]]
            BY <2>0, <3>5, <6>1, <6>2, <6>4 DEF MemoryTyped
          <6> QED BY <3>3, <5>2, <6>1, <6>5
        <5>3. CASE n \notin sum[s] /\ ~(digest[n] > 0)
          BY <2>0, <3>3, <5>3 DEF Undisturbed
        <5> QED BY <5>1, <5>2, <5>3
      <4> QED BY <3>1, <3>2, <4>1, <4>2 DEF Undisturbed
    <3> QED BY <3>7, <3>8, <3>9, <3>10, <3>11 DEF MemoryInv
  <2>7. ASSUME Crash
        PROVE  MemoryInv'
    <3>1. PICK s \in Sums :
             \/ UNCHANGED <<digest, disturbed>>
             \/ digest' = Digested(s) /\ disturbed' = TRUE
      BY <2>7 DEF Crash
    <3>2. sum' = [r \in Sums |-> {}] /\ UNCHANGED <<from, notes, mark, late>>
      BY <2>7 DEF Crash
    <3>3. CASE UNCHANGED <<digest, disturbed>>
      BY <2>4, <3>2, <3>3
    <3>4. CASE digest' = Digested(s) /\ disturbed' = TRUE
      <4>1. UNCHANGED Started /\ \A c \in Callers : UNCHANGED Of(c)
        BY <3>2 DEF Started, Of
      <4>2. /\ digest' \in [Sent -> 0..2]
            /\ \A n \in Sent : digest[n] > 0 => digest'[n] > 0
        BY <2>0, <3>4, DigestedIs
      <4>3. MemoryTyped'
        BY <2>0, <3>2, <3>4, <4>1, <4>2 DEF MemoryTyped
      <4>4. MarksFit' /\ NonePassed'
        BY <2>0, <3>2, <4>1, <4>2 DEF MarksFit, NonePassed, Timely
      <4>5. NoGaps' /\ Undisturbed'
        BY <3>2, <3>4 DEF NoGaps, Timely, Undisturbed
      <4> QED BY <4>3, <4>4, <4>5 DEF MemoryInv
    <3> QED BY <3>1, <3>3, <3>4
  <2>8. ASSUME UNCHANGED memoryVars
        PROVE  MemoryInv'
    BY <2>0, <2>4, <2>8 DEF memoryVars, MemoryTyped
  <2> QED
    BY <2>1, <2>2, <2>3, <2>5, <2>6, <2>7, <2>8 DEF MemoryNext
<1> QED BY <1>1, <1>2, PTL DEF MemorySpec

(* Every note that was its caller's last by id when it was written goes    *)
(* into global.md, and once unless summaries overlapped or the daemon was  *)
(* killed between its two writes.                                          *)
THEOREM NotesGoInOnce == MemorySpec => []NotesOnce
<1>1. MemoryInv => NotesOnce
  BY DEF MemoryInv, NonePassed, Timely, Undisturbed, NotesOnce
<1> QED BY <1>1, MemoryInvariant, PTL

-----------------------------------------------------------------------------
(* The daemon                                                              *)

(* A behaviour of the daemon is one of its jobs and one of its memory, so  *)
(* what is proved of them holds of it.                                     *)
THEOREM DaemonHasBoth == DaemonSpec => Spec /\ MemorySpec
<1>1. DaemonInit => Init /\ MemoryInit
  BY DEF DaemonInit
<1>2. [DaemonNext]_daemonVars => [Next]_vars /\ [MemoryNext]_memoryVars
  BY DEF DaemonNext, JobStep, MemoryStep, daemonVars
<1> QED BY <1>1, <1>2, PTL DEF DaemonSpec, Spec, MemorySpec

=============================================================================
