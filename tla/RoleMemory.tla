----------------------------- MODULE RoleMemory -----------------------------
(***************************************************************************)
(* The memory side of a role-MCP daemon (container/role-mcp/daemon.py):    *)
(* per-call notes, one high-water mark per caller, and summarize_memories, *)
(* which distils the notes past the marks into global.md with an agent of  *)
(* its own.  RoleJobs is about how a note comes to be; here a call just    *)
(* starts and, some time later, its note is there.                         *)
(*                                                                         *)
(* A call id is the second in which the call starts and a random suffix,   *)
(* and ids are compared as strings.  Here an id is a number that stands for*)
(* both: an earlier second has lower ones, but of two calls of one second  *)
(* either may have the lower id.                                           *)
(*                                                                         *)
(* A definition Bad... is a faulty variant of the one after it.  Nothing   *)
(* uses it; it is there to show that a property can fail.                  *)
(***************************************************************************)
EXTENDS Naturals, FiniteSetsExt

CONSTANTS
    Callers,        \* the workers that send jobs
    Sums,           \* the summarize_memories calls that may be under way
    MaxCalls,       \* bound on the calls started
    PerSecond,      \* bound on the ids of one second
    Overlap,        \* more than one of them at a time
    CanCrash        \* the daemon may be killed between two writes

ASSUME MemoryAssumption ==
    /\ MaxCalls \in Nat
    /\ PerSecond \in Nat \ {0}
    /\ Overlap \in BOOLEAN /\ CanCrash \in BOOLEAN

VARIABLES
    from,       \* per call started, by its id: its caller
    notes,      \* the calls with a memories/<caller>/<call>.md
    mark,       \* .summarize-watermark: per caller, a call or 0
    sum,        \* per summarize under way: the notes it read, else {}
    digest,     \* global.md: per call, how many entries its note went into
    late,       \* history: the notes that came after one of a greater id
    disturbed   \* history: two summaries have overlapped, or the daemon was
                \* killed between the two writes

memoryVars == <<from, notes, mark, sum, digest, late, disturbed>>

-----------------------------------------------------------------------------
Sent    == 1..MaxCalls
Started == DOMAIN from
Second(n) == (n - 1) \div PerSecond
Of(c)   == {n \in Started : from[n] = c}
ListNew == {n \in notes : n > mark[from[n]]}

MemoryInit ==
    /\ from = [n \in {} |-> n]
    /\ notes = {}
    /\ mark = [c \in Callers |-> 0]
    /\ sum = [s \in Sums |-> {}]
    /\ digest = [n \in Sent |-> 0]
    /\ late = {}
    /\ disturbed = FALSE

(* register: the id is the clock's, which does not go back, and chance's.  *)
StartCall(c) ==
    /\ \E n \in Sent \ Started :
          /\ \A m \in Started : Second(m) <= Second(n)
          /\ from' = [m \in Started \cup {n} |-> IF m = n THEN c ELSE from[m]]
    /\ UNCHANGED <<notes, mark, sum, digest, late, disturbed>>

(* The call is over and its note complete.                                 *)
WriteNote(n) ==
    /\ n \notin notes
    /\ notes' = notes \cup {n}
    /\ late' = IF \E m \in notes \cap Of(from[n]) : m > n THEN late \cup {n}
                                                       ELSE late
    /\ UNCHANGED <<from, mark, sum, digest, disturbed>>

(* List and read what is new, up to the await; nothing new is an answer at *)
(* once.                                                                   *)
Summarize(s) ==
    /\ sum[s] = {}
    /\ Overlap \/ \A r \in Sums : sum[r] = {}
    /\ ListNew # {}
    /\ sum' = [sum EXCEPT ![s] = ListNew]
    /\ disturbed' = (disturbed \/ \E r \in Sums : sum[r] # {})
    /\ UNCHANGED <<from, notes, mark, digest, late>>

(* The agent fails: nothing is recorded.                                   *)
AgentFails(s) ==
    /\ sum[s] # {}
    /\ sum' = [sum EXCEPT ![s] = {}]
    /\ UNCHANGED <<from, notes, mark, digest, late, disturbed>>

(* Bound: two entries stand for more.                                      *)
Digested(s) == [n \in Sent |-> IF n \notin sum[s] THEN digest[n]
                                ELSE IF digest[n] = 0 THEN 1 ELSE 2]

(* The callers that are not in the batch lose their marks.                 *)
BadMarkedBatch(s) ==
    [c \in Callers |-> LET batch == sum[s] \cap Of(c)
                       IN  IF batch = {} THEN 0 ELSE Max(batch)]

(* Each caller in the batch gets its last note as its mark.                *)
Marked(s) ==
    [c \in Callers |-> LET batch == sum[s] \cap Of(c)
                       IN  IF batch = {} THEN mark[c] ELSE Max(batch)]

(* append_global, then bump_watermarks: no await between them ...          *)
Record(s) ==
    /\ sum[s] # {}
    /\ digest' = Digested(s)
    /\ mark' = Marked(s)
    /\ sum' = [sum EXCEPT ![s] = {}]
    /\ UNCHANGED <<from, notes, late, disturbed>>

(* ... but two writes, and the daemon may be killed between them, as it    *)
(* may be anywhere else.                                                   *)
Crash ==
    /\ CanCrash
    /\ \E s \in Sums :
          /\ sum[s] # {}
          /\ \/ UNCHANGED <<digest, disturbed>>
             \/ digest' = Digested(s) /\ disturbed' = TRUE
    /\ sum' = [s \in Sums |-> {}]
    /\ UNCHANGED <<from, notes, mark, late>>

MemoryNext ==
    \/ \E c \in Callers : StartCall(c)
    \/ \E n \in Started : WriteNote(n)
    \/ \E s \in Sums : Summarize(s) \/ AgentFails(s) \/ Record(s)
    \/ Crash

MemorySpec == MemoryInit /\ [][MemoryNext]_memoryVars

-----------------------------------------------------------------------------
(* Properties                                                              *)

(* "Every call leaves a trace for summarize regardless of how it ended":   *)
(* no note is passed over, what lies below its caller's mark has gone in.  *)
NoneSkipped == \A n \in notes : n <= mark[from[n]] => digest[n] > 0

(* A note that was its caller's last by id when it was written goes into   *)
(* global.md, whatever is written and summarized afterwards: only those    *)
(* that came after a greater id may be passed over.  And it goes in once:  *)
(* "Idempotent: re-invocation with no new logs returns {appended: 0}".     *)
(* Overlapping calls are an exception to that, the slower one writing back *)
(* its older marks, and so is a kill between the two writes, whose other   *)
(* order would skip notes instead.                                         *)
NotesOnce ==
    /\ \A n \in notes \ late : n <= mark[from[n]] => digest[n] > 0
    /\ ~disturbed => \A n \in Sent : digest[n] <= 1
=============================================================================
