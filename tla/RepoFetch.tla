----------------------------- MODULE RepoFetch -----------------------------
(***************************************************************************)
(* rs-fetch (cli/rs_fetch.py): stages an agent's branch in the human's own *)
(* clone with the scrubbed message prefilled, or with --auto-commit lands  *)
(* it commit by commit.                                                    *)
(*                                                                         *)
(* The branch is a line of commits 1, 2, ... after the common base 0, each *)
(* of one file, some of them merges that bring content of their own.  A    *)
(* file's content is the last commit of the branch that is in it, and      *)
(* whether the human has mixed in something else.  Which commits HEAD has  *)
(* is judged as git cherry does, by patch-id: a commit that was squashed,  *)
(* touched up or resolved has another one than the agent's.                *)
(*                                                                         *)
(* A definition Bad... is a faulty variant of the one after it.            *)
(***************************************************************************)
EXTENDS Naturals, Sequences, FiniteSetsExt

CONSTANTS
    Branches        \* sequences of [file, merge], all of the same Paths

ASSUME FetchAssumption ==
    \A b \in Branches : Len(b) \in Nat /\ DOMAIN b = 1..Len(b)

Paths == UNION {{b[i].file : i \in DOMAIN b} : b \in Branches}

(* Markers in a file, unmerged entries.                                    *)
Conflicted(index) == \E f \in Paths : index[f].own = "conflict"

VARIABLES
    branch,     \* what the agent has pushed
    clone,      \* HEAD, the index, the patch-ids in HEAD, SQUASH_MSG
    tool,       \* rs-fetch: its step, target, what is left, what it printed
    strayed     \* history: the human has undone or declined agent work

fetchVars == <<branch, clone, tool, strayed>>

-----------------------------------------------------------------------------
Commits == DOMAIN branch
Resting == [pc |-> "idle", target |-> 0, todo |-> {}, auto |-> FALSE,
            said |-> "nothing", warned |-> FALSE]
NoMessage == {}

FetchInit ==
    /\ branch \in Branches
    /\ clone = [head |-> [f \in Paths |-> [ver |-> 0, own |-> "no"]],
                index |-> [f \in Paths |-> [ver |-> 0, own |-> "no"]],
                ids |-> {}, message |-> NoMessage]
    /\ tool = Resting
    /\ strayed = FALSE

(* A file as of a commit of the branch.                                    *)
Version(f, n) == Max({0} \cup {i \in 1..n : branch[i].file = f})
Dirty == clone.index # clone.head

(* git apply --3way of one file: what may come of it.  Changes on both     *)
(* sides may touch, or merge into the later of the two.                    *)
Merged(ours, from, to) ==
    IF from = to \/ ours = [ver |-> to, own |-> "no"] THEN {ours}
    ELSE IF ours = [ver |-> from, own |-> "no"]
         THEN {[ver |-> to, own |-> "no"]}
    ELSE {[ver |-> to, own |-> "conflict"],
          [ver |-> Max({ours.ver, to}), own |-> ours.own]}

(* effective_commits: git cherry leaves merges out.                        *)
New(target) == {i \in 1..target : ~branch[i].merge} \ clone.ids

-----------------------------------------------------------------------------
(* The command                                                             *)

FetchStarts(target, auto) ==
    /\ tool.pc = "idle"
    /\ tool' = [pc |-> "guards", target |-> target, auto |-> auto,
                todo |-> New(target), said |-> "nothing", warned |-> FALSE]
    /\ UNCHANGED <<branch, clone, strayed>>

Refuses(said) == tool' = [tool EXCEPT !.pc = "idle", !.said = said]
Unquoted == clone' = [clone EXCEPT !.message = NoMessage]

(* The message of these commits, or a warning that it could not be written *)
(* over the one of before, or not all of it.                               *)
Quotes(said, commits) ==
    \/ /\ Refuses(said)
       /\ clone' = [clone EXCEPT !.message = commits]
    \/ /\ tool' = [tool EXCEPT !.pc = "idle", !.said = said, !.warned = TRUE]
       /\ \E left \in {clone.message, NoMessage} :
             clone' = [clone EXCEPT !.message = left]

(* The index must be clean.                                                *)
IndexRefused ==
    /\ tool.pc = "guards" /\ Dirty
    /\ Refuses("dirty")
    /\ UNCHANGED <<branch, clone, strayed>>

(* Leaves a message of another day.                                        *)
BadNothingNew ==
    /\ tool.pc = "guards" /\ ~Dirty /\ tool.todo = {}
    /\ Refuses("up to date")
    /\ UNCHANGED <<branch, clone, strayed>>

(* Everything is in HEAD by patch-id; what was reverted stays so.          *)
NothingNew ==
    /\ tool.pc = "guards" /\ ~Dirty /\ tool.todo = {}
    /\ Refuses("up to date")
    /\ Unquoted
    /\ UNCHANGED <<branch, strayed>>

(* A walk over merges would lose what they bring.                          *)
MergesRefused ==
    /\ tool.pc = "guards" /\ ~Dirty /\ tool.todo # {}
    /\ tool.auto /\ \E i \in 1..tool.target : branch[i].merge
    /\ Refuses("merges")
    /\ UNCHANGED <<branch, clone, strayed>>

(* Lets every branch pass.                                                 *)
BadGuarded ==
    /\ tool.pc = "guards" /\ ~Dirty /\ tool.todo # {}
    /\ tool' = [tool EXCEPT !.pc = IF tool.auto THEN "walk" ELSE "apply"]
    /\ UNCHANGED <<branch, clone, strayed>>

Guarded ==
    /\ tool.pc = "guards" /\ ~Dirty /\ tool.todo # {}
    /\ ~tool.auto \/ \A i \in 1..tool.target : ~branch[i].merge
    /\ tool' = [tool EXCEPT !.pc = IF tool.auto THEN "walk" ELSE "apply"]
    /\ UNCHANGED <<branch, clone, strayed>>

(* The patch from one commit to another, applied to index and work tree.   *)
Applied(from, to) ==
    {index \in [Paths -> UNION {Merged(clone.head[f], Version(f, from),
                                       Version(f, to)) : f \in Paths}] :
        \A f \in Paths : index[f] \in Merged(clone.head[f], Version(f, from),
                                             Version(f, to))}

(* git apply fails and changes nothing: blobs are missing.                 *)
ApplyFails ==
    /\ tool.pc \in {"apply", "walk"} /\ tool.todo # {}
    /\ Refuses("failed")
    /\ Unquoted
    /\ UNCHANGED <<branch, strayed>>

-----------------------------------------------------------------------------
(* Stage everything: from the parent of the first new commit               *)

StageAll ==
    /\ tool.pc = "apply"
    /\ \E index \in Applied(Min(tool.todo) - 1, tool.target) :
          IF index = clone.head
          THEN /\ Refuses("up to date")
               /\ Unquoted
          ELSE /\ tool' = [tool EXCEPT !.pc = "quote"]
               /\ clone' = [clone EXCEPT !.index = index]
    /\ UNCHANGED <<branch, strayed>>

(* Conflicted or not, git commit will open with the messages.              *)
Quote ==
    /\ tool.pc = "quote"
    /\ Quotes(IF Conflicted(clone.index) THEN "conflict" ELSE "staged",
              tool.todo)
    /\ UNCHANGED <<branch, strayed>>

-----------------------------------------------------------------------------
(* --auto-commit: one commit after the other                               *)

Step == Min(tool.todo)

(* Already there: skipped.  A conflict keeps what has landed, and quotes.  *)
WalkApplies ==
    /\ tool.pc = "walk" /\ tool.todo # {}
    /\ \E index \in Applied(Step - 1, Step) :
          IF index = clone.head
          THEN /\ tool' = [tool EXCEPT !.todo = @ \ {Step}]
               /\ UNCHANGED clone
          ELSE /\ tool' = [tool EXCEPT !.pc =
                    IF Conflicted(index) THEN "stuck" ELSE "commit"]
               /\ clone' = [clone EXCEPT !.index = index]
    /\ UNCHANGED <<branch, strayed>>

WalkStuck ==
    /\ tool.pc = "stuck"
    /\ Quotes("conflict", {Step})
    /\ UNCHANGED <<branch, strayed>>

(* What git commit makes of the index: a new HEAD, no message; and an      *)
(* agent's patch-id if its patch went in as it is.                         *)
Landed(index) ==
    [head |-> index, index |-> index, message |-> NoMessage,
     ids |-> clone.ids \cup
       {i \in Commits : LET f == branch[i].file
                        IN  /\ clone.head[f].ver = Version(f, i - 1)
                            /\ index = [clone.head EXCEPT ![f].ver = i]}]

WalkCommits ==
    /\ tool.pc = "commit"
    /\ tool' = [tool EXCEPT !.pc = "walk", !.todo = @ \ {Step}]
    /\ clone' = Landed(clone.index)
    /\ UNCHANGED <<branch, strayed>>

(* No identity, an empty message: left staged, with the message.           *)
WalkCannotCommit ==
    /\ tool.pc = "commit"
    /\ Quotes("staged", {Step})
    /\ UNCHANGED <<branch, strayed>>

WalkEnds ==
    /\ tool.pc = "walk" /\ tool.todo = {}
    /\ Refuses("landed")
    /\ UNCHANGED <<branch, clone, strayed>>

(* Ctrl-C, or an old message that cannot be unlinked.                      *)
FetchKilled ==
    /\ tool.pc # "idle"
    /\ Refuses("nothing")
    /\ UNCHANGED <<branch, clone, strayed>>

-----------------------------------------------------------------------------
(* The human                                                               *)

AtHand == tool.pc = "idle" /\ UNCHANGED <<branch, tool>>

HumanCommits ==
    /\ AtHand /\ Dirty /\ ~Conflicted(clone.index)
    /\ clone' = Landed(clone.index)
    /\ UNCHANGED strayed

(* With a change of his own, to staged work or beside it.                  *)
HumanEdits(f) ==
    /\ AtHand /\ ~Conflicted(clone.index)
    /\ clone.index[f].own = "no"
    /\ clone' = Landed([clone.index EXCEPT ![f].own = "mixed"])
    /\ UNCHANGED strayed

(* The agent's side, both, or his own side alone.                          *)
HumanResolves(f) ==
    /\ AtHand /\ clone.index[f].own = "conflict"
    /\ \E own \in {"no", "mixed"} :
          LET theirs == clone.index[f].ver
              ver    == Max({theirs, clone.head[f].ver})
          IN  clone' = [clone EXCEPT !.index[f] =
                          [ver |-> IF own = "no" THEN theirs ELSE ver, own |-> own]]
    /\ strayed' = (strayed \/ clone'.index[f].ver < clone.head[f].ver)

HumanDeclines(f) ==
    /\ AtHand /\ clone.index[f].own = "conflict"
    /\ clone' = [clone EXCEPT !.index[f] = clone.head[f]]
    /\ strayed' = TRUE

(* git reset takes SQUASH_MSG with it, git restore --staged does not.      *)
HumanUnstages ==
    /\ AtHand /\ Dirty
    /\ \E left \in {clone.message, NoMessage} :
          clone' = [clone EXCEPT !.index = clone.head, !.message = left]
    /\ UNCHANGED strayed

HumanReverts(f) ==
    /\ AtHand /\ ~Dirty /\ clone.head[f].ver > 0
    /\ LET back == [clone.head EXCEPT ![f].ver = Version(f, @ - 1)]
       IN  clone' = [clone EXCEPT !.head = back, !.index = back]
    /\ strayed' = TRUE

-----------------------------------------------------------------------------
FetchNext ==
    \/ \E target \in Commits, auto \in BOOLEAN : FetchStarts(target, auto)
    \/ IndexRefused \/ NothingNew \/ MergesRefused \/ Guarded \/ ApplyFails
    \/ StageAll \/ Quote
    \/ WalkApplies \/ WalkStuck \/ WalkCommits \/ WalkCannotCommit \/ WalkEnds
    \/ FetchKilled \/ HumanCommits \/ HumanUnstages
    \/ \E f \in Paths : HumanEdits(f) \/ HumanResolves(f)
                         \/ HumanDeclines(f) \/ HumanReverts(f)

FetchSpec == FetchInit /\ [][FetchNext]_fetchVars

-----------------------------------------------------------------------------
(* Properties                                                              *)

Ends(said) == tool.pc # "idle" /\ tool'.pc = "idle" /\ tool'.said \in said

(* What the run has staged: the step it walks, or all that is new.         *)
Quoted == IF tool.auto THEN {Step} ELSE tool.todo

(* The prefilled message is that of what is staged: a fetch that stages or *)
(* conflicts leaves the message of just those commits, or has warned that  *)
(* it could not write it, and a fetch that stages nothing leaves none, not *)
(* even one of a fetch before that was unstaged ("no-stale-prefill").      *)
PrefillFits ==
    [][/\ Ends({"staged", "conflict"}) =>
             Dirty /\ (clone'.message = Quoted \/ tool'.warned)
       /\ Ends({"up to date", "failed"}) => clone'.message = NoMessage
      ]_fetchVars

Holds(contents) ==
    \A f \in Paths : contents[f].own # "conflict"
                        => contents[f].ver >= Version(f, tool.target)

(* A merge that the patch leaves out: it lies before the first new commit. *)
MergePassed ==
    \E i \in 1..tool.target :
        branch[i].merge /\ \A j \in tool.todo : i < j

(* "silently wrong committed content is the one failure this tool must     *)
(* never produce": what a fetch calls landed, staged or nothing new has    *)
(* all of the target's content, whatever landed before by whichever way,   *)
(* in whichever order and however it was resolved, and no step takes a     *)
(* file back; unless the human has declined or reverted some of it.        *)
ContentWhole ==
    [][~strayed =>
         /\ Ends({"landed"}) => Holds(clone.head)
         /\ Ends({"staged", "up to date"}) /\ ~tool.auto /\ ~MergePassed
               => Holds(clone.index)
         /\ tool.pc # "idle" => \A f \in Paths :
               clone'.head[f].ver >= clone.head[f].ver]_fetchVars

(* "the cumulative staged diff handles merges correctly" (rs_fetch.py): a  *)
(* fetch of a branch with merges stages what they bring, too.              *)
MergesStaged ==
    [][~strayed /\ Ends({"staged", "up to date"}) /\ ~tool.auto
         => Holds(clone.index)]_fetchVars
=============================================================================
