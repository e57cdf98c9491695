----------------------------- MODULE ReviewLane -----------------------------
(***************************************************************************)
(* review_pr (cli/rscore.py): each review of a pull request or a commit is *)
(* a detached child of the broker with a sandbox container of its own, and *)
(* any number run side by side; and the ledger of their verdicts           *)
(* (cli/gitea.py), with the choice of the one shown beside an open PR.     *)
(*                                                                         *)
(* The reviewed PR is one row on the page: the fork it is on, by the id    *)
(* that Gitea gave it, and the commit at its head.  Agents push to it, and *)
(* a purged fork comes back under a new id.  A container is named after    *)
(* its child's pid and has an id of its own, here the child.               *)
(*                                                                         *)
(* A definition Bad... is a faulty variant of the one after it.            *)
(***************************************************************************)
EXTENDS Naturals, FiniteSets

CONSTANTS
    MaxReviews,     \* BOUND: the children, numbered as they start
    MaxPids,        \* BOUND: fewer, so that a pid comes again
    MaxForks, MaxShas,
    ReviewAims      \* BOUND: which of "kills" and "pushes" a behaviour has

Reviews  == 1..MaxReviews
Pids     == 1..MaxPids
Forks    == 1..MaxForks
Shas     == 1..MaxShas
NoReview == 0
NoSha    == 0

ASSUME ReviewAssumption ==
    /\ {MaxReviews, MaxPids, MaxForks, MaxShas} \subseteq Nat \ {0}
    /\ ReviewAims \subseteq SUBSET {"kills", "pushes"}

VARIABLES
    review,     \* per child: its step, pid, what it is about and has read
    sandbox,    \* per child: its container
    lock,       \* net-setup: the flock's holder, the listed leftovers
    row,        \* the PR: the fork's id, the head
    ledger,     \* the verdict files: what each is filed under and has read
    reviewAim

reviewVars == <<review, sandbox, lock, row, ledger, reviewAim>>

-----------------------------------------------------------------------------
Nowhere == [fork |-> 0, head |-> 0]

NotYet == [pc |-> "none", pid |-> NoReview, sha |-> NoSha,
           under |-> Nowhere, read |-> Nowhere, raced |-> FALSE]

Entry(c, status) ==
    [key |-> review[c].under, read |-> review[c].read, status |-> status,
     raced |-> review[c].raced, kind |-> IF review[c].sha = NoSha THEN "pr" ELSE "commit"]

ReviewInit ==
    /\ review = [c \in Reviews |-> NotYet]
    /\ sandbox = [c \in Reviews |->
                    [st |-> "none", ok |-> FALSE, routed |-> FALSE,
                     out |-> FALSE]]
    /\ lock = [holder |-> NoReview, listed |-> {}]
    /\ row = [fork |-> 1, head |-> 1]
    /\ ledger = {}
    /\ reviewAim \in ReviewAims

AtStep(c, from, to) ==
    /\ review[c].pc = from
    /\ review' = [review EXCEPT ![c].pc = to]

Lives(c) == review[c].pc \notin {"none", "over"}
Exists(c) == sandbox[c].st # "none"

Without(set) == [c \in Reviews |-> IF c \in set
                   THEN [sandbox[c] EXCEPT !.st = "none"] ELSE sandbox[c]]
Named(pid) == {c \in Reviews : Exists(c) /\ review[c].pid = pid}

(* select_pr_verdicts: the fork must be the row's, and an exact head makes *)
(* a verdict a current one.  A commit's badge asks for its sha.            *)
Shown == {e \in ledger : e.status = "ok" /\ (e.kind = "commit" \/ e.key = row)}

-----------------------------------------------------------------------------
(* The PR moves.  BOUND: to commits and forks that are new.                *)

AgentPushes(head) ==
    /\ "pushes" \in reviewAim /\ head > row.head
    /\ row' = [row EXCEPT !.head = head]
    /\ UNCHANGED <<review, sandbox, lock, ledger, reviewAim>>

(* Purged and created anew; PRs are numbered from the start again.         *)
ForkReturns(fork) ==
    /\ "pushes" \in reviewAim /\ fork > row.fork
    /\ row' = [row EXCEPT !.fork = fork]
    /\ UNCHANGED <<review, sandbox, lock, ledger, reviewAim>>

-----------------------------------------------------------------------------
(* review_pr up to the container                                           *)

(* sha: the commit asked for, or none and the PR is.  BOUND: where a PR    *)
(* moves two reviews, elsewhere no commits.                                *)
ReviewStarts(c, pid, sha) ==
    /\ review[c].pc = "none"
    /\ \A d \in 1..(c - 1) : review[d].pc # "none"
    /\ IF "pushes" \in reviewAim THEN c < 3 /\ pid = c ELSE sha = NoSha
    /\ \A d \in Reviews : Lives(d) => review[d].pid # pid
    /\ review' = [review EXCEPT ![c] =
                    [NotYet EXCEPT !.pc = "net", !.pid = pid, !.sha = sha]]
    /\ UNCHANGED <<sandbox, lock, row, ledger, reviewAim>>

(* _ensure_reviewer_network, under its file lock: the network, the locked  *)
(* rules, the leftovers that have exited.                                  *)
NetLocked(c) ==
    /\ lock.holder = NoReview
    /\ AtStep(c, "net", "sweep")
    /\ lock' = [holder |-> c,
                listed |-> {d \in Reviews : sandbox[d].st = "exited"}]
    /\ UNCHANGED <<sandbox, row, ledger, reviewAim>>

(* By name.                                                                *)
BadNetSweeps(c, d) ==
    /\ review[c].pc = "sweep" /\ lock.holder = c /\ d \in lock.listed
    /\ lock' = [lock EXCEPT !.listed = @ \ {d}]
    /\ sandbox' = Without(Named(review[d].pid))
    /\ UNCHANGED <<review, row, ledger, reviewAim>>

(* By id.                                                                  *)
NetSweeps(c, d) ==
    /\ review[c].pc = "sweep" /\ lock.holder = c /\ d \in lock.listed
    /\ lock' = [lock EXCEPT !.listed = @ \ {d}]
    /\ sandbox' = Without({d})
    /\ UNCHANGED <<review, row, ledger, reviewAim>>

NetDone(c) ==
    /\ lock = [holder |-> c, listed |-> {}]
    /\ AtStep(c, "sweep", "resolve")
    /\ lock' = [holder |-> NoReview, listed |-> {}]
    /\ UNCHANGED <<sandbox, row, ledger, reviewAim>>

(* Nothing is written before the target is resolved: Gitea or the router   *)
(* is away, the PR is closed.                                              *)
ReviewDies(c) ==
    /\ AtStep(c, "resolve", "over")
    /\ UNCHANGED <<sandbox, lock, row, ledger, reviewAim>>

(* active_fork_for, then pull_info or commit_info.                         *)
Resolved(c) ==
    /\ review[c].pc = "resolve"
    /\ review' = [review EXCEPT ![c].pc = "fetch", ![c].under =
                    IF review[c].sha = NoSha THEN row
                    ELSE [row EXCEPT !.head = review[c].sha]]
    /\ UNCHANGED <<sandbox, lock, row, ledger, reviewAim>>

(* pull_diff serves whatever the head is now; a commit is what it is.      *)
Fetched(c) ==
    /\ review[c].pc = "fetch"
    /\ review' = LET pr == review[c].sha = NoSha
                 IN  [review EXCEPT ![c].pc = "prerun",
                        ![c].read = IF pr THEN row ELSE review[c].under,
                        ![c].raced = pr /\ row # review[c].under]
    /\ UNCHANGED <<sandbox, lock, row, ledger, reviewAim>>

(* A verdict supersedes one that is filed under the same name alone.       *)
Filed(entry) ==
    {e \in ledger : e.kind # entry.kind \/
       IF e.kind = "pr" THEN e.key # entry.key
                        ELSE e.key.head # entry.key.head} \cup {entry}

Fails(c, from, to) ==
    /\ AtStep(c, from, to)
    /\ ledger' = Filed(Entry(c, "failed"))

(* Too large, or not to be had.                                            *)
FetchFails(c) ==
    /\ Fails(c, "fetch", "over")
    /\ UNCHANGED <<sandbox, lock, row, reviewAim>>

-----------------------------------------------------------------------------
(* The container                                                           *)

(* Whatever is under the name is a dead child's.                           *)
PreRun(c) ==
    /\ AtStep(c, "prerun", "run")
    /\ sandbox' = Without(Named(review[c].pid))
    /\ UNCHANGED <<lock, row, ledger, reviewAim>>

Runs(c) ==
    /\ AtStep(c, "run", "route")
    /\ sandbox' = [sandbox EXCEPT ![c].st = "gate"]
    /\ UNCHANGED <<lock, row, ledger, reviewAim>>

(* inject_route, and only then the file that the container waits for.      *)
Routed(c) ==
    /\ AtStep(c, "route", "let")
    /\ Exists(c)
    /\ sandbox' = [sandbox EXCEPT ![c].routed = sandbox[c].st = "gate"]
    /\ UNCHANGED <<lock, row, ledger, reviewAim>>

LetGo(c) ==
    /\ AtStep(c, "let", "wait")
    /\ sandbox' = [sandbox EXCEPT ![c].ok = TRUE]
    /\ UNCHANGED <<lock, row, ledger, reviewAim>>

(* A strict call fails: the container is gone, the route is not set.       *)
RunFails(c) ==
    /\ AtStep(c, "run", "clean") \/ AtStep(c, "route", "clean")
    /\ UNCHANGED <<sandbox, lock, row, ledger, reviewAim>>

(* The container's script: a bounded wait, the reviewer, the copy-out.     *)
GateOpens(c) ==
    /\ sandbox[c].st = "gate" /\ sandbox[c].ok
    /\ sandbox' = [sandbox EXCEPT ![c].st = "work"]
    /\ UNCHANGED <<review, lock, row, ledger, reviewAim>>

Exits(c) ==
    /\ sandbox[c].st \in {"gate", "work"}
    /\ \E out \in {FALSE, sandbox[c].st = "work"} :
          sandbox' = [sandbox EXCEPT ![c].st = "exited", ![c].out = out]
    /\ UNCHANGED <<review, lock, row, ledger, reviewAim>>

(* docker wait, then the output in the child's own directory.              *)
Waited(c) ==
    /\ sandbox[c].st \in {"exited", "none"}
    /\ AtStep(c, "wait", "capture")
    /\ UNCHANGED <<sandbox, lock, row, ledger, reviewAim>>

TimesOut(c) ==
    /\ sandbox[c].st \in {"gate", "work"}
    /\ Fails(c, "wait", "clean")
    /\ sandbox' = Without(Named(review[c].pid))
    /\ UNCHANGED <<lock, row, reviewAim>>

(* Names the head of this moment.                                          *)
BadRecorded(c) ==
    /\ sandbox[c].out
    /\ AtStep(c, "capture", "clean")
    /\ ledger' = Filed([Entry(c, "ok") EXCEPT !.key =
                          IF review[c].sha = NoSha THEN row ELSE @])
    /\ UNCHANGED <<sandbox, lock, row, reviewAim>>

(* save_verdict: the file is named after the stamp of the resolve.         *)
Recorded(c) ==
    /\ sandbox[c].out
    /\ AtStep(c, "capture", "clean")
    /\ ledger' = Filed(Entry(c, "ok"))
    /\ UNCHANGED <<sandbox, lock, row, reviewAim>>

(* No output, or none that parses.                                         *)
Unusable(c) ==
    /\ Fails(c, "capture", "clean")
    /\ UNCHANGED <<sandbox, lock, row, reviewAim>>

(* finally.                                                                *)
Cleaned(c) ==
    /\ AtStep(c, "clean", "over")
    /\ sandbox' = Without(Named(review[c].pid))
    /\ UNCHANGED <<lock, row, ledger, reviewAim>>

(* Hard: its container stays and works on; the kernel frees the lock.      *)
ReviewKilled(c) ==
    /\ "kills" \in reviewAim /\ Lives(c)
    /\ review' = [review EXCEPT ![c].pc = "over"]
    /\ lock' = IF lock.holder = c THEN [holder |-> NoReview, listed |-> {}]
               ELSE lock
    /\ UNCHANGED <<sandbox, row, ledger, reviewAim>>

-----------------------------------------------------------------------------
ReviewNext ==
    \/ \E head \in Shas : AgentPushes(head)
    \/ \E fork \in Forks : ForkReturns(fork)
    \/ \E c \in Reviews :
          \/ \E pid \in Pids, sha \in Shas \cup {NoSha} :
                ReviewStarts(c, pid, sha)
          \/ NetLocked(c) \/ (\E d \in Reviews : NetSweeps(c, d)) \/ NetDone(c)
          \/ ReviewDies(c) \/ Resolved(c) \/ Fetched(c) \/ FetchFails(c)
          \/ PreRun(c) \/ Runs(c) \/ Routed(c) \/ LetGo(c) \/ RunFails(c)
          \/ GateOpens(c) \/ Exits(c) \/ Waited(c) \/ TimesOut(c)
          \/ Recorded(c) \/ Unusable(c) \/ Cleaned(c) \/ ReviewKilled(c)

ReviewSpec == ReviewInit /\ [][ReviewNext]_reviewVars

-----------------------------------------------------------------------------
(* Properties                                                              *)

(* Reviews run side by side: a container whose child waits for it is not   *)
(* removed by another child, neither by its sweep of exited leftovers nor  *)
(* by its clearing of a name; and no container reviews before its default  *)
(* route leads through the router, whichever child was killed on the way.  *)
ReviewsApart ==
    /\ [](\A c \in Reviews : sandbox[c].st = "work" => sandbox[c].routed)
    /\ [][\A c \in Reviews :
             /\ review[c].pc \in {"route", "let", "wait"}
             /\ sandbox[c].st \in {"gate", "work"} /\ sandbox'[c].st = "none"
             => review'[c].pc # review[c].pc]_reviewVars

(* A verdict shown as current on a PR, or on a commit, was reached on the  *)
(* code that is there, unless the PR was pushed to between the two reads   *)
(* of one review; and what was once recorded is superseded only by a later *)
(* review of the same code on the same fork.                               *)
VerdictsStand ==
    /\ [](\A e \in Shown : e.raced \/ e.read.head = e.key.head)
    /\ [][\A e \in ledger : \E f \in ledger' :
             /\ f.kind = e.kind /\ f.key.head = e.key.head
             /\ e.kind = "pr" => f.key = e.key]_reviewVars
=============================================================================
