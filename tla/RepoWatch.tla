----------------------------- MODULE RepoWatch -----------------------------
(***************************************************************************)
(* repo-watch (container/dev/repo-watch.sh): polls the issues and PRs of   *)
(* an agent's fork and runs claude on one of them at a time, as somebody   *)
(* comments or reviews.  The first pass looks at the conversations and     *)
(* goes by who spoke last; the second, if the first ran nothing, looks for *)
(* reviews newer than the agent's last comment.  Only the second shows     *)
(* claude the reviews.  Gitea is read item by item, and people go on       *)
(* writing while claude runs.                                              *)
(*                                                                         *)
(* Every item is assigned to the agent, and its PRs are its own.  No two   *)
(* things are said in the same second.                                     *)
(*                                                                         *)
(* A definition Bad... is a faulty variant of the one after it.            *)
(***************************************************************************)
EXTENDS Naturals, FiniteSetsExt

CONSTANTS
    Items,          \* numbers of issues and PRs
    Pulls,          \* those that are PRs
    MaxRetries,
    MaxWords        \* BOUND: what people say

ASSUME WatchAssumption ==
    Items \subseteq Nat /\ Pulls \subseteq Items /\ MaxRetries \in Nat \ {0}

VARIABLES
    thread,     \* per item: is it open, who spoke last, a review is newer
                \* than the agent's last comment
    fails,      \* .repo-watch-failures: per item, failures in a row
    watch,      \* the watcher: its step, the items left to look at, its item
    words,      \* how much people have said
    ear         \* history, per item: what claude was not given yet, what of
                \* it the agent spoke over, what came in this cycle

watchVars == <<thread, fails, watch, words, ear>>

-----------------------------------------------------------------------------
Off    == [pc |-> "off", todo |-> {}, item |-> 0]
Silent == [open |-> TRUE, last |-> "agent", review |-> FALSE]

WatchInit ==
    /\ thread = [i \in Items |-> Silent]
    /\ fails = [i \in Items |-> 0]
    /\ watch = Off
    /\ words = 0
    /\ ear = [i \in Items |-> [unheard |-> {}, over |-> {}, now |-> FALSE]]

Open == {i \in Items : thread[i].open}

(* People                                                                  *)
PersonSays(i, what) ==
    /\ i \in Open /\ words < MaxWords /\ words' = words + 1
    /\ thread' = [thread EXCEPT ![i] = IF what = "comment"
                                       THEN [@ EXCEPT !.last = "human"]
                                       ELSE [@ EXCEPT !.review = TRUE]]
    /\ ear' = [ear EXCEPT ![i].unheard = @ \cup {what}, ![i].now = TRUE,
                          ![i].over = @ \ {what}]
    /\ UNCHANGED <<fails, watch>>

(* Closed, or opened again.                                                *)
Toggles(i) ==
    /\ words < MaxWords /\ words' = words + 1
    /\ thread' = [thread EXCEPT ![i].open = ~@]
    /\ ear' = [ear EXCEPT ![i].now = TRUE]
    /\ UNCHANGED <<fails, watch>>

-----------------------------------------------------------------------------
(* The watcher                                                             *)

WatchStarts ==
    /\ watch.pc = "off" /\ watch' = [watch EXCEPT !.pc = "poll"]
    /\ UNCHANGED <<thread, fails, words, ear>>

(* The first listing: conversations.                                       *)
Lists ==
    /\ watch.pc = "poll"
    /\ watch' = [pc |-> "talk", todo |-> Open, item |-> 0]
    /\ ear' = [i \in Items |-> [ear[i] EXCEPT !.now = FALSE]]
    /\ UNCHANGED <<thread, fails, words>>

GivenUp(i) == fails[i] >= MaxRetries
Next1      == Min(watch.todo)           \* sort=oldest

(* What claude is given with an item: the whole conversation; the reviews  *)
(* in the second pass only.                                                *)
Invokes(i, given) ==
    /\ watch' = [pc |-> "run", todo |-> {}, item |-> i]
    /\ ear' = [ear EXCEPT ![i].unheard = @ \ given, ![i].over = @ \ given]

Passes(i) ==
    /\ watch' = [watch EXCEPT !.todo = @ \ {i}]
    /\ UNCHANGED ear

(* One item of the first pass: skipped if the agent spoke last or it has   *)
(* failed too often.                                                       *)
LooksAtTalk ==
    /\ watch.pc = "talk" /\ watch.todo # {}
    /\ LET i == Next1 IN
       IF thread[i].last = "agent" \/ GivenUp(i)
       THEN Passes(i) ELSE Invokes(i, {"comment"})
    /\ UNCHANGED <<thread, fails, words>>

ListsPulls ==
    /\ watch.pc = "talk" /\ watch.todo = {}
    /\ watch' = [pc |-> "review", todo |-> Open \cap Pulls, item |-> 0]
    /\ UNCHANGED <<thread, fails, words, ear>>

BadReviewed(i) == thread[i].review /\ thread[i].last = "human"
Reviewed(i)    == thread[i].review

LooksAtReviews ==
    /\ watch.pc = "review" /\ watch.todo # {}
    /\ LET i == Next1 IN
       IF GivenUp(i) \/ ~Reviewed(i)
       THEN Passes(i) ELSE Invokes(i, {"comment", "review"})
    /\ UNCHANGED <<thread, fails, words>>

(* Nothing is pending: the watcher sleeps.                                 *)
Idles ==
    /\ watch.pc = "review" /\ watch.todo = {}
    /\ watch' = [watch EXCEPT !.pc = "poll"]
    /\ UNCHANGED <<thread, fails, words, ear>>

(* claude comments, as often as it likes.                                  *)
AgentSays ==
    LET i == watch.item IN
    /\ watch.pc = "run"
    /\ thread' = [thread EXCEPT ![i].last = "agent", ![i].review = FALSE]
    /\ ear' = [ear EXCEPT ![i].over = ear[i].unheard]
    /\ UNCHANGED <<fails, watch, words>>

(* claude closes the issue or lands the PR.                                *)
AgentCloses ==
    /\ watch.pc = "run"
    /\ thread' = [thread EXCEPT ![watch.item].open = FALSE]
    /\ UNCHANGED <<fails, watch, words, ear>>

(* A run that succeeds clears the count, one that is timed out leaves it.  *)
RunEnds ==
    /\ watch.pc = "run"
    /\ watch' = [watch EXCEPT !.pc = "poll", !.item = 0]
    /\ LET i == watch.item IN
       \E n \in {0, fails[i], fails[i] + 1} : fails' = [fails EXCEPT ![i] = n]
    /\ UNCHANGED <<thread, words, ear>>

(* Ctrl+C, a restart of the container, or Gitea away (set -e).             *)
WatchEnds ==
    /\ watch.pc # "off" /\ watch' = Off
    /\ UNCHANGED <<thread, fails, words, ear>>

-----------------------------------------------------------------------------
WatchNext ==
    \/ \E i \in Items : PersonSays(i, "comment") \/ Toggles(i)
    \/ \E i \in Pulls : PersonSays(i, "review")
    \/ WatchStarts \/ Lists \/ LooksAtTalk \/ ListsPulls \/ LooksAtReviews
    \/ Idles \/ AgentSays \/ AgentCloses \/ RunEnds \/ WatchEnds

WatchSpec == WatchInit /\ [][WatchNext]_watchVars

-----------------------------------------------------------------------------
(* "When a human posts, comments, or leaves a review, invokes Claude Code  *)
(* with the full conversation context": when the watcher finds nothing     *)
(* pending, claude has been given all that was said on an open item before *)
(* this cycle, but for what the agent spoke over while it was on that very *)
(* item, and for items on which claude failed too often in a row.          *)
Heard(i) == ~thread[i].open \/ GivenUp(i) \/ ear[i].now

PeopleHeard ==
    [][Idles => \A i \in Items : Heard(i) \/ ear[i].unheard \subseteq ear[i].over
      ]_watchVars
=============================================================================
