------------------------------- MODULE LandPr -------------------------------
(***************************************************************************)
(* rs-land (container/dev/rs-land): lands a pull request of an agent on    *)
(* its fork.  The head is tagged, the PR merged fast-forward-only and      *)
(* pinned to that head, the branch deleted by the merge.  Each call to     *)
(* Gitea is a step, its answer may be lost, a run may be killed, and two   *)
(* runs, people in Gitea's pages and pushes may come in between.           *)
(*                                                                         *)
(* A PR has one tag name.  A tag is rs-land's own (lightweight), or        *)
(* foreign: annotated, or at another commit, which no run adopts.          *)
(*                                                                         *)
(* A definition Bad... is a faulty variant of the one after it.            *)
(***************************************************************************)
EXTENDS Naturals

CONSTANTS
    Landers,        \* runs of rs-land that may go side by side
    MaxHeads        \* BOUND: the heads that the PR has had, 1, 2, ...

ASSUME LandAssumption == MaxHeads \in Nat \ {0}

VARIABLES
    pull,       \* the PR: its state, head, does the base lead to it, who
                \* merged it and at which head, is its branch there
    tag,        \* the tag <pr>-<feature>: whose it is, and where
    lander,     \* per run: its step and the head it resolved
    torn        \* history: a run was cut short; a rollback crossed another

landVars == <<pull, tag, lander, torn>>

-----------------------------------------------------------------------------
NoTag == [of |-> "none", at |-> 0]
Rest  == [pc |-> "idle", head |-> 0]

LandInit ==
    /\ pull = [st |-> "open", head |-> 1, ff |-> TRUE, by |-> "none", at |-> 0,
               branch |-> TRUE]
    /\ tag = NoTag
    /\ lander = [l \in Landers |-> Rest]
    /\ torn = [cut |-> FALSE, crossed |-> FALSE]

Goes(l, pc) == lander' = [lander EXCEPT ![l] = [pc |-> pc, head |-> @.head]]
LandEnds(l) == lander' = [lander EXCEPT ![l] = Rest]
Alone       == \A l \in Landers : lander[l].pc = "idle"

-----------------------------------------------------------------------------
(* A run                                                                   *)

(* Only an open PR is landed.                                              *)
Resolves(l) ==
    /\ lander[l].pc = "idle" /\ pull.st = "open"
    /\ lander' = [lander EXCEPT ![l] = [pc |-> "probe", head |-> pull.head]]
    /\ UNCHANGED <<pull, tag, torn>>

Adoptable(l) == tag = [of |-> "lander", at |-> lander[l].head]

(* A tag of its own at this very head is what a crashed landing left; any  *)
(* other refuses.                                                          *)
Probes(l) ==
    /\ lander[l].pc = "probe"
    /\ IF tag = NoTag THEN Goes(l, "create")
       ELSE IF Adoptable(l) THEN Goes(l, "merge") ELSE LandEnds(l)
    /\ UNCHANGED <<pull, tag, torn>>

Creates(l) ==
    /\ lander[l].pc = "create"
    /\ IF tag = NoTag
       THEN Goes(l, "merge") /\ tag' = [of |-> "lander", at |-> lander[l].head]
       ELSE Goes(l, "again") /\ UNCHANGED tag
    /\ UNCHANGED <<pull, torn>>

(* Somebody tagged between probe and create; a tag that is gone again is   *)
(* no reason to merge without one.                                         *)
ProbesAgain(l) ==
    /\ lander[l].pc = "again"
    /\ IF Adoptable(l) THEN Goes(l, "merge") ELSE LandEnds(l)
    /\ UNCHANGED <<pull, tag, torn>>

(* Open, on top of its base, and at the very head that is tagged: the      *)
(* merge is pinned to it.                                                  *)
BadMergeable(l) == pull.st = "open" /\ pull.ff
Mergeable(l)    == pull.st = "open" /\ pull.ff /\ pull.head = lander[l].head

(* The merge, which as a rule takes the branch along.  A rollback that     *)
(* another run has decided on meanwhile will take the tag.                 *)
PullMerged ==
    /\ \E left \in BOOLEAN :
          pull' = [pull EXCEPT !.st = "merged", !.by = "lander",
                               !.at = pull.head, !.branch = left]
    /\ torn' = [torn EXCEPT !.crossed =
                   @ \/ \E k \in Landers : lander[k].pc = "rollback"]

Merges(l) ==
    /\ lander[l].pc = "merge" /\ Mergeable(l)
    /\ PullMerged /\ Goes(l, "verify")
    /\ UNCHANGED tag

(* 409, or a 405 that may be transient: refused for whatever reason.       *)
MergeRefused(l) ==
    /\ lander[l].pc = "merge" /\ Goes(l, "recheck")
    /\ UNCHANGED <<pull, tag, torn>>

(* A landing of somebody else's is never undone; its tag stays.            *)
Rechecks(l) ==
    /\ lander[l].pc = "recheck"
    /\ IF pull.st = "merged" THEN LandEnds(l) ELSE Goes(l, "rollback")
    /\ UNCHANGED <<pull, tag, torn>>

(* DELETE goes by the name, whoever has adopted the tag meanwhile.         *)
Untagged(l) ==
    /\ tag' = NoTag
    /\ torn' = [torn EXCEPT !.crossed =
                   @ \/ \E k \in Landers \ {l} : lander[k].pc # "idle"]
    /\ UNCHANGED pull

RollsBack(l) ==
    /\ lander[l].pc = "rollback" /\ Untagged(l) /\ LandEnds(l)

(* What is verified, the branch, is only reported.                         *)
Verifies(l) ==
    /\ lander[l].pc = "verify" /\ LandEnds(l)
    /\ UNCHANGED <<pull, tag, torn>>

(* A call that is not answered in time ends the run, carried out or not;   *)
(* so does a kill.  Whatever it has made stays.                            *)
Unanswered(l) ==
    /\ LandEnds(l)
    /\ \/ lander[l].pc = "merge" /\ Mergeable(l) /\ PullMerged /\ UNCHANGED tag
       \/ lander[l].pc = "rollback" /\ Untagged(l)

CutShort(l) ==
    /\ lander[l].pc # "idle" /\ LandEnds(l)
    /\ torn' = [torn EXCEPT !.cut = TRUE]
    /\ tag' \in {tag, IF lander[l].pc = "create" /\ tag = NoTag
                      THEN [of |-> "lander", at |-> lander[l].head] ELSE tag}
    /\ UNCHANGED pull

-----------------------------------------------------------------------------
(* Everybody else                                                          *)

(* A push, rebased on the base or not.                                     *)
Pushes ==
    /\ pull.st = "open" /\ pull.head < MaxHeads
    /\ \E ff \in BOOLEAN :
          pull' = [pull EXCEPT !.head = @ + 1, !.ff = ff]
    /\ UNCHANGED <<tag, lander, torn>>

(* Another PR lands first.                                                 *)
BaseMoves ==
    /\ pull.st = "open" /\ pull.ff
    /\ pull' = [pull EXCEPT !.ff = FALSE]
    /\ UNCHANGED <<tag, lander, torn>>

(* In Gitea's pages: merged, closed, opened again.                         *)
Clicked ==
    /\ \/ pull.st = "open" /\ pull.ff
            /\ pull' = [pull EXCEPT !.st = "merged", !.by = "human",
                                    !.at = pull.head]
       \/ pull.st = "open" /\ pull' = [pull EXCEPT !.st = "closed"]
       \/ pull.st = "closed" /\ pull' = [pull EXCEPT !.st = "open"]
    /\ UNCHANGED <<tag, lander, torn>>

(* Somebody tags by hand, or deletes the leftover of a run that was cut    *)
(* short.  BOUND: not while a run is under way.                            *)
TaggedByHand ==
    /\ Alone /\ pull.st = "open"
    /\ \/ tag = NoTag /\ tag' = [of |-> "foreign", at |-> 0]
       \/ tag # NoTag /\ tag' = NoTag
    /\ UNCHANGED <<pull, lander, torn>>

-----------------------------------------------------------------------------
Lander(l) ==
    \/ Resolves(l) \/ Probes(l) \/ Creates(l) \/ ProbesAgain(l) \/ Merges(l)
    \/ MergeRefused(l) \/ Rechecks(l) \/ RollsBack(l) \/ Verifies(l)
    \/ Unanswered(l) \/ CutShort(l)

LandNext ==
    \/ \E l \in Landers : Lander(l)
    \/ Pushes \/ BaseMoves \/ Clicked \/ TaggedByHand

LandSpec == LandInit /\ [][LandNext]_landVars

-----------------------------------------------------------------------------
(* "Archive tag first (no window where the branch is gone and the tag is   *)
(* not)": what rs-land has merged is tagged at exactly the head that was   *)
(* merged, whoever pushes, merges, dies or runs beside it, unless the      *)
(* rollback of another run came across.  "Refuse-don't-repair": refusals   *)
(* leave no tag behind, unless a run was cut short.  And no run deletes a  *)
(* tag that none of them made.                                             *)
LandingsArchived ==
    /\ [](pull.by = "lander" /\ ~torn.crossed
            => tag = [of |-> "lander", at |-> pull.at])
    /\ [](Alone /\ pull.st = "open" /\ ~torn.cut => tag.of # "lander")
    /\ [][tag.of = "foreign" /\ ~Alone => tag' = tag]_landVars
=============================================================================
