--------------------------- MODULE DevToolsProofs ---------------------------
(***************************************************************************)
(* Proofs about what stands around the forge, part by part.  BoardBackup,  *)
(* for any content and any number of imports: what is offered for a        *)
(* restore restores, a half-replaced Gitea can be taken back, and an       *)
(* import tells what it did, whatever overlaps, fails, outlasts its budget *)
(* or is killed.  LandPr, for any number of runs and pushes: landings stay *)
(* archived.  ReviewLane, for any number of reviews, pids, forks and       *)
(* commits: reviews do not touch each other, and verdicts stand.           *)
(* RepoWatch, for any items, words and bound on failures: people are       *)
(* heard.  RepoFetch, for any branch: the prefilled message fits, and what *)
(* is called fetched is there.                                             *)
(***************************************************************************)
EXTENDS DevTools, WellFoundedInduction, TLAPS

-----------------------------------------------------------------------------
(* The backup                                                              *)

(* Something to take a half-replaced Gitea back to.                        *)
Safe == bare \/ files.safe \cap Contents # {}

At(pcs) == import.pc \in pcs

BoardTyped ==
    /\ DOMAIN gitea = {"up", "holds", "writer", "touched"}
    /\ gitea.holds \in Dumped /\ gitea.writer \in Dumped \cup {None}
    /\ DOMAIN files = {"resident", "part", "safe"}
    /\ DOMAIN import = DOMAIN NoImport

(* The resident file was verified before it got its name; what is being    *)
(* promoted was, too.                                                      *)
FilesGood ==
    /\ files.resident \in Dumped \cup {None}
    /\ export = "promote" => files.part \in Dumped \cup {None}

(* The safety copy is there from the step that makes it on, and before     *)
(* anything that tears Gitea; who declined it is on record from then on.   *)
CopyFirst ==
    /\ gitea.holds = Torn \/ gitea.writer # None => Safe
    /\ At({"stop", "down", "refused", "replace"}) /\ import.safe => Safe
    /\ At({"fill", "restored"}) => Safe

(* From the stop on nobody but the import has a hand on Gitea.             *)
Undisturbed ==
    /\ At({"idle", "verify", "safety", "stop"})
          \/ (~gitea.up /\ gitea.writer = None)
    /\ ~At({"idle"}) => gitea.writer = None
    /\ At({"down", "refused"}) => gitea.holds = import.saw
    /\ At({"replace", "fill", "restored"}) => import.img \in Dumped
    /\ At({"restored"}) => gitea.holds = import.img

BoardInv == BoardTyped /\ FilesGood /\ CopyFirst /\ Undisturbed

-----------------------------------------------------------------------------
(* The invariant holds in every state.                                     *)
THEOREM BoardInvariant == BoardSpec => []BoardInv
<1>1. BoardInit => BoardInv
  <2> SUFFICES ASSUME BoardInit PROVE BoardInv
    OBVIOUS
  <2> USE BoardAssumption
      DEF BoardInv, BoardTyped, FilesGood, CopyFirst, Undisturbed, Safe, At,
          Dumped, NoImport
  <2>1. 0 \in Contents /\ 0 # Torn
    BY DEF Contents
  <2> QED
    BY <2>1 DEF BoardInit
<1>2. BoardInv /\ [BoardNext]_boardVars => BoardInv'
  <2> SUFFICES ASSUME BoardInv, [BoardNext]_boardVars PROVE BoardInv'
    OBVIOUS
  <2> USE BoardAssumption
      DEF BoardInv, BoardTyped, FilesGood, CopyFirst, Undisturbed, Safe, At,
          Dumped, NoImport
  <2>1. CASE Work
    <3>1. gitea.holds + 1 \in Contents /\ gitea.holds + 1 # Torn
      BY <2>1 DEF Work, Contents
    <3> QED
      BY <2>1, <3>1 DEF Work
  <2>2. CASE GiteaFalls
    BY <2>2 DEF GiteaFalls
  <2>21. CASE Discard
    BY <2>21 DEF Discard
  <2>3. CASE ExportStarts
    BY <2>3 DEF ExportStarts, Started
  <2>4. CASE ExportDumps
    BY <2>4 DEF ExportDumps
  <2>5. CASE ExportVerifies \/ ExportFails \/ ExportKilled
    BY <2>5 DEF ExportVerifies, ExportFails, ExportKilled
  <2>22. CASE ExportPromotes
    BY <2>22 DEF ExportPromotes
  <2>6. ASSUME NEW src \in files.safe \cup {Resident, Junk, Hollow, Foreign},
               NEW safe \in BOOLEAN, ImportStarts(src, safe)
        PROVE  BoardInv'
    BY <2>6 DEF ImportStarts, Started
  <2>7. CASE ImportRefuses
    BY <2>7 DEF ImportRefuses, Says
  <2>8. CASE ImportVerifies
    BY <2>8 DEF ImportVerifies, Import
  <2>9. CASE ImportSaves
    BY <2>9 DEF ImportSaves, Import
  <2>10. CASE ImportStops
    BY <2>10 DEF ImportStops
  <2>11. CASE ImportMisses \/ ScriptFailsLate
    BY <2>11 DEF ImportMisses, ScriptFailsLate, Says
  <2>12. CASE ScriptRefuses \/ ScriptFailsEarly
    BY <2>12 DEF ScriptRefuses, ScriptFailsEarly, Import
  <2>13. CASE ScriptReads
    BY <2>13 DEF ScriptReads
  <2>14. CASE ScriptTouches
    BY <2>14 DEF ScriptTouches, Import
  <2>15. CASE ScriptDone
    BY <2>15 DEF ScriptDone, Import
  <2>16. CASE ScriptOutlasts
    BY <2>16 DEF ScriptOutlasts, Says
  <2>17. CASE WriterTouches \/ WriterEnds
    BY <2>17 DEF WriterTouches, WriterEnds
  <2>18. CASE RefusedUp \/ RestoredUp
    BY <2>18 DEF RefusedUp, RestoredUp, Says, Started
  <2>19. CASE ImportKilled
    BY <2>19 DEF ImportKilled
  <2>20. CASE UNCHANGED boardVars
    BY <2>20 DEF boardVars
  <2> QED
    BY <2>1, <2>2, <2>3, <2>4, <2>5, <2>6, <2>7, <2>8, <2>9, <2>10, <2>11,
       <2>12, <2>13, <2>14, <2>15, <2>16, <2>17, <2>18, <2>19, <2>20,
       <2>21, <2>22 DEF BoardNext
<1> QED
  BY <1>1, <1>2, PTL DEF BoardSpec

(* What is offered restores, and what is torn can be taken back.           *)
THEOREM BackupsAlwaysRestore == BoardSpec => []BackupsRestore
<1>1. BoardInv => BackupsRestore
  BY DEF BoardInv, BackupsRestore, FilesGood, CopyFirst, Safe
<1> QED
  BY <1>1, BoardInvariant, PTL

(* What an import says at its end is so.                                   *)
THEOREM ImportsTellTrue == BoardSpec => ImportTold
<1> DEFINE Told ==
      import.pc # "idle" /\ import'.pc = "idle" =>
         /\ (import'.said \in {"refused", "refusedDown"}
                => gitea.holds = import.saw /\ gitea.writer = None)
         /\ (import'.said \in {"restored", "restoredDown"}
                => gitea.holds = import.img /\ gitea.writer = None)
         /\ (import'.said \in {"partway", "refusedDown", "restoredDown"}
                => ~gitea'.up)
<1>1. BoardInv /\ [BoardNext]_boardVars => [Told]_boardVars
  <2> SUFFICES ASSUME BoardInv, BoardNext, import.pc # "idle",
                      import'.pc = "idle"
               PROVE  Told
    BY DEF boardVars
  <2> USE DEF BoardInv, BoardTyped, Undisturbed, At, NoImport
  <2>1. CASE ImportRefuses
    BY <2>1 DEF ImportRefuses, Says
  <2>2. CASE ImportMisses \/ ScriptFailsLate
    BY <2>2 DEF ImportMisses, ScriptFailsLate, Says
  <2>3. CASE ScriptOutlasts
    BY <2>3 DEF ScriptOutlasts, Says
  <2>4. CASE RefusedUp \/ RestoredUp
    BY <2>4 DEF RefusedUp, RestoredUp, Says, Started
  <2>5. CASE ImportKilled
    BY <2>5 DEF ImportKilled
  <2> QED
    BY <2>1, <2>2, <2>3, <2>4, <2>5
       DEF BoardNext, Work, GiteaFalls, Discard, ExportStarts, ExportDumps,
           ExportVerifies, ExportPromotes, ExportFails, ExportKilled,
           ImportStarts, ImportVerifies, ImportSaves, ImportStops,
           ScriptRefuses, ScriptFailsEarly, ScriptReads, ScriptTouches,
           ScriptDone, WriterTouches, WriterEnds, Import
<1> QED
  BY <1>1, BoardInvariant, PTL DEF BoardSpec, ImportTold

-----------------------------------------------------------------------------
(* Landings.  The tag of a landing is the one that its run held when it    *)
(* asked for the merge.  So the invariant says of every run in the middle  *)
(* of a landing that the tag is at its head, unless a rollback crossed it; *)
(* of every tag of rs-land's own on an open PR that a run answers for it,  *)
(* unless one was cut short; and of a foreign tag that no run has come so  *)
(* far as to merge or roll back.                                           *)


PullShape == pull \in
    [st : {"open", "merged", "closed"}, head : Nat, ff : BOOLEAN,
     by : {"none", "lander", "human"}, at : Nat, branch : BOOLEAN]

TornShape == torn \in [cut : BOOLEAN, crossed : BOOLEAN]

LandShape ==
    /\ PullShape /\ TornShape
    /\ tag \in [of : {"none", "lander", "foreign"}, at : Nat]
    /\ lander \in [Landers -> [pc : {"idle", "probe", "create", "again",
                      "merge", "recheck", "rollback", "verify"}, head : Nat]]

Held == \A l \in Landers :
    lander[l].pc = "merge" /\ ~torn.crossed
       => tag = [of |-> "lander", at |-> lander[l].head]

Archived ==
    /\ pull.by = "lander" => pull.st = "merged"
    /\ pull.by = "lander" /\ ~torn.crossed
          => /\ tag = [of |-> "lander", at |-> pull.at]
             /\ \A l \in Landers : lander[l].pc # "rollback"

Answered ==
    tag.of = "lander" /\ pull.st # "merged" /\ ~torn.cut
       => \E l \in Landers : lander[l].pc \in {"merge", "recheck", "rollback"}

Spared ==
    tag.of = "foreign"
       => \A l \in Landers : lander[l].pc \in {"idle", "probe"}

LandInv == LandShape /\ Held /\ Archived /\ Answered /\ Spared

-----------------------------------------------------------------------------
(* What people and other landings do to the PR.                            *)
LEMMA PullKept ==
    ASSUME LandShape, Pushes \/ Clicked
    PROVE  /\ LandShape' /\ UNCHANGED <<tag, lander, torn>>
           /\ pull.st # "merged"
           /\ \/ pull'.by = pull.by
              \/ pull'.st = "merged" /\ pull'.by = "human"
           /\ pull'.at = pull.at \/ pull'.by = "human"
<1>1. PullShape /\ UNCHANGED <<tag, lander, torn>>
  BY DEF LandShape, Pushes, Clicked
<1>2. PullShape' => LandShape'
  BY <1>1, Zenon DEF LandShape, TornShape
<1>3. CASE Pushes
  <2>1. PICK ff \in BOOLEAN : pull' = [pull EXCEPT !.head = @ + 1, !.ff = ff]
    BY <1>3 DEF Pushes
  <2>2. pull.head + 1 \in Nat
    BY <1>1 DEF PullShape
  <2>3. PullShape'
    BY <1>1, <2>1, <2>2, ZenonT(30) DEF PullShape
  <2>4. pull'.by = pull.by /\ pull'.at = pull.at /\ pull.st # "merged"
    BY <1>1, <1>3, <2>1 DEF PullShape, Pushes
  <2> QED
    BY <1>2, <1>1, <2>3, <2>4
<1>4. CASE Clicked
  <2>1. PullShape'
    BY <1>1, <1>4 DEF Clicked, PullShape
  <2>2. CASE /\ pull.st = "open" /\ pull.ff
             /\ pull' = [pull EXCEPT !.st = "merged", !.by = "human",
                                    !.at = pull.head]
    <3>1. pull.st # "merged" /\ pull'.st = "merged" /\ pull'.by = "human"
      BY <1>1, <2>2 DEF PullShape
    <3> QED
      BY <1>2, <1>1, <2>1, <3>1
  <2>3. CASE /\ pull.st # "merged"
             /\ \E st \in {"open", "closed"} : pull' = [pull EXCEPT !.st = st]
    <3>1. pull'.by = pull.by /\ pull'.at = pull.at
      BY <1>1, <2>3 DEF PullShape
    <3> QED
      BY <1>2, <1>1, <2>1, <2>3, <3>1
  <2> QED
    BY <1>4, <2>2, <2>3 DEF Clicked
<1> QED
  BY <1>3, <1>4

(* The merge of a run, answered or not, keeps the invariant.               *)
LEMMA MergeKeeps ==
    ASSUME LandInv, NEW l \in Landers, NEW pc \in {"idle", "verify"},
           lander[l].pc = "merge", Mergeable(l), PullMerged, UNCHANGED tag,
           NEW h \in Nat,
           lander' = [lander EXCEPT ![l] = [pc |-> pc, head |-> h]]
    PROVE  LandInv'
<1> USE DEF LandInv, LandShape
<1>1. /\ pull'.st = "merged" /\ pull'.by = "lander" /\ pull'.at = pull.head
      /\ PullShape'
  BY DEF PullMerged, PullShape
<1>2. /\ TornShape'
      /\ ~torn'.crossed => /\ ~torn.crossed
                           /\ \A k \in Landers : lander[k].pc # "rollback"
  BY DEF PullMerged, TornShape
<1>3. /\ lander'[l].pc = pc
      /\ \A k \in Landers \ {l} : lander'[k] = lander[k]
  OBVIOUS
<1>4. LandShape'
  BY <1>1, <1>2
<1>5. Held' /\ Spared'
  BY <1>2, <1>3 DEF Held, Spared
<1>6. Archived'
  BY <1>1, <1>2, <1>3 DEF Archived, Held, Mergeable
<1>7. Answered'
  BY <1>1 DEF Answered
<1> QED
  BY <1>4, <1>5, <1>6, <1>7

(* The invariant holds at the start and every step keeps it.               *)
THEOREM LandInvariant == LandSpec => []LandInv
<1> USE DEF LandInv
<1>1. LandInit => LandInv
  BY DEF LandInit, LandShape, PullShape, TornShape, Held, Archived,
         Answered, Spared, NoTag, Rest
<1>2. LandInv /\ [LandNext]_landVars => LandInv'
  <2> SUFFICES ASSUME LandInv, [LandNext]_landVars PROVE LandInv'
    OBVIOUS
  <2> USE DEF LandShape, PullShape, TornShape, Held, Archived, Answered,
              Spared, Goes, LandEnds, Rest, NoTag
  <2>1. ASSUME NEW l \in Landers, Resolves(l) PROVE LandInv'
    BY <2>1 DEF Resolves
  <2>2. ASSUME NEW l \in Landers, Probes(l) PROVE LandInv'
    BY <2>2 DEF Probes, Adoptable
  <2>3. ASSUME NEW l \in Landers, Creates(l) PROVE LandInv'
    BY <2>3 DEF Creates
  <2>4. ASSUME NEW l \in Landers, ProbesAgain(l) PROVE LandInv'
    BY <2>4 DEF ProbesAgain, Adoptable
  <2>5. ASSUME NEW l \in Landers, Merges(l) PROVE LandInv'
    <3>1. lander' = [lander EXCEPT ![l] = [pc |-> "verify",
                                           head |-> lander[l].head]]
      BY <2>5 DEF Merges
    <3> QED
      BY <2>5, <3>1, MergeKeeps DEF Merges
  <2>6. ASSUME NEW l \in Landers, MergeRefused(l) PROVE LandInv'
    BY <2>6 DEF MergeRefused
  <2>7. ASSUME NEW l \in Landers, Rechecks(l) PROVE LandInv'
    BY <2>7 DEF Rechecks
  <2>8. ASSUME NEW l \in Landers, RollsBack(l) PROVE LandInv'
    BY <2>8 DEF RollsBack, Untagged
  <2>9. ASSUME NEW l \in Landers, Verifies(l) PROVE LandInv'
    BY <2>9 DEF Verifies
  <2>10. ASSUME NEW l \in Landers, Unanswered(l) PROVE LandInv'
    <3>1. CASE lander[l].pc = "merge" /\ Mergeable(l) /\ PullMerged
                 /\ UNCHANGED tag
      BY <2>10, <3>1, MergeKeeps DEF Unanswered
    <3>2. CASE lander[l].pc = "rollback" /\ Untagged(l)
      BY <2>10, <3>2 DEF Unanswered, Untagged
    <3> QED
      BY <2>10, <3>1, <3>2 DEF Unanswered
  <2>11. ASSUME NEW l \in Landers, CutShort(l) PROVE LandInv'
    <3>1. LandShape' /\ torn'.cut /\ torn'.crossed = torn.crossed
      <4>1. PullShape' /\ TornShape'
        BY <2>11 DEF CutShort
      <4>2. tag' \in [of : {"none", "lander", "foreign"}, at : Nat]
        BY <2>11 DEF CutShort
      <4>3. lander' \in [Landers -> [pc : {"idle", "probe", "create",
                "again", "merge", "recheck", "rollback", "verify"},
                head : Nat]]
        BY <2>11 DEF CutShort
      <4>4. torn'.cut /\ torn'.crossed = torn.crossed
        BY <2>11 DEF CutShort
      <4> QED
        BY <4>1, <4>2, <4>3, <4>4
    <3>2. /\ UNCHANGED pull
          /\ lander'[l].pc = "idle"
          /\ \A k \in Landers \ {l} : lander'[k] = lander[k]
          /\ \/ tag' = tag
             \/ /\ tag.of = "none" /\ tag'.of = "lander"
                /\ lander[l].pc = "create"
      <4>1. UNCHANGED pull /\ lander' = [lander EXCEPT ![l] = Rest]
        BY <2>11 DEF CutShort
      <4>2. \/ tag' = tag
            \/ /\ lander[l].pc = "create" /\ tag = NoTag
               /\ tag' = [of |-> "lander", at |-> lander[l].head]
        BY <2>11, Zenon DEF CutShort
      <4> QED
        BY <4>1, <4>2
    <3>3. CASE tag' = tag
      BY <3>1, <3>2, <3>3
    <3>4. CASE tag.of = "none" /\ tag'.of = "lander"
      BY <3>1, <3>2, <3>4
    <3> QED
      BY <3>2, <3>3, <3>4
  <2>12. CASE Pushes
    BY <2>12, PullKept
  <2>13. CASE BaseMoves
    BY <2>13 DEF BaseMoves
  <2>14. CASE Clicked
    BY <2>14, PullKept
  <2>15. CASE TaggedByHand
    BY <2>15 DEF TaggedByHand, Alone
  <2>16. CASE UNCHANGED landVars
    BY <2>16 DEF landVars
  <2> QED
    BY <2>1, <2>2, <2>3, <2>4, <2>5, <2>6, <2>7, <2>8, <2>9, <2>10, <2>11,
       <2>12, <2>13, <2>14, <2>15, <2>16 DEF LandNext, Lander
<1> QED
  BY <1>1, <1>2, PTL DEF LandSpec

(* No step takes away a tag that somebody made by hand, while a run is     *)
(* under way.                                                              *)
LEMMA HandTagStays ==
    ASSUME LandInv, [LandNext]_landVars, tag.of = "foreign", ~Alone
    PROVE  tag' = tag
<1> USE DEF LandInv, LandShape, Spared, NoTag
<1>1. ASSUME NEW l \in Landers, Lander(l) PROVE tag' = tag
  BY <1>1 DEF Lander, Resolves, Probes, Creates, ProbesAgain, Merges,
              MergeRefused, Rechecks, RollsBack, Verifies, Unanswered, CutShort
<1> QED
  BY <1>1 DEF LandNext, Pushes, BaseMoves, Clicked, TaggedByHand, landVars

(* What rs-land merged is tagged at exactly the head that was merged,      *)
(* refusals leave no tag and nobody's tag is deleted: for any number of    *)
(* runs and pushes.                                                        *)
THEOREM LandingsStayArchived == LandSpec => LandingsArchived
<1>1. LandInv => /\ pull.by = "lander" /\ ~torn.crossed
                       => tag = [of |-> "lander", at |-> pull.at]
                 /\ Alone /\ pull.st = "open" /\ ~torn.cut
                       => tag.of # "lander"
  BY DEF LandInv, Archived, Answered, Alone
<1>2. LandInv /\ [LandNext]_landVars
         => [tag.of = "foreign" /\ ~Alone => tag' = tag]_landVars
  BY HandTagStays
<1> QED
  BY <1>1, <1>2, LandInvariant, PTL DEF LandSpec, LandingsArchived

-----------------------------------------------------------------------------
(* Reviews                                                                 *)

Early == {"none", "net", "sweep", "resolve", "fetch", "prerun", "run"}

Points == Early \cup {"route", "let", "wait", "capture", "clean", "over"}
Places == [fork : Nat, head : Nat]
Children ==
    [pc : Points, pid : Pids \cup {NoReview}, sha : Shas \cup {NoSha},
     under : Places, read : Places, raced : BOOLEAN]
Boxes == [st : {"none", "gate", "work", "exited"}, ok : BOOLEAN,
          routed : BOOLEAN, out : BOOLEAN]

ReviewTyped ==
    /\ review \in [Reviews -> Children]
    /\ sandbox \in [Reviews -> Boxes]
    /\ lock \in [holder : Reviews \cup {NoReview}, listed : SUBSET Reviews]
    /\ row \in Places

(* A child has its pid to itself as long as it lives, and what a sweep has *)
(* listed had exited: it does not come back.                               *)
Apart ==
    /\ \A c, d \in Reviews :
          c # d /\ Lives(c) /\ Lives(d) => review[c].pid # review[d].pid
    /\ \A c \in Reviews : Exists(c) => review[c].pc \notin Early
    /\ \A d \in lock.listed :
          sandbox[d].st \in {"none", "exited"} /\ review[d].pc \notin Early

(* Nothing is let go before it is let go by its child, and that is after   *)
(* its route was set.                                                      *)
RouteFirst ==
    \A c \in Reviews :
        /\ review[c].pc \in Early \cup {"route", "let"} => ~sandbox[c].ok
        /\ review[c].pc = "let" /\ sandbox[c].st = "gate" => sandbox[c].routed
        /\ sandbox[c].ok /\ sandbox[c].st \in {"gate", "work"}
              => sandbox[c].routed
        /\ sandbox[c].st = "work" => sandbox[c].ok

(* What a review has read is what it will be filed under, or it raced.     *)
ReadRight ==
    /\ \A c \in Reviews :
          review[c].pc \in {"prerun", "run", "route", "let", "wait", "capture"}
             => review[c].raced
                   \/ review[c].read.head = review[c].under.head
    /\ \A e \in ledger :
          e.status = "ok" => e.raced \/ e.read.head = e.key.head

ReviewInv == ReviewTyped /\ Apart /\ RouteFirst /\ ReadRight

(* A child that takes a step is where it leads, and is otherwise the same, *)
(* as are the other children.                                              *)
Stepped(c, to) ==
    /\ review' \in [Reviews -> Children]
    /\ review'[c].pc = to
    /\ review'[c].pid = review[c].pid /\ review'[c].raced = review[c].raced
    /\ review'[c].under = review[c].under /\ review'[c].read = review[c].read
    /\ \A d \in Reviews \ {c} : review'[d] = review[d]

LEMMA StepTaken ==
    ASSUME ReviewTyped, NEW c \in Reviews, NEW from, NEW to \in Points,
           AtStep(c, from, to)
    PROVE  review[c].pc = from /\ Stepped(c, to)
<1>1. review' = [review EXCEPT ![c] = [review[c] EXCEPT !.pc = to]]
  BY DEF AtStep, ReviewTyped
<1>2. review[c] \in Children
  BY DEF ReviewTyped
<1>3. [review[c] EXCEPT !.pc = to] \in Children
  BY <1>2 DEF Children
<1>4. /\ [review[c] EXCEPT !.pc = to].pc = to
      /\ [review[c] EXCEPT !.pc = to].pid = review[c].pid
      /\ [review[c] EXCEPT !.pc = to].raced = review[c].raced
      /\ [review[c] EXCEPT !.pc = to].under = review[c].under
      /\ [review[c] EXCEPT !.pc = to].read = review[c].read
  BY <1>2 DEF Children
<1>5. /\ review'[c] = [review[c] EXCEPT !.pc = to]
      /\ \A d \in Reviews \ {c} : review'[d] = review[d]
      /\ review' \in [Reviews -> Children]
  BY <1>1, <1>3 DEF ReviewTyped
<1> QED BY <1>4, <1>5 DEF Stepped, AtStep

(* Containers that are removed are gone, and nothing else is changed.      *)
Cleared(set) ==
    /\ sandbox' \in [Reviews -> Boxes]
    /\ \A d \in Reviews : /\ sandbox'[d].ok = sandbox[d].ok
                          /\ sandbox'[d].routed = sandbox[d].routed
                          /\ d \in set => sandbox'[d].st = "none"
                          /\ d \notin set => sandbox'[d] = sandbox[d]

LEMMA Removed ==
    ASSUME ReviewTyped, NEW set, sandbox' = Without(set)
    PROVE  Cleared(set)
<1>1. ASSUME NEW d \in Reviews
      PROVE  /\ [sandbox[d] EXCEPT !.st = "none"] \in Boxes
             /\ [sandbox[d] EXCEPT !.st = "none"].st = "none"
             /\ [sandbox[d] EXCEPT !.st = "none"].ok = sandbox[d].ok
             /\ [sandbox[d] EXCEPT !.st = "none"].routed = sandbox[d].routed
  <2>1. sandbox[d] \in Boxes
    BY DEF ReviewTyped
  <2> QED BY <2>1 DEF Boxes
<1>2. /\ sandbox' = [d \in Reviews |-> sandbox'[d]]
      /\ \A d \in Reviews : sandbox'[d] =
            IF d \in set THEN [sandbox[d] EXCEPT !.st = "none"] ELSE sandbox[d]
  BY DEF Without
<1>3. \A d \in Reviews : sandbox[d] \in Boxes
  BY DEF ReviewTyped
<1> QED BY <1>1, <1>2, <1>3 DEF Cleared

(* What a child files it files under what it resolved; what it supersedes  *)
(* was about the same.                                                     *)
LEMMA EntryIs ==
    ASSUME NEW c, NEW status
    PROVE  /\ Entry(c, status).key = review[c].under
           /\ Entry(c, status).read = review[c].read
           /\ Entry(c, status).status = status
           /\ Entry(c, status).raced = review[c].raced
BY DEF Entry

LEMMA Supersedes ==
    ASSUME NEW entry
    PROVE  /\ Filed(entry) \subseteq ledger \cup {entry}
           /\ \A e \in ledger : \E f \in Filed(entry) :
                 /\ f.kind = e.kind /\ f.key.head = e.key.head
                 /\ e.kind = "pr" => f.key = e.key
<1>1. ASSUME NEW e \in ledger, e \notin Filed(entry)
      PROVE  /\ entry.kind = e.kind /\ entry.key.head = e.key.head
             /\ e.kind = "pr" => entry.key = e.key
  BY <1>1 DEF Filed
<1> QED BY <1>1 DEF Filed

(* The steps a child takes that set up nothing.                            *)
Steps ==
    {<<"sweep", "resolve">>, <<"prerun", "run">>, <<"run", "clean">>,
     <<"route", "clean">>, <<"wait", "capture">>, <<"wait", "clean">>,
     <<"capture", "clean">>} \cup ((Points \ {"none", "over"}) \X {"over"})

LEMMA ChildSteps ==
    ASSUME ReviewInv, NEW c \in Reviews, NEW from, NEW to, NEW set,
           <<from, to>> \in Steps, AtStep(c, from, to), row' = row,
           sandbox' = sandbox \/ sandbox' = Without(set),
           lock' = lock \/ lock' = [holder |-> NoReview, listed |-> {}],
           \/ ledger' = ledger
           \/ ledger' = Filed(Entry(c, "failed"))
           \/ from = "capture" /\ ledger' = Filed(Entry(c, "ok"))
    PROVE  ReviewInv'
<1>0. ReviewTyped /\ Apart /\ RouteFirst /\ ReadRight
  BY DEF ReviewInv
<1>1. /\ to \in Points /\ from \notin {"none", "over"} /\ to # "let"
      /\ to \in Early => from \in Early
      /\ to = "route" => from = "route"
      /\ to \in {"prerun", "run", "route", "let", "wait", "capture"} =>
            from \in {"prerun", "wait"}
  BY DEF Steps, Points, Early
<1>2. review[c].pc = from /\ Stepped(c, to)
  BY <1>0, <1>1, StepTaken
<1>3. /\ sandbox' \in [Reviews -> Boxes]
      /\ \A d \in Reviews : /\ sandbox'[d].ok = sandbox[d].ok
                            /\ sandbox'[d].routed = sandbox[d].routed
                            /\ sandbox'[d].st \in {sandbox[d].st, "none"}
  <2>1. CASE sandbox' = sandbox
    BY <1>0, <2>1 DEF ReviewTyped
  <2>2. CASE sandbox' = Without(set)
    <3>1. Cleared(set)
      BY <1>0, <2>2, Removed
    <3> QED BY <3>1 DEF Cleared
  <2> QED BY <2>1, <2>2
<1>4. ReviewTyped'
  BY <1>0, <1>2, <1>3 DEF ReviewTyped, Stepped
<1>5. Apart'
  <2>1. \A d \in Reviews :
           /\ Lives(d)' => Lives(d)
           /\ Exists(d)' => Exists(d)
           /\ review'[d].pid = review[d].pid
           /\ review'[d].pc \in Early => review[d].pc \in Early
    BY <1>1, <1>2, <1>3 DEF Lives, Exists, Stepped
  <2>2. lock'.listed \subseteq lock.listed /\ lock.listed \subseteq Reviews
    BY <1>0 DEF ReviewTyped
  <2>3. \A d \in lock'.listed :
           sandbox'[d].st \in {"none", "exited"} /\ review'[d].pc \notin Early
    BY <1>0, <1>3, <2>1, <2>2 DEF Apart
  <2>4. \A d \in Reviews : Exists(d)' => review'[d].pc \notin Early
    BY <1>0, <2>1 DEF Apart, Lives, Exists
  <2>5. \A d, e \in Reviews :
           d # e /\ Lives(d)' /\ Lives(e)' => review'[d].pid # review'[e].pid
    BY <1>0, <2>1 DEF Apart, Lives, Exists
  <2> QED BY <2>3, <2>4, <2>5 DEF Apart, Lives, Exists
<1>6. RouteFirst'
  BY <1>0, <1>1, <1>2, <1>3 DEF RouteFirst, Stepped
<1>7. ReadRight'
  <2>1. \A d \in Reviews :
           /\ review'[d].raced = review[d].raced
           /\ review'[d].read = review[d].read
           /\ review'[d].under = review[d].under
           /\ review'[d].pc \in {"prerun", "run", "route", "let", "wait",
                                "capture"}
                 => review[d].pc \in {"prerun", "run", "route", "let", "wait",
                                     "capture"}
    BY <1>1, <1>2 DEF Stepped
  <2>2. ASSUME NEW e \in ledger', e.status = "ok"
        PROVE  e.raced \/ e.read.head = e.key.head
    <3>1. CASE e \in ledger
      BY <1>0, <2>2, <3>1 DEF ReadRight
    <3>2. CASE e \notin ledger
      <4>1. e = Entry(c, "ok") /\ from = "capture"
        <5>1. e = Entry(c, "failed") \/ (e = Entry(c, "ok") /\ from = "capture")
          BY <2>2, <3>2, Supersedes
        <5>2. Entry(c, "failed").status = "failed"
          BY EntryIs
        <5> QED BY <2>2, <5>1, <5>2
      <4>2. /\ e.raced = review[c].raced /\ e.read = review[c].read
            /\ e.key = review[c].under
        BY <4>1, EntryIs
      <4> QED BY <1>0, <1>2, <4>1, <4>2 DEF ReadRight
    <3> QED BY <3>1, <3>2
  <2> QED BY <1>0, <2>1, <2>2 DEF ReadRight
<1> QED BY <1>4, <1>5, <1>6, <1>7 DEF ReviewInv

-----------------------------------------------------------------------------
(* The invariant holds in every state.                                     *)
THEOREM ReviewInvariant == ReviewSpec => []ReviewInv
<1>1. ReviewInit => ReviewInv
  <2> SUFFICES ASSUME ReviewInit PROVE ReviewInv
    OBVIOUS
  <2>1. ReviewTyped
    <3>1. NotYet \in Children
      BY DEF NotYet, Nowhere, Children, Places, Points, Early
    <3>2. NoReview \in Reviews \cup {NoReview}
      OBVIOUS
    <3> QED BY <3>1, <3>2 DEF ReviewInit, ReviewTyped, Boxes, Places
  <2>2. Apart /\ RouteFirst /\ ReadRight
    BY DEF ReviewInit, Apart, RouteFirst, ReadRight, NotYet, Early, Lives,
           Exists
  <2> QED BY <2>1, <2>2 DEF ReviewInv
<1>2. ReviewInv /\ [ReviewNext]_reviewVars => ReviewInv'
  <2> SUFFICES ASSUME ReviewInv, [ReviewNext]_reviewVars PROVE ReviewInv'
    OBVIOUS
  <2>0. ReviewTyped /\ Apart /\ RouteFirst /\ ReadRight
    BY DEF ReviewInv
  <2>1. ASSUME UNCHANGED <<review, sandbox, lock, ledger>>, row' \in Places
        PROVE  ReviewInv'
    BY <2>0, <2>1
       DEF ReviewInv, ReviewTyped, Apart, RouteFirst, ReadRight, Lives, Exists
  <2>2. ASSUME NEW n \in Shas \cup Forks, AgentPushes(n) \/ ForkReturns(n)
        PROVE  ReviewInv'
    <3>1. n \in Nat /\ row \in Places
      BY <2>0, ReviewAssumption DEF ReviewTyped, Shas, Forks
    <3>2. row' \in Places
      BY <2>2, <3>1 DEF AgentPushes, ForkReturns, Places
    <3> QED BY <2>1, <2>2, <3>2 DEF AgentPushes, ForkReturns
  <2>3. ASSUME NEW c \in Reviews, NEW pid \in Pids,
               NEW sha \in Shas \cup {NoSha}, ReviewStarts(c, pid, sha)
        PROVE  ReviewInv'
    <3> DEFINE Fresh == [NotYet EXCEPT !.pc = "net", !.pid = pid, !.sha = sha]
    <3>1. /\ review[c].pc = "none"
          /\ \A d \in Reviews : Lives(d) => review[d].pid # pid
          /\ review' = [review EXCEPT ![c] = Fresh]
          /\ UNCHANGED <<sandbox, lock, row, ledger>>
      BY <2>3 DEF ReviewStarts
    <3>2. Fresh \in Children /\ Fresh.pc = "net" /\ Fresh.pid = pid
      BY DEF NotYet, Nowhere, Children, Places, Points, Early
    <3> HIDE DEF Fresh
    <3>3. /\ review'[c].pc = "net" /\ review'[c].pid = pid
          /\ \A d \in Reviews \ {c} : review'[d] = review[d]
          /\ review' \in [Reviews -> Children]
      BY <2>0, <3>1, <3>2 DEF ReviewTyped
    <3>4. ReviewTyped'
      BY <2>0, <3>1, <3>3 DEF ReviewTyped
    <3>5. Apart'
      <4>1. lock.listed \subseteq Reviews /\ c \notin lock.listed /\ ~Exists(c)
        BY <2>0, <3>1 DEF Apart, ReviewTyped, Early
      <4> QED BY <2>0, <3>1, <3>3, <4>1 DEF Apart, Lives, Exists
    <3>6. RouteFirst'
      BY <2>0, <3>1, <3>3 DEF RouteFirst, Early
    <3>7. ReadRight'
      BY <2>0, <3>1, <3>3 DEF ReadRight
    <3> QED BY <3>4, <3>5, <3>6, <3>7 DEF ReviewInv
  <2>4. ASSUME NEW c \in Reviews, NetLocked(c)
        PROVE  ReviewInv'
    <3>1. /\ AtStep(c, "net", "sweep") /\ UNCHANGED <<sandbox, row, ledger>>
          /\ lock' = [holder |-> c,
                      listed |-> {d \in Reviews : sandbox[d].st = "exited"}]
      BY <2>4 DEF NetLocked
    <3>2. review[c].pc = "net" /\ Stepped(c, "sweep")
      BY <2>0, <3>1, StepTaken DEF Points, Early
    <3>3. ReviewTyped'
      BY <2>0, <3>1, <3>2 DEF ReviewTyped, Stepped
    <3>4. Apart'
      <4>1. \A d \in Reviews :
               /\ Lives(d)' = Lives(d) /\ Exists(d)' = Exists(d)
               /\ review'[d].pid = review[d].pid
               /\ review'[d].pc \in Early <=> review[d].pc \in Early
        BY <3>1, <3>2 DEF Lives, Exists, Stepped, Early
      <4>2. \A d \in lock'.listed :
               sandbox'[d].st \in {"none", "exited"} /\ review'[d].pc \notin Early
        <5>1. ASSUME NEW d \in lock'.listed
              PROVE  d \in Reviews /\ sandbox[d].st = "exited" /\ Exists(d)
          BY <3>1, <5>1 DEF Exists
        <5> QED BY <2>0, <3>1, <4>1, <5>1 DEF Apart
      <4>3. \A d \in Reviews : Exists(d)' => review'[d].pc \notin Early
        BY <2>0, <4>1 DEF Apart, Lives, Exists
      <4>4. \A d, e \in Reviews :
               d # e /\ Lives(d)' /\ Lives(e)' => review'[d].pid # review'[e].pid
        BY <2>0, <4>1 DEF Apart, Lives, Exists
      <4> QED BY <4>2, <4>3, <4>4 DEF Apart, Lives, Exists
    <3>5. RouteFirst' /\ ReadRight'
      BY <2>0, <3>1, <3>2 DEF RouteFirst, ReadRight, Stepped, Early
    <3> QED BY <3>3, <3>4, <3>5 DEF ReviewInv
  <2>5. ASSUME NEW c \in Reviews, NEW d \in Reviews, NetSweeps(c, d)
        PROVE  ReviewInv'
    <3>1. /\ lock' = [lock EXCEPT !.listed = @ \ {d}]
          /\ sandbox' = Without({d}) /\ UNCHANGED <<review, row, ledger>>
      BY <2>5 DEF NetSweeps
    <3>2. Cleared({d})
      BY <2>0, <3>1, Removed
    <3>3. /\ lock' \in [holder : Reviews \cup {NoReview}, listed : SUBSET Reviews]
          /\ lock'.listed \subseteq lock.listed /\ lock.listed \subseteq Reviews
      BY <2>0, <3>1 DEF ReviewTyped
    <3>4. ReviewTyped'
      BY <2>0, <3>1, <3>2, <3>3 DEF ReviewTyped, Cleared
    <3>5. Apart'
      <4>1. \A e \in Reviews : sandbox'[e].st \in {sandbox[e].st, "none"}
        BY <3>2 DEF Cleared
      <4>2. \A e \in lock'.listed :
               sandbox'[e].st \in {"none", "exited"} /\ review'[e].pc \notin Early
        BY <2>0, <3>1, <3>3, <4>1 DEF Apart
      <4>3. \A e \in Reviews : Exists(e)' => review'[e].pc \notin Early
        BY <2>0, <3>1, <4>1 DEF Apart, Lives, Exists
      <4>4. \A e, f \in Reviews :
               e # f /\ Lives(e)' /\ Lives(f)' => review'[e].pid # review'[f].pid
        BY <2>0, <3>1 DEF Apart, Lives, Exists
      <4> QED BY <4>2, <4>3, <4>4 DEF Apart, Lives, Exists
    <3>6. RouteFirst'
      BY <2>0, <3>1, <3>2 DEF RouteFirst, Cleared
    <3>7. ReadRight'
      BY <2>0, <3>1 DEF ReadRight
    <3> QED BY <3>4, <3>5, <3>6, <3>7 DEF ReviewInv
  <2>6. ASSUME NEW c \in Reviews,
               \/ NetDone(c) \/ ReviewDies(c) \/ RunFails(c) \/ Waited(c)
               \/ FetchFails(c) \/ Unusable(c) \/ Recorded(c)
               \/ PreRun(c) \/ Cleaned(c) \/ TimesOut(c) \/ ReviewKilled(c)
        PROVE  ReviewInv'
    <3> USE ChildSteps DEF Steps, Points, Early, Fails
    <3>1. CASE NetDone(c)
      BY <3>1 DEF NetDone
    <3>2. CASE ReviewDies(c) \/ RunFails(c) \/ Waited(c)
      BY <3>2 DEF ReviewDies, RunFails, Waited
    <3>3. CASE FetchFails(c)
      BY <3>3 DEF FetchFails
    <3>4. CASE Unusable(c) \/ Recorded(c)
      BY <3>4 DEF Unusable, Recorded
    <3>5. CASE PreRun(c)
      BY <3>5 DEF PreRun
    <3>6. CASE Cleaned(c)
      BY <3>6 DEF Cleaned
    <3>7. CASE TimesOut(c)
      BY <3>7 DEF TimesOut
    <3>8. CASE ReviewKilled(c)
      <4>1. /\ AtStep(c, review[c].pc, "over")
            /\ <<review[c].pc, "over">> \in Steps
        BY <2>0, <3>8 DEF ReviewKilled, AtStep, Lives, ReviewTyped, Children
      <4> QED BY <3>8, <4>1 DEF ReviewKilled
    <3> QED
      BY <2>6, <3>1, <3>2, <3>3, <3>4, <3>5, <3>6, <3>7, <3>8
  <2>7. ASSUME NEW c \in Reviews, Resolved(c) \/ Fetched(c)
        PROVE  ReviewInv'
    <3>1. UNCHANGED <<sandbox, lock, row, ledger>>
      BY <2>7 DEF Resolved, Fetched
    <3>2. row \in Places /\ review[c] \in Children
      BY <2>0 DEF ReviewTyped
    <3>3. /\ review[c].pc \in {"resolve", "fetch"}
          /\ review'[c].pc \in {"fetch", "prerun"}
          /\ review'[c].pc = "prerun" =>
                review'[c].raced \/ review'[c].read.head = review'[c].under.head
          /\ review'[c].pid = review[c].pid
          /\ review'[c] \in Children
          /\ \A d \in Reviews \ {c} : review'[d] = review[d]
          /\ review' \in [Reviews -> Children]
      <4>1. CASE Resolved(c)
        <5> DEFINE sha == review[c].sha
                   place == IF sha = NoSha THEN row ELSE [row EXCEPT !.head = sha]
        <5>1. place \in Places
          BY <3>2, ReviewAssumption DEF Places, Children, Shas, NoSha
        <5> HIDE DEF place
        <5>2. [review[c] EXCEPT !.pc = "fetch", !.under = place] \in Children
          BY <3>2, <5>1 DEF Children, Points, Early
        <5>3. /\ review[c].pc = "resolve"
              /\ review' = [review EXCEPT ![c] =
                    [review[c] EXCEPT !.pc = "fetch", !.under = place]]
          BY <2>0, <4>1 DEF Resolved, ReviewTyped, place
        <5> QED BY <2>0, <3>2, <5>2, <5>3 DEF ReviewTyped, Children
      <4>2. CASE Fetched(c)
        <5> DEFINE pr == review[c].sha = NoSha
                   got == IF pr THEN row ELSE review[c].under
                   off == pr /\ row # review[c].under
                   Fresh == [review[c] EXCEPT !.pc = "prerun", !.read = got,
                                            !.raced = off]
        <5>1. got \in Places /\ off \in BOOLEAN /\ (off \/ got = review[c].under)
          BY <3>2 DEF Children
        <5> HIDE DEF got, off
        <5>2. /\ Fresh \in Children /\ Fresh.pc = "prerun"
              /\ Fresh.pid = review[c].pid /\ Fresh.read = got /\ Fresh.raced = off
              /\ Fresh.under = review[c].under
          BY <3>2, <5>1 DEF Children, Points, Early
        <5>3. /\ review[c].pc = "fetch"
              /\ review' = [review EXCEPT ![c] = Fresh]
          BY <2>0, <4>2 DEF Fetched, ReviewTyped, got, off
        <5> HIDE DEF Fresh
        <5> QED BY <2>0, <5>1, <5>2, <5>3 DEF ReviewTyped
      <4> QED BY <2>7, <4>1, <4>2
    <3>4. ReviewTyped'
      BY <2>0, <3>1, <3>3 DEF ReviewTyped
    <3>5. Apart'
      <4>1. \A d \in Reviews :
               /\ Lives(d)' = Lives(d) /\ Exists(d)' = Exists(d)
               /\ review'[d].pid = review[d].pid
               /\ review'[d].pc \in Early <=> review[d].pc \in Early
        BY <3>1, <3>3 DEF Lives, Exists, Early
      <4> QED BY <2>0, <3>1, <4>1 DEF Apart, ReviewTyped
    <3>6. RouteFirst'
      BY <2>0, <3>1, <3>3 DEF RouteFirst, Early
    <3>7. ReadRight'
      BY <2>0, <3>1, <3>3 DEF ReadRight
    <3> QED BY <3>4, <3>5, <3>6, <3>7 DEF ReviewInv
  <2>8. ASSUME NEW c \in Reviews, Runs(c) \/ Routed(c) \/ LetGo(c)
        PROVE  ReviewInv'
    <3>1. UNCHANGED <<lock, row, ledger>>
      BY <2>8 DEF Runs, Routed, LetGo
    <3>2. PICK from \in {"run", "route", "let"}, to \in {"route", "let", "wait"} :
             /\ AtStep(c, from, to) /\ (to = "let" <=> Routed(c))
             /\ to = "wait" <=> LetGo(c)
             /\ from = "let" <=> LetGo(c)
             /\ to = "route" <=> Runs(c)
      BY <2>8 DEF Runs, Routed, LetGo, AtStep
    <3>3. review[c].pc = from /\ Stepped(c, to)
      BY <2>0, <3>2, StepTaken DEF Points
    <3>4. /\ sandbox' \in [Reviews -> Boxes]
          /\ \A d \in Reviews \ {c} : sandbox'[d] = sandbox[d]
          /\ LetGo(c) => /\ sandbox'[c].st = sandbox[c].st
                         /\ sandbox'[c].routed = sandbox[c].routed
          /\ ~LetGo(c) => sandbox'[c].ok = sandbox[c].ok
          /\ Routed(c) => /\ sandbox'[c].st = sandbox[c].st
                          /\ sandbox'[c].routed = (sandbox[c].st = "gate")
          /\ Runs(c) => sandbox'[c].st = "gate"
      <4>1. sandbox[c] \in Boxes
        BY <2>0 DEF ReviewTyped
      <4>2. CASE Runs(c)
        <5>1. sandbox' = [sandbox EXCEPT ![c] = [sandbox[c] EXCEPT !.st = "gate"]]
              /\ ~LetGo(c) /\ ~Routed(c)
          BY <2>0, <4>2 DEF Runs, LetGo, Routed, AtStep, ReviewTyped
        <5> QED BY <2>0, <4>1, <5>1 DEF ReviewTyped, Boxes
      <4>3. CASE Routed(c)
        <5>1. /\ sandbox' = [sandbox EXCEPT ![c] =
                   [sandbox[c] EXCEPT !.routed = (sandbox[c].st = "gate")]]
              /\ ~LetGo(c) /\ ~Runs(c)
          BY <2>0, <4>3 DEF Runs, LetGo, Routed, AtStep, ReviewTyped
        <5> DEFINE set == sandbox[c].st = "gate"
                   box == [sandbox[c] EXCEPT !.routed = set]
        <5>2. set \in BOOLEAN
          OBVIOUS
        <5>3. sandbox' = [sandbox EXCEPT ![c] = box]
          BY <5>1
        <5> HIDE DEF set
        <5>4. /\ box \in Boxes /\ box.st = sandbox[c].st
              /\ box.ok = sandbox[c].ok /\ box.routed = set
          BY <4>1, <5>2 DEF Boxes
        <5> HIDE DEF box
        <5>5. /\ sandbox' \in [Reviews -> Boxes] /\ sandbox'[c] = box
              /\ \A d \in Reviews \ {c} : sandbox'[d] = sandbox[d]
          BY <2>0, <5>3, <5>4 DEF ReviewTyped
        <5>6. sandbox'[c].routed = (sandbox[c].st = "gate")
          BY <5>4, <5>5 DEF set
        <5>7. /\ sandbox'[c].st = sandbox[c].st
              /\ sandbox'[c].ok = sandbox[c].ok
          BY <5>4, <5>5
        <5>8. ~LetGo(c) /\ ~Runs(c)
          BY <5>1
        <5> DEFINE Others == /\ sandbox' \in [Reviews -> Boxes]
                           /\ \A d \in Reviews \ {c} : sandbox'[d] = sandbox[d]
                   St == sandbox'[c].st = sandbox[c].st
                   Ok == sandbox'[c].ok = sandbox[c].ok
                   Set == sandbox'[c].routed = (sandbox[c].st = "gate")
        <5>9. Others /\ St /\ Ok /\ Set
          BY <5>5, <5>6, <5>7
        <5> QED BY <5>8, <5>9, Zenon
      <4>4. CASE LetGo(c)
        <5>1. sandbox' = [sandbox EXCEPT ![c] = [sandbox[c] EXCEPT !.ok = TRUE]]
              /\ ~Runs(c) /\ ~Routed(c)
          BY <2>0, <4>4 DEF Runs, LetGo, Routed, AtStep, ReviewTyped
        <5> DEFINE box == [sandbox[c] EXCEPT !.ok = TRUE]
        <5>2. /\ box \in Boxes /\ box.st = sandbox[c].st
              /\ box.routed = sandbox[c].routed
          BY <4>1 DEF Boxes
        <5>3. sandbox' = [sandbox EXCEPT ![c] = box]
          BY <5>1
        <5> HIDE DEF box
        <5>4. /\ sandbox' \in [Reviews -> Boxes] /\ sandbox'[c] = box
              /\ \A d \in Reviews \ {c} : sandbox'[d] = sandbox[d]
          BY <2>0, <5>2, <5>3 DEF ReviewTyped
        <5> HIDE DEF LetGo, Routed, Runs
        <5> QED BY <4>4, <5>1, <5>2, <5>4
      <4> QED BY <2>8, <4>2, <4>3, <4>4
    <3>5. ReviewTyped'
      BY <2>0, <3>1, <3>3, <3>4 DEF ReviewTyped, Stepped
    <3>6. Apart'
      <4>1. \A d \in Reviews :
               /\ Lives(d)' = Lives(d)
               /\ review'[d].pid = review[d].pid
               /\ d # c => (review'[d].pc \in Early <=> review[d].pc \in Early)
               /\ d # c => Exists(d)' = Exists(d)
               /\ d = c => review'[d].pc \notin Early
        BY <3>2, <3>3, <3>4 DEF Lives, Exists, Stepped, Early
      <4>2. c \in lock.listed => sandbox'[c].st = sandbox[c].st
        <5>1. CASE Runs(c)
          BY <2>0, <3>2, <3>3, <5>1 DEF Apart, Early, Runs, AtStep
        <5>2. CASE Routed(c) \/ LetGo(c)
          BY <3>4, <5>2
        <5> QED BY <2>8, <5>1, <5>2
      <4>3. \A d \in lock'.listed :
               sandbox'[d].st \in {"none", "exited"} /\ review'[d].pc \notin Early
        BY <2>0, <3>1, <3>4, <4>1, <4>2 DEF Apart, ReviewTyped
      <4>4. \A d \in Reviews : Exists(d)' => review'[d].pc \notin Early
        BY <2>0, <4>1 DEF Apart, Lives, Exists
      <4>5. \A d, e \in Reviews :
               d # e /\ Lives(d)' /\ Lives(e)' => review'[d].pid # review'[e].pid
        BY <2>0, <4>1 DEF Apart, Lives, Exists
      <4> QED BY <4>3, <4>4, <4>5 DEF Apart, Lives, Exists
    <3>7. RouteFirst'
      <4>1. \A d \in Reviews \ {c} :
               sandbox'[d] = sandbox[d] /\ review'[d] = review[d]
        BY <3>3, <3>4 DEF Stepped
      <4>2. /\ review'[c].pc \in Early \cup {"route", "let"} => ~sandbox'[c].ok
            /\ review'[c].pc = "let" /\ sandbox'[c].st = "gate"
                  => sandbox'[c].routed
            /\ sandbox'[c].ok /\ sandbox'[c].st \in {"gate", "work"}
                  => sandbox'[c].routed
            /\ sandbox'[c].st = "work" => sandbox'[c].ok
        <5>1. CASE Runs(c)
          <6>1. from = "run" /\ to = "route" /\ ~sandbox[c].ok /\ ~LetGo(c)
            BY <2>0, <3>2, <3>3, <5>1
               DEF Runs, LetGo, AtStep, RouteFirst, Early
          <6>2. review'[c].pc = "route" /\ ~sandbox'[c].ok
                /\ sandbox'[c].st = "gate"
            BY <3>3, <3>4, <5>1, <6>1 DEF Stepped
          <6> QED BY <6>2
        <5>2. CASE Routed(c)
          <6>1. review[c].pc = "route" /\ to = "let" /\ ~LetGo(c)
            BY <3>2, <5>2 DEF Routed, LetGo, AtStep
          <6>2. ~sandbox[c].ok
            BY <2>0, <6>1 DEF RouteFirst
          <6>3. /\ review'[c].pc = "let" /\ ~sandbox'[c].ok
                /\ sandbox'[c].st = sandbox[c].st
                /\ sandbox'[c].routed = (sandbox[c].st = "gate")
            BY <3>3, <3>4, <5>2, <6>1, <6>2 DEF Stepped
          <6>4. sandbox[c].st # "work"
            BY <2>0, <6>2 DEF RouteFirst
          <6> QED BY <6>3, <6>4
        <5>3. CASE LetGo(c)
          <6>1. review[c].pc = "let" /\ review'[c].pc = "wait"
            BY <3>2, <3>3, <5>3 DEF LetGo, AtStep, Stepped
          <6>2. sandbox[c].st = "gate" => sandbox[c].routed
            BY <2>0, <6>1 DEF RouteFirst
          <6>3. ~sandbox[c].ok /\ sandbox[c].st # "work"
            BY <2>0, <6>1 DEF RouteFirst
          <6>4. /\ sandbox'[c].st = sandbox[c].st
                /\ sandbox'[c].routed = sandbox[c].routed
            BY <3>4, <5>3
          <6> QED BY <6>1, <6>2, <6>3, <6>4 DEF Early
        <5> QED BY <2>8, <5>1, <5>2, <5>3
      <4> QED BY <2>0, <4>1, <4>2 DEF RouteFirst
    <3>8. ReadRight'
      BY <2>0, <3>1, <3>3 DEF ReadRight, Stepped
    <3> QED BY <3>5, <3>6, <3>7, <3>8 DEF ReviewInv
  <2>9. ASSUME NEW c \in Reviews, GateOpens(c) \/ Exits(c)
        PROVE  ReviewInv'
    <3>1. /\ UNCHANGED <<review, lock, row, ledger>>
          /\ sandbox' \in [Reviews -> Boxes]
          /\ \A d \in Reviews \ {c} : sandbox'[d] = sandbox[d]
          /\ sandbox[c].st \in {"gate", "work"}
          /\ \/ sandbox'[c].st = "work" /\ sandbox[c].ok
             \/ sandbox'[c].st = "exited"
          /\ sandbox'[c].ok = sandbox[c].ok
          /\ sandbox'[c].routed = sandbox[c].routed
      <4>1. sandbox[c] \in Boxes
        BY <2>0 DEF ReviewTyped
      <4>2. CASE GateOpens(c)
        <5>1. sandbox' = [sandbox EXCEPT ![c] = [sandbox[c] EXCEPT !.st = "work"]]
          BY <2>0, <4>2 DEF GateOpens, ReviewTyped
        <5> DEFINE box == [sandbox[c] EXCEPT !.st = "work"]
        <5>2. /\ box \in Boxes /\ box.st = "work"
              /\ box.ok = sandbox[c].ok /\ box.routed = sandbox[c].routed
          BY <4>1 DEF Boxes
        <5>3. sandbox' = [sandbox EXCEPT ![c] = box]
          BY <5>1
        <5>4. UNCHANGED <<review, lock, row, ledger>>
              /\ sandbox[c].st \in {"gate", "work"} /\ sandbox[c].ok
          BY <4>2 DEF GateOpens
        <5> HIDE DEF box
        <5>5. /\ sandbox' \in [Reviews -> Boxes] /\ sandbox'[c] = box
              /\ \A d \in Reviews \ {c} : sandbox'[d] = sandbox[d]
          BY <2>0, <5>2, <5>3 DEF ReviewTyped
        <5> QED BY <5>2, <5>4, <5>5
      <4>3. CASE Exits(c)
        <5>1. PICK out \in BOOLEAN : sandbox' = [sandbox EXCEPT ![c] =
                 [sandbox[c] EXCEPT !.st = "exited", !.out = out]]
          BY <2>0, <4>3 DEF Exits, ReviewTyped
        <5> DEFINE box == [sandbox[c] EXCEPT !.st = "exited", !.out = out]
        <5>2. /\ box \in Boxes /\ box.st = "exited"
              /\ box.ok = sandbox[c].ok /\ box.routed = sandbox[c].routed
          BY <4>1, <5>1 DEF Boxes
        <5>3. sandbox' = [sandbox EXCEPT ![c] = box]
          BY <5>1
        <5>4. UNCHANGED <<review, lock, row, ledger>>
              /\ sandbox[c].st \in {"gate", "work"}
          BY <4>3 DEF Exits
        <5> HIDE DEF box
        <5>5. /\ sandbox' \in [Reviews -> Boxes] /\ sandbox'[c] = box
              /\ \A d \in Reviews \ {c} : sandbox'[d] = sandbox[d]
          BY <2>0, <5>2, <5>3 DEF ReviewTyped
        <5> QED BY <5>2, <5>4, <5>5
      <4> QED BY <2>9, <4>2, <4>3
    <3>2. ReviewTyped'
      BY <2>0, <3>1 DEF ReviewTyped
    <3>3. Apart'
      BY <2>0, <3>1 DEF Apart, Lives, Exists, ReviewTyped
    <3>4. RouteFirst' /\ ReadRight'
      BY <2>0, <3>1 DEF RouteFirst, ReadRight
    <3> QED BY <3>2, <3>3, <3>4 DEF ReviewInv
  <2>10. CASE UNCHANGED reviewVars
    BY <2>0, <2>1, <2>10 DEF reviewVars, ReviewTyped
  <2> QED
    BY <2>2, <2>3, <2>4, <2>5, <2>6, <2>7, <2>8, <2>9, <2>10 DEF ReviewNext
<1> QED BY <1>1, <1>2, PTL DEF ReviewSpec

-----------------------------------------------------------------------------
(* A container that is removed was listed by a sweep, or bears the name of *)
(* a child that clears it.                                                 *)
LEMMA WhoRemoves ==
    ASSUME ReviewInv, [ReviewNext]_reviewVars, NEW c \in Reviews,
           Exists(c), sandbox'[c].st = "none"
    PROVE  \/ c \in lock.listed
           \/ \E d \in Reviews : /\ PreRun(d) \/ TimesOut(d) \/ Cleaned(d)
                                 /\ c \in Named(review[d].pid)
<1>0. /\ sandbox \in [Reviews -> Boxes] /\ sandbox[c] \in Boxes
      /\ sandbox[c].st # "none" /\ sandbox' # sandbox
  BY DEF ReviewInv, ReviewTyped, Exists
<1>1. ASSUME NEW set, sandbox' = Without(set)
      PROVE  c \in set
  BY <1>0, <1>1, Removed DEF Cleared, ReviewInv
<1>2. ASSUME NEW d \in Reviews,
             Runs(d) \/ Routed(d) \/ LetGo(d) \/ GateOpens(d) \/ Exits(d)
      PROVE  FALSE
  <2>1. PICK box : /\ sandbox' = [sandbox EXCEPT ![d] = box]
                   /\ box.st \in {"gate", "work", "exited", sandbox[d].st}
    <3>1. sandbox[d] \in Boxes
      BY <1>0
    <3>2. CASE Runs(d)
      <4> DEFINE box == [sandbox[d] EXCEPT !.st = "gate"]
      <4>2. box.st = "gate"
        BY <3>1 DEF Boxes
      <4>3. sandbox' = [sandbox EXCEPT ![d] = box]
        BY <1>0, <3>2 DEF Runs
      <4> HIDE DEF box
      <4> QED BY <4>2, <4>3
    <3>3. CASE Routed(d)
      <4> DEFINE set == sandbox[d].st = "gate"
                 box == [sandbox[d] EXCEPT !.routed = set]
      <4>2. box.st = sandbox[d].st
        BY <3>1 DEF Boxes
      <4>3. sandbox' = [sandbox EXCEPT ![d] = box]
        BY <1>0, <3>3 DEF Routed
      <4> HIDE DEF box
      <4> QED BY <4>2, <4>3
    <3>4. CASE LetGo(d)
      <4> DEFINE box == [sandbox[d] EXCEPT !.ok = TRUE]
      <4>2. box.st = sandbox[d].st
        BY <3>1 DEF Boxes
      <4>3. sandbox' = [sandbox EXCEPT ![d] = box]
        BY <1>0, <3>4 DEF LetGo
      <4> HIDE DEF box
      <4> QED BY <4>2, <4>3
    <3>5. CASE GateOpens(d)
      <4> DEFINE box == [sandbox[d] EXCEPT !.st = "work"]
      <4>2. box.st = "work"
        BY <3>1 DEF Boxes
      <4>3. sandbox' = [sandbox EXCEPT ![d] = box]
        BY <1>0, <3>5 DEF GateOpens
      <4> HIDE DEF box
      <4> QED BY <4>2, <4>3
    <3>6. CASE Exits(d)
      <4>1. PICK out : sandbox' = [sandbox EXCEPT ![d] =
               [sandbox[d] EXCEPT !.st = "exited", !.out = out]]
        BY <1>0, <3>6 DEF Exits
      <4> DEFINE box == [sandbox[d] EXCEPT !.st = "exited", !.out = out]
      <4>2. box.st = "exited"
        BY <3>1 DEF Boxes
      <4>3. sandbox' = [sandbox EXCEPT ![d] = box]
        BY <4>1
      <4> HIDE DEF box
      <4> QED BY <4>2, <4>3
    <3> QED BY <1>2, <3>2, <3>3, <3>4, <3>5, <3>6
  <2> QED BY <1>0, <2>1
<1>3. ASSUME NEW e \in Reviews, NEW d \in Reviews, NetSweeps(e, d)
      PROVE  c \in lock.listed
  <2>1. sandbox' = Without({d}) /\ d \in lock.listed
    BY <1>3 DEF NetSweeps
  <2> QED BY <1>1, <2>1
<1>4. ASSUME NEW d \in Reviews, PreRun(d) \/ TimesOut(d) \/ Cleaned(d)
      PROVE  c \in Named(review[d].pid)
  <2>1. sandbox' = Without(Named(review[d].pid))
    BY <1>4 DEF PreRun, TimesOut, Cleaned
  <2> QED BY <1>1, <2>1
<1>5. \/ \E e, d \in Reviews : NetSweeps(e, d)
      \/ \E d \in Reviews : PreRun(d) \/ TimesOut(d) \/ Cleaned(d)
  <2>1. sandbox' # sandbox
    BY <1>0
  <2> QED
    BY <1>2, <2>1
       DEF ReviewNext, reviewVars, AgentPushes, ForkReturns, ReviewStarts,
           NetLocked, NetDone, ReviewDies, Resolved, Fetched, FetchFails,
           RunFails, Waited, Recorded, Unusable, ReviewKilled
<1> QED BY <1>3, <1>4, <1>5

(* Nothing reviews before its route is set, and what a child waits for no  *)
(* other child removes: for any number of reviews, side by side, however   *)
(* few pids they draw from and whichever of them is killed.                *)
THEOREM ReviewsStayApart == ReviewSpec => ReviewsApart
<1>1. ReviewInv => \A c \in Reviews : sandbox[c].st = "work" => sandbox[c].routed
  BY DEF ReviewInv, RouteFirst
<1> DEFINE Kept == \A c \in Reviews :
             /\ review[c].pc \in {"route", "let", "wait"}
             /\ sandbox[c].st \in {"gate", "work"} /\ sandbox'[c].st = "none"
             => review'[c].pc # review[c].pc
<1>2. ReviewInv /\ [ReviewNext]_reviewVars => [Kept]_reviewVars
  <2> SUFFICES ASSUME ReviewInv, [ReviewNext]_reviewVars, NEW c \in Reviews,
                      review[c].pc \in {"route", "let", "wait"},
                      sandbox[c].st \in {"gate", "work"},
                      sandbox'[c].st = "none"
               PROVE  review'[c].pc # review[c].pc
    OBVIOUS
  <2>1. Apart /\ review \in [Reviews -> Children]
    BY DEF ReviewInv, ReviewTyped
  <2>2. c \notin lock.listed /\ Exists(c) /\ Lives(c)
    BY <2>1 DEF Apart, Exists, Lives
  <2>3. PICK d \in Reviews : /\ PreRun(d) \/ TimesOut(d) \/ Cleaned(d)
                             /\ c \in Named(review[d].pid)
    BY <2>2, WhoRemoves
  <2>4. Lives(d) /\ review[c].pid = review[d].pid
    BY <2>3 DEF PreRun, TimesOut, Cleaned, Fails, AtStep, Lives, Named
  <2>5. d = c
    BY <2>1, <2>2, <2>4 DEF Apart
  <2>6. PICK to \in {"run", "clean", "over"} :
           review' = [review EXCEPT ![c].pc = to]
    BY <2>3, <2>5 DEF PreRun, TimesOut, Cleaned, Fails, AtStep
  <2>7. review'[c].pc = to
    BY <2>1, <2>6 DEF Children
  <2> QED BY <2>7
<1> QED
  BY <1>1, <1>2, ReviewInvariant, PTL DEF ReviewSpec, ReviewsApart

(* The verdict shown is about the code that is there, unless the PR moved  *)
(* between the review's two reads, and is superseded by its like alone.    *)
THEOREM VerdictsKeepStanding == ReviewSpec => VerdictsStand
<1>1. ReviewInv => \A e \in Shown : e.raced \/ e.read.head = e.key.head
  BY DEF ReviewInv, ReadRight, Shown
<1> DEFINE Heir(e, f) == /\ f.kind = e.kind /\ f.key.head = e.key.head
                         /\ e.kind = "pr" => f.key = e.key
           Kept == \A e \in ledger : \E f \in ledger' : Heir(e, f)
<1>2. [ReviewNext]_reviewVars => Kept
  <2> SUFFICES ASSUME [ReviewNext]_reviewVars PROVE Kept
    OBVIOUS
  <2>1. ledger' = ledger \/ \E entry : ledger' = Filed(entry)
    BY DEF ReviewNext, reviewVars, AgentPushes, ForkReturns, ReviewStarts,
           NetLocked, NetSweeps, NetDone, ReviewDies, Resolved, Fetched,
           FetchFails, PreRun, Runs, Routed, LetGo, RunFails, GateOpens, Exits,
           Waited, TimesOut, Recorded, Unusable, Cleaned, ReviewKilled, Fails
  <2>2. ASSUME NEW entry, ledger' = Filed(entry) PROVE Kept
    BY <2>2, Supersedes
  <2>3. CASE ledger' = ledger
    BY <2>3
  <2> QED BY <2>1, <2>2, <2>3
<1> QED
  BY <1>1, <1>2, ReviewInvariant, PTL DEF ReviewSpec, VerdictsStand

-----------------------------------------------------------------------------
(* Watching                                                                *)

Words   == {"comment", "review"}
Threads == [open : BOOLEAN, last : {"human", "agent"}, review : BOOLEAN]
Ears    == [unheard : SUBSET Words, over : SUBSET Words, now : BOOLEAN]

WatchTyped ==
    /\ thread \in [Items -> Threads]
    /\ ear \in [Items -> Ears]
    /\ watch = [pc |-> watch.pc, todo |-> watch.todo, item |-> watch.item]
    /\ watch.todo \subseteq Items

(* Whatever claude has yet to be given shows in the thread: by who spoke   *)
(* last, or by a review that is newer.                                     *)
Shows ==
    \A i \in Items :
        /\ "comment" \in ear[i].unheard \ ear[i].over => thread[i].last = "human"
        /\ "review" \in ear[i].unheard \ ear[i].over => thread[i].review
        /\ i \notin Pulls => "review" \notin ear[i].unheard

(* What a pass has left behind was not pending, or is excused; the second  *)
(* pass is taken only if the first has left everything behind.             *)
LeftBehind ==
    /\ watch.pc = "talk" =>
          \A i \in Items \ watch.todo : Heard(i) \/ thread[i].last = "agent"
    /\ watch.pc = "review" =>
          /\ \A i \in Items : Heard(i) \/ thread[i].last = "agent"
          /\ \A i \in Items \ watch.todo :
                Heard(i) \/ i \notin Pulls \/ ~thread[i].review

WatchInv == WatchTyped /\ Shows /\ LeftBehind

(* What somebody says on one item, or claude is given of it, leaves the    *)
(* others as they are.                                                     *)
LEMMA PersonHeard ==
    ASSUME WatchInv, NEW i \in Items, NEW what \in Words, PersonSays(i, what),
           what = "review" => i \in Pulls
    PROVE  WatchInv'
<1>0. WatchTyped /\ Shows /\ LeftBehind
  BY DEF WatchInv
<1>1. thread[i] \in Threads /\ ear[i] \in Ears
  BY <1>0 DEF WatchTyped
<1> DEFINE new == IF what = "comment" THEN [thread[i] EXCEPT !.last = "human"]
                                      ELSE [thread[i] EXCEPT !.review = TRUE]
           ears == [ear[i] EXCEPT !.unheard = @ \cup {what}, !.now = TRUE,
                                  !.over = @ \ {what}]
<1>2. /\ new \in Threads
      /\ what = "comment" => new.last = "human" /\ new.review = thread[i].review
      /\ what = "review" => new.review /\ new.last = thread[i].last
  BY <1>1 DEF Threads, Words
<1>3. /\ ears \in Ears /\ ears.now /\ ears.unheard = ear[i].unheard \cup {what}
      /\ ears.over = ear[i].over \ {what}
  BY <1>1 DEF Ears, Words
<1>4. /\ thread' = [thread EXCEPT ![i] = new] /\ ear' = [ear EXCEPT ![i] = ears]
      /\ UNCHANGED <<fails, watch>>
  BY <1>0 DEF PersonSays, WatchTyped
<1> HIDE DEF new, ears
<1>5. /\ thread' \in [Items -> Threads] /\ thread'[i] = new
      /\ ear' \in [Items -> Ears] /\ ear'[i] = ears
      /\ \A j \in Items \ {i} : thread'[j] = thread[j] /\ ear'[j] = ear[j]
  BY <1>0, <1>2, <1>3, <1>4 DEF WatchTyped
<1>6. WatchTyped'
  BY <1>0, <1>4, <1>5 DEF WatchTyped
<1>7. Shows'
  <2>1. ASSUME NEW j \in Items
        PROVE  /\ "comment" \in ear'[j].unheard \ ear'[j].over
                     => thread'[j].last = "human"
               /\ "review" \in ear'[j].unheard \ ear'[j].over
                     => thread'[j].review
               /\ j \notin Pulls => "review" \notin ear'[j].unheard
    <3>1. CASE j # i
      BY <1>0, <1>5, <3>1 DEF Shows
    <3>2. CASE j = i /\ what = "comment"
      BY <1>0, <1>2, <1>3, <1>5, <3>2 DEF Shows
    <3>3. CASE j = i /\ what = "review"
      BY <1>0, <1>2, <1>3, <1>5, <3>3 DEF Shows
    <3> QED BY <3>1, <3>2, <3>3 DEF Words
  <2> QED BY <2>1 DEF Shows
<1>8. LeftBehind'
  <2>1. Heard(i)' /\ \A j \in Items \ {i} : Heard(j)' <=> Heard(j)
    BY <1>3, <1>4, <1>5 DEF Heard, GivenUp
  <2> QED BY <1>0, <1>4, <1>5, <2>1 DEF LeftBehind, WatchTyped
<1> QED BY <1>6, <1>7, <1>8 DEF WatchInv

LEMMA ClaudeGiven ==
    ASSUME WatchInv, NEW i, NEW given, Invokes(i, given),
           UNCHANGED <<thread, fails>>
    PROVE  WatchInv'
<1>0. WatchTyped /\ Shows
  BY DEF WatchInv
<1>1. /\ watch' = [pc |-> "run", todo |-> {}, item |-> i]
      /\ thread' = thread
  BY DEF Invokes
<1>2. /\ ear' \in [Items -> Ears]
      /\ \A j \in Items : /\ ear'[j].unheard \subseteq ear[j].unheard
                          /\ ear'[j].unheard \ ear'[j].over
                                \subseteq ear[j].unheard \ ear[j].over
  <2> DEFINE ears == [ear[i] EXCEPT !.unheard = @ \ given, !.over = @ \ given]
  <2>1. ear' = [ear EXCEPT ![i] = ears]
    BY <1>0 DEF Invokes, WatchTyped
  <2>2. ASSUME i \in Items
        PROVE  /\ ears \in Ears /\ ears.unheard = ear[i].unheard \ given
               /\ ears.over = ear[i].over \ given
    <3>1. ear[i] \in Ears
      BY <1>0, <2>2 DEF WatchTyped
    <3> QED BY <3>1 DEF Ears
  <2> HIDE DEF ears
  <2> QED BY <1>0, <2>1, <2>2 DEF WatchTyped
<1>3. WatchTyped'
  BY <1>0, <1>1, <1>2 DEF WatchTyped
<1>4. Shows'
  BY <1>0, <1>1, <1>2 DEF Shows
<1>5. LeftBehind'
  BY <1>1 DEF LeftBehind
<1> QED BY <1>3, <1>4, <1>5 DEF WatchInv

(* The invariant holds in every state.                                     *)
THEOREM WatchInvariant == WatchSpec => []WatchInv
<1>1. WatchInit => WatchInv
  <2> SUFFICES ASSUME WatchInit PROVE WatchInv
    OBVIOUS
  <2>1. Silent \in Threads /\ [unheard |-> {}, over |-> {}, now |-> FALSE] \in Ears
    BY DEF Silent, Threads, Ears
  <2>2. WatchTyped
    BY <2>1 DEF WatchInit, WatchTyped, Off
  <2>3. Shows /\ LeftBehind
    BY DEF WatchInit, Shows, LeftBehind, Off
  <2> QED BY <2>2, <2>3 DEF WatchInv
<1>2. WatchInv /\ [WatchNext]_watchVars => WatchInv'
  <2> SUFFICES ASSUME WatchInv, [WatchNext]_watchVars PROVE WatchInv'
    OBVIOUS
  <2>0. WatchTyped /\ Shows /\ LeftBehind
    BY DEF WatchInv
  <2>1. ASSUME NEW i \in Items, PersonSays(i, "comment") PROVE WatchInv'
    BY <2>1, PersonHeard DEF Words
  <2>2. ASSUME NEW i \in Pulls, PersonSays(i, "review") PROVE WatchInv'
    BY <2>2, PersonHeard, WatchAssumption DEF Words
  <2>3. ASSUME NEW i \in Items, Toggles(i) PROVE WatchInv'
    <3> DEFINE new == [thread[i] EXCEPT !.open = ~@]
               ears == [ear[i] EXCEPT !.now = TRUE]
    <3>1. thread[i] \in Threads /\ ear[i] \in Ears
      BY <2>0 DEF WatchTyped
    <3>2. /\ new \in Threads /\ new.last = thread[i].last
          /\ new.review = thread[i].review
      <4>1. (~thread[i].open) \in BOOLEAN
        OBVIOUS
      <4> QED BY <3>1, <4>1 DEF Threads
    <3>3. /\ ears \in Ears /\ ears.now /\ ears.unheard = ear[i].unheard
          /\ ears.over = ear[i].over
      BY <3>1 DEF Ears
    <3>4. /\ thread' = [thread EXCEPT ![i] = new]
          /\ ear' = [ear EXCEPT ![i] = ears] /\ UNCHANGED <<fails, watch>>
      BY <2>0, <2>3 DEF Toggles, WatchTyped
    <3> HIDE DEF new, ears
    <3>5. /\ thread' \in [Items -> Threads] /\ thread'[i] = new
          /\ ear' \in [Items -> Ears] /\ ear'[i] = ears
          /\ \A j \in Items \ {i} : thread'[j] = thread[j] /\ ear'[j] = ear[j]
      BY <2>0, <3>2, <3>3, <3>4 DEF WatchTyped
    <3>6. WatchTyped'
      BY <2>0, <3>4, <3>5 DEF WatchTyped
    <3>7. Shows'
      BY <2>0, <3>2, <3>3, <3>5 DEF Shows
    <3>8. LeftBehind'
      <4>1. Heard(i)' /\ \A j \in Items \ {i} : Heard(j)' <=> Heard(j)
        BY <3>3, <3>4, <3>5 DEF Heard, GivenUp
      <4> QED BY <2>0, <3>4, <3>5, <4>1 DEF LeftBehind, WatchTyped
    <3> QED BY <3>6, <3>7, <3>8 DEF WatchInv
  <2>4. ASSUME WatchStarts \/ Idles \/ WatchEnds \/ AgentCloses \/ RunEnds
        PROVE  WatchInv'
    <3>1. /\ ear' = ear /\ watch'.pc \notin {"talk", "review"}
          /\ WatchTyped'
          /\ \A i \in Items : /\ thread'[i].last = thread[i].last
                              /\ thread'[i].review = thread[i].review
      <4>1. CASE WatchStarts \/ Idles \/ WatchEnds \/ RunEnds
        <5>1. UNCHANGED <<thread, ear>>
          BY <4>1 DEF WatchStarts, Idles, WatchEnds, RunEnds
        <5>2. PICK pc, set, item :
                 /\ pc \notin {"talk", "review"} /\ set \in {watch.todo, {}}
                 /\ watch' = [pc |-> pc, todo |-> set, item |-> item]
          <6>1. CASE WatchStarts \/ Idles
            BY <2>0, <6>1 DEF WatchStarts, Idles, WatchTyped
          <6>2. CASE WatchEnds
            BY <6>2 DEF WatchEnds, Off
          <6>3. CASE RunEnds
            BY <2>0, <6>3 DEF RunEnds, WatchTyped
          <6> QED BY <4>1, <6>1, <6>2, <6>3
        <5> QED BY <2>0, <5>1, <5>2 DEF WatchTyped
      <4>2. CASE AgentCloses
        <5> DEFINE new == [thread[watch.item] EXCEPT !.open = FALSE]
        <5>1. thread' = [thread EXCEPT ![watch.item] = new]
          BY <2>0, <4>2 DEF AgentCloses, WatchTyped
        <5>2. watch.item \in Items => /\ new \in Threads
                                      /\ new.last = thread[watch.item].last
                                      /\ new.review = thread[watch.item].review
          BY <2>0 DEF Threads, WatchTyped
        <5> HIDE DEF new
        <5> QED BY <2>0, <4>2, <5>1, <5>2 DEF AgentCloses, WatchTyped
      <4> QED BY <2>4, <4>1, <4>2
    <3>2. Shows'
      BY <2>0, <3>1 DEF Shows
    <3>3. LeftBehind'
      BY <3>1 DEF LeftBehind
    <3> QED BY <3>1, <3>2, <3>3 DEF WatchInv
  <2>5. CASE Lists
    <3>1. /\ UNCHANGED <<thread, fails>>
          /\ watch' = [pc |-> "talk", todo |-> Open, item |-> 0]
          /\ ear' = [i \in Items |-> [ear[i] EXCEPT !.now = FALSE]]
      BY <2>5 DEF Lists
    <3>2. \A i \in Items : /\ [ear[i] EXCEPT !.now = FALSE] \in Ears
                           /\ [ear[i] EXCEPT !.now = FALSE].unheard = ear[i].unheard
                           /\ [ear[i] EXCEPT !.now = FALSE].over = ear[i].over
      BY <2>0 DEF WatchTyped, Ears
    <3>3. /\ ear' \in [Items -> Ears]
          /\ \A i \in Items : /\ ear'[i].unheard = ear[i].unheard
                              /\ ear'[i].over = ear[i].over
      BY <3>1, <3>2
    <3>4. WatchTyped'
      BY <2>0, <3>1, <3>3 DEF WatchTyped, Open
    <3>5. Shows'
      BY <2>0, <3>1, <3>3 DEF Shows
    <3>6. LeftBehind'
      <4>1. \A i \in Items \ watch'.todo : ~thread'[i].open
        BY <3>1 DEF Open
      <4> QED BY <3>1, <4>1 DEF LeftBehind, Heard
    <3> QED BY <3>4, <3>5, <3>6 DEF WatchInv
  <2>6. CASE LooksAtTalk
    <3>1. UNCHANGED <<thread, fails>>
      BY <2>6 DEF LooksAtTalk
    <3>2. CASE Invokes(Next1, {"comment"})
      BY <3>1, <3>2, ClaudeGiven
    <3>3. CASE /\ Passes(Next1)
               /\ thread[Next1].last = "agent" \/ GivenUp(Next1)
      <4>1. /\ watch.pc = "talk" /\ watch'.pc = "talk" /\ ear' = ear
            /\ watch'.todo = watch.todo \ {Next1}
            /\ watch' = [pc |-> "talk", todo |-> watch'.todo, item |-> watch'.item]
        BY <2>0, <2>6, <3>3 DEF LooksAtTalk, Passes, WatchTyped
      <4>2. WatchTyped' /\ Shows'
        BY <2>0, <3>1, <4>1 DEF WatchTyped, Shows
      <4>3. \A i \in Items : Heard(i)' <=> Heard(i)
        BY <3>1, <4>1 DEF Heard, GivenUp
      <4>4. thread[Next1].last = "agent" \/ Heard(Next1)
        BY <3>3 DEF Heard
      <4>5. LeftBehind'
        BY <2>0, <3>1, <4>1, <4>3, <4>4 DEF LeftBehind
      <4> QED BY <4>2, <4>5 DEF WatchInv
    <3> QED BY <2>6, <3>2, <3>3 DEF LooksAtTalk
  <2>7. CASE ListsPulls
    <3>1. /\ UNCHANGED <<thread, fails, ear>> /\ watch.pc = "talk"
          /\ watch.todo = {}
          /\ watch' = [pc |-> "review", todo |-> Open \cap Pulls, item |-> 0]
      BY <2>7 DEF ListsPulls
    <3>2. WatchTyped' /\ Shows'
      BY <2>0, <3>1 DEF WatchTyped, Shows, Open
    <3>3. \A i \in Items : Heard(i)' <=> Heard(i)
      BY <3>1 DEF Heard, GivenUp
    <3>4. \A i \in Items \ watch'.todo : Heard(i) \/ i \notin Pulls
      BY <3>1 DEF Open, Heard
    <3>5. LeftBehind'
      BY <2>0, <3>1, <3>3, <3>4 DEF LeftBehind
    <3> QED BY <3>2, <3>5 DEF WatchInv
  <2>8. CASE LooksAtReviews
    <3>1. UNCHANGED <<thread, fails>>
      BY <2>8 DEF LooksAtReviews
    <3>2. CASE Invokes(Next1, {"comment", "review"})
      BY <3>1, <3>2, ClaudeGiven
    <3>3. CASE Passes(Next1) /\ (GivenUp(Next1) \/ ~Reviewed(Next1))
      <4>1. /\ watch.pc = "review" /\ watch'.pc = "review" /\ ear' = ear
            /\ watch'.todo = watch.todo \ {Next1}
            /\ watch' = [pc |-> "review", todo |-> watch'.todo,
                         item |-> watch'.item]
        BY <2>0, <2>8, <3>3 DEF LooksAtReviews, Passes, WatchTyped
      <4>2. WatchTyped' /\ Shows'
        BY <2>0, <3>1, <4>1 DEF WatchTyped, Shows
      <4>3. \A i \in Items : Heard(i)' <=> Heard(i)
        BY <3>1, <4>1 DEF Heard, GivenUp
      <4>4. ~thread[Next1].review \/ Heard(Next1)
        BY <3>3 DEF Heard, Reviewed
      <4>5. LeftBehind'
        BY <2>0, <3>1, <4>1, <4>3, <4>4 DEF LeftBehind
      <4> QED BY <4>2, <4>5 DEF WatchInv
    <3> QED BY <2>8, <3>2, <3>3 DEF LooksAtReviews
  <2>9. CASE AgentSays
    <3> DEFINE i == watch.item
               new == [thread[i] EXCEPT !.last = "agent", !.review = FALSE]
               ears == [ear[i] EXCEPT !.over = ear[i].unheard]
    <3>1. /\ thread' = [thread EXCEPT ![i] = new]
          /\ ear' = [ear EXCEPT ![i] = ears]
          /\ watch.pc = "run" /\ UNCHANGED watch
      BY <2>0, <2>9 DEF AgentSays, WatchTyped
    <3>2. i \in Items => new \in Threads
      BY <2>0 DEF WatchTyped, Threads
    <3>3. i \in Items => /\ ears \in Ears /\ ears.unheard = ear[i].unheard
                         /\ ears.over = ear[i].unheard
      BY <2>0 DEF WatchTyped, Ears
    <3> HIDE DEF i, new, ears
    <3>4. /\ thread' \in [Items -> Threads] /\ ear' \in [Items -> Ears]
          /\ \A j \in Items \ {i} : thread'[j] = thread[j] /\ ear'[j] = ear[j]
          /\ i \in Items => /\ ear'[i].unheard = ear[i].unheard
                            /\ ear'[i].over = ear[i].unheard
      BY <2>0, <3>1, <3>2, <3>3 DEF WatchTyped
    <3>5. WatchTyped'
      BY <2>0, <3>1, <3>4 DEF WatchTyped
    <3>6. Shows'
      BY <2>0, <3>4 DEF Shows
    <3>7. LeftBehind'
      BY <3>1 DEF LeftBehind
    <3> QED BY <3>5, <3>6, <3>7 DEF WatchInv
  <2>10. CASE UNCHANGED watchVars
    BY <2>0, <2>10 DEF watchVars, WatchInv, WatchTyped, Shows, LeftBehind,
                       Heard, GivenUp
  <2> QED
    BY <2>1, <2>2, <2>3, <2>4, <2>5, <2>6, <2>7, <2>8, <2>9, <2>10
       DEF WatchNext
<1> QED BY <1>1, <1>2, PTL DEF WatchSpec

(* When the watcher goes to sleep nothing is pending that it could have    *)
(* known of: for any number of items and retries, whatever people say.     *)
THEOREM PeopleAreHeard == WatchSpec => PeopleHeard
<1> DEFINE Told == Idles => \A i \in Items :
                     Heard(i) \/ ear[i].unheard \subseteq ear[i].over
<1>1. WatchInv => Told
  <2> SUFFICES ASSUME WatchInv, Idles, NEW i \in Items, ~Heard(i)
               PROVE  ear[i].unheard \subseteq ear[i].over
    OBVIOUS
  <2>1. /\ ear[i].unheard \subseteq Words /\ thread[i].last = "agent"
        /\ i \notin Pulls \/ ~thread[i].review
    BY DEF WatchInv, WatchTyped, LeftBehind, Idles, Ears
  <2>2. "comment" \notin ear[i].unheard \ ear[i].over
    BY <2>1 DEF WatchInv, Shows
  <2>3. "review" \notin ear[i].unheard \ ear[i].over
    BY <2>1 DEF WatchInv, Shows
  <2> QED BY <2>1, <2>2, <2>3 DEF Words
<1>2. WatchInv => [Told]_watchVars
  BY <1>1
<1> QED
  BY <1>2, WatchInvariant, PTL DEF WatchSpec, PeopleHeard

-----------------------------------------------------------------------------
(* Fetching                                                                *)

(* A message is owed as long as rs-fetch has something to stage, before it *)
(* is written there is something staged, and only --auto-commit walks.     *)
FetchInv ==
    /\ tool = [pc |-> tool.pc, target |-> tool.target, todo |-> tool.todo,
               auto |-> tool.auto, said |-> tool.said, warned |-> tool.warned]
    /\ clone = [head |-> clone.head, index |-> clone.index, ids |-> clone.ids,
                message |-> clone.message]
    /\ tool.pc \in {"apply", "quote", "stuck", "commit"} => tool.todo # {}
    /\ tool.pc \in {"quote", "stuck", "commit"} => Dirty
    /\ tool.pc \in {"apply", "quote"} => ~tool.auto
    /\ tool.pc \in {"walk", "stuck", "commit"} => tool.auto

THEOREM FetchInvariant == FetchSpec => []FetchInv
<1>1. FetchInit => FetchInv
  BY DEF FetchInit, FetchInv, Resting
<1>2. FetchInv /\ [FetchNext]_fetchVars => FetchInv'
  <2> SUFFICES ASSUME FetchInv, [FetchNext]_fetchVars PROVE FetchInv'
    OBVIOUS
  <2>1. ASSUME NEW target \in Commits, NEW auto \in BOOLEAN,
               FetchStarts(target, auto)
        PROVE  FetchInv'
    BY <2>1 DEF FetchStarts, FetchInv, Dirty
  <2>2. CASE IndexRefused \/ MergesRefused \/ FetchKilled \/ WalkEnds
    BY <2>2 DEF IndexRefused, MergesRefused, FetchKilled, WalkEnds, FetchInv,
                Refuses
  <2>3. CASE NothingNew \/ ApplyFails
    BY <2>3 DEF NothingNew, ApplyFails, FetchInv, Refuses, Unquoted
  <2>4. CASE Guarded
    BY <2>4 DEF Guarded, FetchInv
  <2>5. CASE StageAll
    <3>1. PICK index :
             IF index = clone.head
             THEN /\ Refuses("up to date")
                  /\ Unquoted
             ELSE /\ tool' = [tool EXCEPT !.pc = "quote"]
                  /\ clone' = [clone EXCEPT !.index = index]
      BY <2>5 DEF StageAll
    <3>4. tool.todo # {} /\ ~tool.auto
      BY <2>5 DEF StageAll, FetchInv
    <3>2. CASE index = clone.head
      <4>1. /\ tool' = [tool EXCEPT !.pc = "idle", !.said = "up to date"]
            /\ clone' = [clone EXCEPT !.message = NoMessage]
        BY <3>1, <3>2 DEF Refuses, Unquoted
      <4> QED BY <4>1 DEF FetchInv
    <3>3. CASE index # clone.head
      <4>1. /\ tool' = [tool EXCEPT !.pc = "quote"]
            /\ clone' = [clone EXCEPT !.index = index]
        BY <3>1, <3>3
      <4>2. clone'.index = index /\ clone'.head = clone.head
        BY <4>1 DEF FetchInv
      <4> QED BY <3>3, <3>4, <4>1, <4>2 DEF FetchInv, Dirty
    <3> QED BY <3>2, <3>3
  <2>6. CASE Quote \/ WalkStuck \/ WalkCannotCommit
    <3>1. \E said, commits : Quotes(said, commits)
      BY <2>6 DEF Quote, WalkStuck, WalkCannotCommit
    <3>2. \E message : clone' = [clone EXCEPT !.message = message]
      BY <3>1 DEF Quotes
    <3>3. PICK said :
             \/ Refuses(said)
             \/ tool' = [tool EXCEPT !.pc = "idle", !.said = said,
                                     !.warned = TRUE]
      BY <3>1 DEF Quotes
    <3>4. CASE Refuses(said)
      BY <3>2, <3>4 DEF FetchInv, Refuses
    <3>5. CASE tool' = [tool EXCEPT !.pc = "idle", !.said = said,
                                    !.warned = TRUE]
      BY <3>2, <3>5 DEF FetchInv
    <3> QED BY <3>3, <3>4, <3>5
  <2>7. CASE WalkApplies
    <3>1. PICK index :
             IF index = clone.head
             THEN /\ tool' = [tool EXCEPT !.todo = @ \ {Step}]
                  /\ UNCHANGED clone
             ELSE /\ tool' = [tool EXCEPT !.pc =
                       IF Conflicted(index) THEN "stuck" ELSE "commit"]
                  /\ clone' = [clone EXCEPT !.index = index]
      BY <2>7 DEF WalkApplies
    <3> QED BY <2>7, <3>1 DEF WalkApplies, FetchInv, Dirty
  <2>8. CASE WalkCommits
    BY <2>8 DEF WalkCommits, FetchInv, Landed
  <2>9. ASSUME \/ HumanCommits \/ HumanUnstages
               \/ \E f \in Paths : HumanEdits(f) \/ HumanResolves(f)
                                     \/ HumanDeclines(f) \/ HumanReverts(f)
        PROVE  FetchInv'
    <3>1. tool.pc = "idle" /\ tool' = tool
      BY <2>9 DEF HumanCommits, HumanUnstages, HumanEdits, HumanResolves,
                  HumanDeclines, HumanReverts, AtHand
    <3> DEFINE Whole == clone' = [head |-> clone'.head, index |-> clone'.index,
                                  ids |-> clone'.ids,
                                  message |-> clone'.message]
    <3>2. Whole
      <4>1. CASE HumanCommits \/ \E f \in Paths : HumanEdits(f)
        BY <4>1 DEF HumanCommits, HumanEdits, Landed
      <4>2. CASE HumanUnstages
        BY <4>2 DEF HumanUnstages, FetchInv
      <4>3. ASSUME NEW f \in Paths, HumanResolves(f) PROVE  Whole
        <5>1. PICK index : clone' = [clone EXCEPT !.index = index]
          BY <4>3 DEF HumanResolves, FetchInv
        <5> QED BY <5>1 DEF FetchInv
      <4>4. ASSUME NEW f \in Paths, HumanDeclines(f) PROVE  Whole
        <5>1. PICK index : clone' = [clone EXCEPT !.index = index]
          BY <4>4 DEF HumanDeclines, FetchInv
        <5> QED BY <5>1 DEF FetchInv
      <4>5. ASSUME NEW f \in Paths, HumanReverts(f) PROVE  Whole
        BY <4>5 DEF HumanReverts, FetchInv
      <4> QED BY <2>9, <4>1, <4>2, <4>3, <4>4, <4>5
    <3> QED BY <3>1, <3>2 DEF FetchInv
  <2>10. CASE UNCHANGED fetchVars
    BY <2>10 DEF fetchVars, FetchInv, Dirty
  <2> QED
    BY <2>1, <2>2, <2>3, <2>4, <2>5, <2>6, <2>7, <2>8, <2>9, <2>10
       DEF FetchNext
<1> QED BY <1>1, <1>2, PTL DEF FetchSpec

(* Whoever opens an editor after rs-fetch finds the message of what it     *)
(* staged, if it has not said that it could not write it, and none when    *)
(* it staged nothing: for every branch.                                    *)
THEOREM PrefillAlwaysFits == FetchSpec => PrefillFits
<1> DEFINE Fits ==
      /\ Ends({"staged", "conflict"}) =>
            Dirty /\ (clone'.message = Quoted \/ tool'.warned)
      /\ Ends({"up to date", "failed"}) => clone'.message = NoMessage
<1>1. FetchInv /\ [FetchNext]_fetchVars => [Fits]_fetchVars
  <2> SUFFICES ASSUME FetchInv, FetchNext, tool.pc # "idle", tool'.pc = "idle"
               PROVE  Fits
    BY DEF Ends, fetchVars
  <2> USE DEF Ends, NoMessage
  <2>1. CASE IndexRefused \/ MergesRefused \/ FetchKilled \/ WalkEnds
    BY <2>1 DEF IndexRefused, MergesRefused, FetchKilled, WalkEnds, FetchInv,
                Refuses
  <2>2. CASE NothingNew \/ ApplyFails
    BY <2>2 DEF NothingNew, ApplyFails, FetchInv, Refuses, Unquoted
  <2>3. CASE StageAll
    BY <2>3 DEF StageAll, FetchInv, Refuses, Unquoted
  <2>4. ASSUME NEW said \in {"conflict", "staged"}, NEW commits,
               Quotes(said, commits), commits = Quoted, Dirty
        PROVE  Fits
    BY <2>4 DEF FetchInv, Refuses, Quotes
  <2>7. CASE Quote \/ WalkStuck \/ WalkCannotCommit
    BY <2>4, <2>7 DEF Quote, WalkStuck, WalkCannotCommit, FetchInv, Quoted
  <2>5. ASSUME \/ \E target \in Commits, auto \in BOOLEAN :
                      FetchStarts(target, auto)
               \/ Guarded \/ WalkApplies \/ WalkCommits
        PROVE  FALSE
    BY <2>5 DEF FetchStarts, Guarded, WalkApplies, WalkCommits, FetchInv
  <2>6. ASSUME \/ HumanCommits \/ HumanUnstages
               \/ \E f \in Paths : HumanEdits(f) \/ HumanResolves(f)
                                     \/ HumanDeclines(f) \/ HumanReverts(f)
        PROVE  FALSE
    BY <2>6 DEF HumanCommits, HumanUnstages, HumanEdits, HumanResolves,
                HumanDeclines, HumanReverts, AtHand
  <2> QED BY <2>1, <2>2, <2>3, <2>5, <2>6, <2>7 DEF FetchNext
<1> QED
  BY <1>1, FetchInvariant, PTL DEF FetchSpec, PrefillFits

(* Files, the target and what is left of it.                               *)
Plain == [ver : Nat, own : {"no", "mixed"}]
Texts == [ver : Nat, own : {"no", "mixed", "conflict"}]

FetchTyped ==
    /\ branch \in Branches
    /\ tool.target \in 0..Len(branch) /\ tool.todo \subseteq 1..tool.target
    /\ clone.head \in [Paths -> Plain] /\ clone.index \in [Paths -> Texts]
    /\ clone.ids \subseteq Commits

(* HEAD has the content of a commit.                                       *)
HeadHas(i) == clone.head[branch[i].file].ver >= i

(* Nothing staged takes a file back, and a commit that HEAD has by         *)
(* patch-id it has by content.                                             *)
Forward ==
    /\ \A f \in Paths : clone.index[f].own # "conflict"
                           => clone.index[f].ver >= clone.head[f].ver
    /\ \A i \in clone.ids : HeadHas(i)

(* What a fetch no longer has to do is done, but for merges; what it       *)
(* stages is all there is, unless it passed a merge.                       *)
Covered ==
    /\ tool.pc \in {"guards", "apply", "walk", "stuck", "commit"} =>
          \A i \in 1..tool.target :
             i \in tool.todo \/ branch[i].merge \/ HeadHas(i)
    /\ tool.pc = "quote" => Holds(clone.index) \/ MergePassed

(* A walk was asked for, meets no merge, and commits no conflict and its   *)
(* step as a whole.                                                        *)
Walking ==
    /\ tool.pc \in {"apply", "walk"} => ~Dirty
    /\ tool.pc \in {"walk", "stuck", "commit"} =>
          tool.auto /\ \A i \in 1..tool.target : ~branch[i].merge
    /\ tool.pc = "commit" => /\ clone.index \in [Paths -> Plain]
                             /\ clone.index[branch[Step].file].ver >= Step

ContentInv == /\ FetchTyped /\ Walking
              /\ ~strayed => Forward /\ Covered
(* A set of natural numbers that is not empty has a least element ...      *)
LEMMA NatMin ==
    ASSUME NEW S \in SUBSET Nat, S # {}
    PROVE  \E x \in S : \A y \in S : x <= y
<1> DEFINE R == {ss \in Nat \X Nat : ss[1] < ss[2]}
<1>1. IsWellFoundedOn(R, Nat)
  BY NatLessThanWellFounded DEF OpToRel
<1> HIDE DEF R
<1>2. PICK x \in S : \A y \in S : <<y, x>> \notin R
  BY <1>1, WFMin
<1>3. \A y \in S : y \in Nat /\ x \in Nat /\ ~(y < x)
  BY <1>2 DEF R
<1> QED BY <1>3

(* ... and, if it is bounded, a greatest one, which Max returns.           *)
LEMMA MaxIs ==
    ASSUME NEW b \in Nat, NEW S \in SUBSET (0..b), S # {}
    PROVE  Max(S) \in S /\ \A y \in S : y <= Max(S)
<1> DEFINE Below == {b - y : y \in S}
<1>1. PICK d \in Below : \A e \in Below : d <= e
  <2>1. Below \in SUBSET Nat /\ Below # {}
    <3>1. \A y \in S : y \in Nat /\ y <= b /\ b - y \in Nat
      OBVIOUS
    <3> QED BY <3>1
  <2> QED BY <2>1, NatMin
<1>2. PICK x \in S : d = b - x
  BY <1>1
<1>3. \A y \in S : x >= y
  BY <1>1, <1>2
<1>4. Max(S) \in S /\ \A y \in S : Max(S) >= y
  BY <1>3 DEF Max
<1> QED BY <1>4

(* A file as of a commit of the branch: as of the last one that is in it.  *)
LEMMA VersionIs ==
    ASSUME NEW f, NEW n \in Nat
    PROVE  /\ Version(f, n) \in 0..n
           /\ \A i \in 1..n : branch[i].file = f => i <= Version(f, n)
           /\ Version(f, n) # 0 => /\ Version(f, n) \in 1..n
                                   /\ branch[Version(f, n)].file = f
<1> DEFINE S == {0} \cup {i \in 1..n : branch[i].file = f}
<1>1. S \in SUBSET (0..n) /\ S # {}
  OBVIOUS
<1>2. Max(S) \in S /\ \A y \in S : y <= Max(S)
  BY <1>1, MaxIs
<1>3. Version(f, n) = Max(S)
  BY DEF Version
<1> HIDE DEF S
<1>4. Version(f, n) \in S /\ \A y \in S : y <= Version(f, n)
  BY <1>2, <1>3
<1> QED BY <1>4 DEF S

(* More commits: a file's content is never an earlier one.                 *)
LEMMA VersionGrows ==
    ASSUME NEW f, NEW m \in Nat, NEW n \in Nat, m <= n
    PROVE  Version(f, m) <= Version(f, n)
<1>1. Version(f, n) \in 0..n /\ Version(f, m) \in 0..m
  BY VersionIs
<1>2. CASE Version(f, m) = 0
  BY <1>1, <1>2
<1>3. CASE Version(f, m) # 0
  <2>1. Version(f, m) \in 1..m /\ branch[Version(f, m)].file = f
    BY <1>3, VersionIs
  <2>2. Version(f, m) \in 1..n
    BY <2>1
  <2> QED BY <2>1, <2>2, VersionIs
<1> QED BY <1>2, <1>3

(* The maximum of two numbers is the greater of them.                      *)
LEMMA MaxOfTwo ==
    ASSUME NEW a \in Nat, NEW b \in Nat
    PROVE  /\ Max({a, b}) \in Nat
           /\ Max({a, b}) >= a /\ Max({a, b}) >= b
<1>1. \E x \in {a, b} : \A y \in {a, b} : x >= y
  BY SMT
<1>2. Max({a, b}) \in {a, b} /\ \A y \in {a, b} : Max({a, b}) >= y
  BY <1>1 DEF Max
<1> QED BY <1>2

(* The first of a non-empty set of commits is in it, and before the rest.  *)
LEMMA MinIs ==
    ASSUME NEW S \in SUBSET Nat, S # {}
    PROVE  Min(S) \in S /\ \A y \in S : Min(S) <= y
<1>1. \E x \in S : \A y \in S : x <= y
  BY NatMin
<1> QED BY <1>1 DEF Min

(* What comes of a patch goes back on no file, and without a conflict has  *)
(* all that the patch brings.                                              *)
LEMMA MergedIs ==
    ASSUME NEW ours \in Plain, NEW from \in Nat, NEW to \in Nat, from <= to,
           NEW r \in Merged(ours, from, to)
    PROVE  /\ r \in Texts
           /\ r.own # "conflict" => /\ r \in Plain /\ r.ver >= ours.ver
                                    /\ from # to => r.ver >= to
           /\ from = to => r = ours
<1>1. /\ Max({ours.ver, to}) \in Nat
      /\ Max({ours.ver, to}) >= ours.ver /\ Max({ours.ver, to}) >= to
  BY MaxOfTwo DEF Plain
<1>2. CASE from = to
  BY <1>2 DEF Merged, Plain, Texts
<1>3. CASE from # to /\ ours = [ver |-> to, own |-> "no"]
  BY <1>3 DEF Merged, Plain, Texts
<1>4. CASE from # to /\ ours = [ver |-> from, own |-> "no"]
  <2>1. r = [ver |-> to, own |-> "no"]
    BY <1>4 DEF Merged
  <2> QED BY <1>4, <2>1 DEF Plain, Texts
<1>5. CASE /\ from # to /\ ours # [ver |-> to, own |-> "no"]
           /\ ours # [ver |-> from, own |-> "no"]
  <2>1. \/ r = [ver |-> to, own |-> "conflict"]
        \/ r = [ver |-> Max({ours.ver, to}), own |-> ours.own]
    BY <1>5 DEF Merged
  <2> QED BY <1>1, <1>5, <2>1 DEF Plain, Texts
<1> QED BY <1>2, <1>3, <1>4, <1>5

(* What a patch makes of the index: a file of each path, each as it merges.*)
LEMMA AppliedIs ==
    ASSUME clone.head \in [Paths -> Plain],
           NEW from \in Nat, NEW to \in Nat, from <= to,
           NEW index \in Applied(from, to)
    PROVE  /\ index \in [Paths -> Texts]
           /\ \A f \in Paths :
                 /\ index[f].own # "conflict" =>
                       /\ index[f] \in Plain
                       /\ index[f].ver >= clone.head[f].ver
                       /\ Version(f, from) # Version(f, to) =>
                             index[f].ver >= Version(f, to)
                 /\ Version(f, from) = Version(f, to) =>
                       index[f] = clone.head[f]
<1>1. /\ DOMAIN index = Paths /\ index = [f \in Paths |-> index[f]]
      /\ \A f \in Paths :
            index[f] \in Merged(clone.head[f], Version(f, from),
                                Version(f, to))
  BY DEF Applied
<1>2. ASSUME NEW f \in Paths
      PROVE  /\ Version(f, from) \in Nat /\ Version(f, to) \in Nat
             /\ Version(f, from) <= Version(f, to)
  BY VersionIs, VersionGrows
<1>3. ASSUME NEW f \in Paths
      PROVE  /\ index[f] \in Texts
             /\ index[f].own # "conflict" =>
                       /\ index[f] \in Plain
                       /\ index[f].ver >= clone.head[f].ver
                       /\ Version(f, from) # Version(f, to) =>
                             index[f].ver >= Version(f, to)
             /\ Version(f, from) = Version(f, to) =>
                       index[f] = clone.head[f]
  <2>1. clone.head[f] \in Plain
    OBVIOUS
  <2> QED BY <1>1, <1>2, <2>1, MergedIs
<1> QED BY <1>1, <1>3

(* The commits of a target are commits, and each is in a file.             *)
LEMMA TargetIs ==
    ASSUME FetchTyped
    PROVE  /\ Len(branch) \in Nat /\ Commits = 1..Len(branch)
           /\ \A i \in Commits : branch[i].file \in Paths /\ i \in Nat
           /\ tool.target \in Nat
           /\ \A i \in 1..tool.target : i \in Commits
           /\ tool.todo \subseteq Nat
           /\ tool.todo # {} => /\ Step \in tool.todo
                                /\ \A i \in tool.todo : Step <= i
<1>1. Len(branch) \in Nat /\ Commits = 1..Len(branch)
  BY FetchAssumption DEF FetchTyped, Commits
<1>2. \A i \in Commits : branch[i].file \in Paths
  BY DEF FetchTyped, Commits, Paths
<1>3. tool.todo \in SUBSET Nat
  BY DEF FetchTyped
<1>4. tool.todo # {} => /\ Step \in tool.todo
                        /\ \A i \in tool.todo : Step <= i
  BY <1>3, MinIs DEF Step
<1> QED BY <1>1, <1>2, <1>3, <1>4 DEF FetchTyped

(* A HEAD that has every commit of the target holds the target.            *)
LEMMA HeadHolds ==
    ASSUME FetchTyped, \A i \in 1..tool.target : HeadHas(i)
    PROVE  Holds(clone.head)
<1> SUFFICES ASSUME NEW f \in Paths
             PROVE  clone.head[f].ver >= Version(f, tool.target)
  BY DEF Holds
<1>1. tool.target \in Nat /\ clone.head[f].ver \in Nat
  BY DEF FetchTyped, Plain
<1> QED BY <1>1, VersionIs DEF HeadHas

(* What becomes HEAD goes back on no file, and what enters by patch-id     *)
(* enters by content.                                                      *)
LEMMA LandedKeeps ==
    ASSUME FetchTyped, NEW index \in [Paths -> Plain]
    PROVE  /\ Landed(index).ids \subseteq Commits
           /\ Forward /\ (\A f \in Paths : index[f].ver >= clone.head[f].ver)
                => /\ \A i \in Landed(index).ids :
                         index[branch[i].file].ver >= i
                   /\ \A i \in Commits :
                         HeadHas(i) => index[branch[i].file].ver >= i
<1>1. Landed(index).ids = clone.ids \cup
        {i \in Commits : LET f == branch[i].file
                         IN  /\ clone.head[f].ver = Version(f, i - 1)
                             /\ index = [clone.head EXCEPT ![f].ver = i]}
  BY DEF Landed
<1>2. Landed(index).ids \subseteq Commits
  BY <1>1 DEF FetchTyped
<1>3. ASSUME Forward, \A f \in Paths : index[f].ver >= clone.head[f].ver,
             NEW i \in Commits, HeadHas(i)
      PROVE  index[branch[i].file].ver >= i
  <2>1. branch[i].file \in Paths /\ i \in Nat
    BY TargetIs
  <2>2. /\ clone.head[branch[i].file].ver \in Nat
        /\ index[branch[i].file].ver \in Nat
    BY <2>1 DEF FetchTyped, Plain
  <2> QED BY <1>3, <2>1, <2>2 DEF HeadHas
<1>4. ASSUME Forward, \A f \in Paths : index[f].ver >= clone.head[f].ver,
             NEW i \in Landed(index).ids
      PROVE  index[branch[i].file].ver >= i
  <2>1. CASE i \in clone.ids
    BY <1>3, <1>4, <2>1 DEF Forward, FetchTyped
  <2>2. CASE /\ i \in Commits
             /\ index = [clone.head EXCEPT ![branch[i].file].ver = i]
    <3>1. branch[i].file \in Paths /\ i \in Nat
      BY <2>2, TargetIs
    <3>2. clone.head[branch[i].file] \in Plain
      BY <3>1 DEF FetchTyped
    <3>3. index[branch[i].file].ver = i
      BY <2>2, <3>1, <3>2 DEF FetchTyped, Plain
    <3> QED BY <3>1, <3>3
  <2> QED BY <1>1, <1>4, <2>1, <2>2
<1> QED BY <1>2, <1>3, <1>4

(* The patch from the parent of the first new commit on brings all that    *)
(* HEAD has not, but for merges that lie before it.                        *)
LEMMA StagedHolds ==
    ASSUME FetchTyped, Covered, tool.pc = "apply", tool.todo # {},
           ~MergePassed,
           NEW index \in Applied(Min(tool.todo) - 1, tool.target)
    PROVE  Holds(index)
<1> DEFINE from == Min(tool.todo) - 1
<1> SUFFICES ASSUME NEW f \in Paths, index[f].own # "conflict"
             PROVE  index[f].ver >= Version(f, tool.target)
  BY DEF Holds
<1>1. /\ Step \in tool.todo /\ Step \in 1..tool.target
      /\ tool.target \in Nat
      /\ \A i \in tool.todo : Step <= i
      /\ from = Step - 1
  BY TargetIs DEF FetchTyped, Step
<1>2. from \in Nat /\ from <= tool.target
  BY <1>1
<1> HIDE DEF from
<1>3. /\ Version(f, from) # Version(f, tool.target) =>
            index[f].ver >= Version(f, tool.target)
      /\ Version(f, from) = Version(f, tool.target) =>
            index[f] = clone.head[f]
  BY <1>1, <1>2, AppliedIs DEF from, FetchTyped
<1>4. CASE Version(f, from) # Version(f, tool.target)
  BY <1>3, <1>4
<1>5. CASE Version(f, from) = Version(f, tool.target)
  <2> DEFINE v == Version(f, from)
  <2>1. index[f] = clone.head[f] /\ clone.head[f].ver \in Nat
    BY <1>3, <1>5 DEF FetchTyped, Plain
  <2>2. CASE v = 0
    BY <1>5, <2>1, <2>2
  <2>3. CASE v # 0
    <3>1. v \in 1..from /\ branch[v].file = f
      BY <1>2, <2>3, VersionIs
    <3>2. v \in 1..tool.target /\ \A j \in tool.todo : v < j
      BY <1>1, <1>2, <3>1, TargetIs
    <3>3. v \notin tool.todo /\ ~branch[v].merge
      BY <3>2, TargetIs DEF MergePassed
    <3>4. HeadHas(v)
      BY <3>2, <3>3 DEF Covered
    <3> QED BY <1>5, <2>1, <3>1, <3>4 DEF HeadHas
  <2> QED BY <2>2, <2>3
<1> QED BY <1>4, <1>5

(* What a fetch stages or walks past is all there is, in every state.      *)
THEOREM ContentInvariant == FetchSpec => []ContentInv
<1>1. FetchInit => ContentInv
  <2> SUFFICES ASSUME FetchInit PROVE ContentInv
    OBVIOUS
  <2> DEFINE zero == [f \in Paths |-> [ver |-> 0, own |-> "no"]]
  <2>1. /\ clone.head = zero /\ clone.index = zero /\ clone.ids = {}
        /\ tool.pc = "idle" /\ tool.target = 0 /\ tool.todo = {}
        /\ branch \in Branches
    BY DEF FetchInit, Resting
  <2>2. zero \in [Paths -> Plain] /\ zero \in [Paths -> Texts]
    BY DEF Plain, Texts
  <2>3. Len(branch) \in Nat
    BY <2>1, FetchAssumption
  <2>4. FetchTyped
    BY <2>1, <2>2, <2>3 DEF FetchTyped
  <2> QED BY <2>1, <2>4 DEF ContentInv, Walking, Forward, Covered
<1>2. FetchInv /\ ContentInv /\ [FetchNext]_fetchVars => ContentInv'
  <2> SUFFICES ASSUME FetchInv, ContentInv, [FetchNext]_fetchVars
               PROVE  ContentInv'
    OBVIOUS
  <2>0. FetchTyped /\ Walking
    BY DEF ContentInv
  <2>1. ASSUME NEW target \in Commits, NEW auto \in BOOLEAN,
               FetchStarts(target, auto)
        PROVE  ContentInv'
    <3>1. /\ UNCHANGED <<branch, clone, strayed>>
          /\ tool'.pc = "guards" /\ tool'.target = target
          /\ tool'.todo = New(target)
      BY <2>1 DEF FetchStarts
    <3>2. target \in 0..Len(branch) /\ New(target) \subseteq 1..target
      BY <2>0, TargetIs DEF New
    <3>3. FetchTyped'
      BY <2>0, <3>1, <3>2 DEF FetchTyped, Commits
    <3>4. ~strayed => Forward' /\ Covered'
      BY <3>1 DEF ContentInv, Forward, Covered, HeadHas, New
    <3> QED BY <3>1, <3>3, <3>4 DEF ContentInv, Walking
  <2>2. CASE \/ IndexRefused \/ MergesRefused \/ FetchKilled \/ WalkEnds
             \/ NothingNew \/ ApplyFails \/ Quote \/ WalkStuck
             \/ WalkCannotCommit
    <3>1. /\ UNCHANGED <<branch, strayed>>
          /\ tool'.pc = "idle"
          /\ tool'.todo = tool.todo /\ tool'.target = tool.target
          /\ clone'.head = clone.head /\ clone'.index = clone.index
          /\ clone'.ids = clone.ids
      BY <2>2 DEF IndexRefused, MergesRefused, FetchKilled, WalkEnds,
                  NothingNew, ApplyFails, Quote, WalkStuck, WalkCannotCommit,
                  Refuses, Quotes, Unquoted, FetchInv
    <3>2. FetchTyped'
      BY <2>0, <3>1 DEF FetchTyped, Commits
    <3>3. ~strayed => Forward'
      BY <3>1 DEF ContentInv, Forward, HeadHas
    <3> QED BY <3>1, <3>2, <3>3 DEF ContentInv, Walking, Covered
  <2>3. CASE Guarded
    <3>1. /\ UNCHANGED <<branch, clone, strayed>> /\ ~Dirty
          /\ tool'.pc \in {"walk", "apply"}
          /\ tool'.pc = "walk" =>
                tool.auto /\ \A i \in 1..tool.target : ~branch[i].merge
          /\ tool'.todo = tool.todo /\ tool'.target = tool.target
          /\ tool'.auto = tool.auto /\ tool.pc = "guards"
      BY <2>3 DEF Guarded, FetchInv
    <3>2. FetchTyped'
      BY <2>0, <3>1 DEF FetchTyped, Commits
    <3>3. ~strayed => Forward' /\ Covered'
      BY <3>1 DEF ContentInv, Forward, Covered, HeadHas
    <3>4. Walking'
      BY <3>1 DEF Walking, Dirty
    <3> QED BY <3>1, <3>2, <3>3, <3>4 DEF ContentInv
  <2>4. CASE StageAll
    <3> DEFINE from == Min(tool.todo) - 1
    <3>1. PICK index \in Applied(from, tool.target) :
             IF index = clone.head
             THEN /\ Refuses("up to date")
                  /\ Unquoted
             ELSE /\ tool' = [tool EXCEPT !.pc = "quote"]
                  /\ clone' = [clone EXCEPT !.index = index]
      BY <2>4 DEF StageAll
    <3>2. tool.pc = "apply" /\ tool.todo # {} /\ UNCHANGED <<branch, strayed>>
      BY <2>4 DEF StageAll, FetchInv
    <3>3. /\ Step \in tool.todo /\ Step \in 1..tool.target
          /\ tool.target \in Nat
          /\ \A i \in tool.todo : Step <= i
          /\ from = Step - 1
      BY <2>0, <3>2, TargetIs DEF FetchTyped, Step
    <3>4. from \in Nat /\ from <= tool.target
      BY <3>3
    <3> HIDE DEF from
    <3>5. CASE index = clone.head
      <4>1. /\ tool'.pc = "idle"
            /\ tool'.todo = tool.todo /\ tool'.target = tool.target
            /\ clone'.head = clone.head /\ clone'.index = clone.index
            /\ clone'.ids = clone.ids
        BY <3>1, <3>5 DEF Refuses, Unquoted, FetchInv
      <4>2. FetchTyped'
        BY <2>0, <3>2, <4>1 DEF FetchTyped, Commits
      <4>3. ~strayed => Forward'
        BY <3>2, <4>1 DEF ContentInv, Forward, HeadHas
      <4> QED BY <3>2, <4>1, <4>2, <4>3 DEF ContentInv, Walking, Covered
    <3>6. CASE index # clone.head
      <4>1. /\ tool'.pc = "quote"
            /\ tool'.todo = tool.todo /\ tool'.target = tool.target
            /\ clone'.head = clone.head /\ clone'.index = index
            /\ clone'.ids = clone.ids
        BY <3>1, <3>6 DEF FetchInv
      <4>2. /\ index \in [Paths -> Texts]
            /\ \A f \in Paths : index[f].own # "conflict" =>
                  index[f].ver >= clone.head[f].ver
        BY <2>0, <3>3, <3>4, AppliedIs DEF FetchTyped
      <4>3. FetchTyped'
        BY <2>0, <3>2, <4>1, <4>2 DEF FetchTyped, Commits
      <4>4. ~strayed => Forward'
        BY <3>2, <4>1, <4>2 DEF ContentInv, Forward, HeadHas
      <4>5. ~strayed => Holds(index) \/ MergePassed
        BY <2>0, <3>1, <3>2, StagedHolds DEF ContentInv, from
      <4>6. MergePassed' <=> MergePassed
        BY <3>2, <4>1 DEF MergePassed
      <4>7. ~strayed => Covered'
        BY <3>2, <4>1, <4>5, <4>6 DEF Covered, Holds, Version
      <4> QED BY <3>2, <4>1, <4>3, <4>4, <4>7 DEF ContentInv, Walking
    <3> QED BY <3>5, <3>6
  <2>5. CASE WalkApplies
    <3>1. PICK index \in Applied(Step - 1, Step) :
             IF index = clone.head
             THEN /\ tool' = [tool EXCEPT !.todo = @ \ {Step}]
                  /\ UNCHANGED clone
             ELSE /\ tool' = [tool EXCEPT !.pc =
                       IF Conflicted(index) THEN "stuck" ELSE "commit"]
                  /\ clone' = [clone EXCEPT !.index = index]
      BY <2>5 DEF WalkApplies
    <3>2. tool.pc = "walk" /\ tool.todo # {} /\ UNCHANGED <<branch, strayed>>
      BY <2>5 DEF WalkApplies
    <3>3. /\ Step \in tool.todo /\ Step \in 1..tool.target
          /\ tool.target \in Nat /\ Step \in Nat
          /\ Step - 1 \in Nat /\ Step - 1 <= Step
          /\ branch[Step].file \in Paths
      BY <2>0, <3>2, TargetIs DEF FetchTyped
    <3>4. /\ index \in [Paths -> Texts]
          /\ \A f \in Paths :
                index[f].own # "conflict" =>
                   /\ index[f] \in Plain
                   /\ index[f].ver >= clone.head[f].ver
                   /\ Version(f, Step - 1) # Version(f, Step) =>
                         index[f].ver >= Version(f, Step)
      BY <2>0, <3>3, AppliedIs DEF FetchTyped
    <3>5. index[branch[Step].file].own # "conflict" =>
             index[branch[Step].file].ver >= Step
      <4> DEFINE f == branch[Step].file
      <4>1. Version(f, Step - 1) \in 0..(Step - 1)
        BY <3>3, VersionIs
      <4>2. Version(f, Step) \in 0..Step /\ Step <= Version(f, Step)
        BY <3>3, VersionIs
      <4>3. Version(f, Step) = Step /\ Version(f, Step - 1) # Step
        BY <3>3, <4>1, <4>2
      <4> QED BY <3>3, <3>4, <4>3
    <3>6. CASE index = clone.head
      <4>1. /\ tool'.pc = "walk" /\ UNCHANGED clone
            /\ tool'.todo = tool.todo \ {Step} /\ tool'.target = tool.target
            /\ tool'.auto = tool.auto
        BY <3>1, <3>2, <3>6 DEF FetchInv
      <4>2. FetchTyped'
        BY <2>0, <3>2, <4>1 DEF FetchTyped, Commits
      <4>3. HeadHas(Step)
        BY <2>0, <3>3, <3>5, <3>6 DEF HeadHas, FetchTyped, Plain
      <4>4. ~strayed => Forward' /\ Covered'
        BY <3>2, <4>1, <4>3 DEF ContentInv, Forward, Covered, HeadHas
      <4>5. Walking'
        BY <2>0, <3>2, <4>1 DEF Walking, Dirty
      <4> QED BY <3>2, <4>2, <4>4, <4>5 DEF ContentInv
    <3>7. CASE index # clone.head
      <4>1. /\ tool'.pc = (IF Conflicted(index) THEN "stuck" ELSE "commit")
            /\ tool'.auto = tool.auto
            /\ tool'.todo = tool.todo /\ tool'.target = tool.target
            /\ clone'.head = clone.head /\ clone'.index = index
            /\ clone'.ids = clone.ids
        BY <3>1, <3>7 DEF FetchInv
      <4>2. FetchTyped'
        BY <2>0, <3>2, <3>4, <4>1 DEF FetchTyped, Commits
      <4>3. ~strayed => Forward' /\ Covered'
        BY <3>2, <3>4, <4>1 DEF ContentInv, Forward, Covered, HeadHas
      <4>4. ~Conflicted(index) => /\ index \in [Paths -> Plain]
                                  /\ index[branch[Step].file].ver >= Step
        BY <3>3, <3>4, <3>5 DEF Conflicted
      <4>5. Step' = Step
        BY <4>1 DEF Step
      <4>6. Walking'
        BY <2>0, <3>2, <4>1, <4>4, <4>5 DEF Walking
      <4> QED BY <3>2, <4>2, <4>3, <4>6 DEF ContentInv
    <3> QED BY <3>6, <3>7
  <2>6. CASE WalkCommits
    <3> DEFINE index == clone.index
    <3>1. /\ UNCHANGED <<branch, strayed>> /\ tool.pc = "commit"
          /\ tool'.pc = "walk" /\ tool'.target = tool.target
          /\ tool'.auto = tool.auto
          /\ tool'.todo = tool.todo \ {Step} /\ tool.todo # {}
          /\ clone'.head = index /\ clone'.index = index
          /\ clone'.ids = Landed(index).ids
      BY <2>6 DEF WalkCommits, Landed, FetchInv
    <3>2. index \in [Paths -> Plain] /\ index[branch[Step].file].ver >= Step
      BY <2>0, <3>1 DEF Walking
    <3>3. ~strayed => Forward /\ \A f \in Paths :
                                    index[f].ver >= clone.head[f].ver
      BY <3>2 DEF ContentInv, Forward, Plain
    <3>4. /\ Landed(index).ids \subseteq Commits
          /\ ~strayed => /\ \A i \in Landed(index).ids :
                               index[branch[i].file].ver >= i
                         /\ \A i \in Commits :
                               HeadHas(i) => index[branch[i].file].ver >= i
      BY <2>0, <3>2, <3>3, LandedKeeps
    <3>5. FetchTyped'
      BY <2>0, <3>1, <3>2, <3>4 DEF FetchTyped, Commits, Plain, Texts
    <3>6. ~strayed => Forward'
      <4>1. \A f \in Paths : index[f].ver >= index[f].ver
        BY <3>2 DEF Plain
      <4> QED BY <3>1, <3>4, <4>1 DEF Forward, HeadHas
    <3>7. ~strayed => Covered'
      <4>1. \A i \in 1..tool.target : i \in Commits
        BY <2>0, TargetIs
      <4> QED BY <3>1, <3>2, <3>4, <4>1 DEF ContentInv, Covered, HeadHas
    <3>8. Walking'
      BY <2>0, <3>1 DEF Walking, Dirty
    <3> QED BY <3>1, <3>5, <3>6, <3>7, <3>8 DEF ContentInv
  <2>7. ASSUME NEW index, clone' = Landed(index), index \in [Paths -> Plain],
               AtHand, strayed' = strayed,
               ~strayed => \A f \in Paths : index[f].ver >= clone.head[f].ver
        PROVE  ContentInv'
    <3>1. /\ UNCHANGED <<branch, tool>> /\ tool.pc = "idle"
          /\ clone'.head = index /\ clone'.index = index
          /\ clone'.ids = Landed(index).ids
      BY <2>7 DEF AtHand, Landed
    <3>2. /\ Landed(index).ids \subseteq Commits
          /\ ~strayed => \A i \in Landed(index).ids :
                            index[branch[i].file].ver >= i
      BY <2>0, <2>7, LandedKeeps DEF ContentInv
    <3>3. FetchTyped'
      BY <2>0, <2>7, <3>1, <3>2 DEF FetchTyped, Commits, Plain, Texts
    <3>4. ~strayed => Forward'
      <4>1. \A f \in Paths : index[f].ver >= index[f].ver
        BY <2>7 DEF Plain
      <4> QED BY <2>7, <3>1, <3>2, <4>1 DEF Forward, HeadHas
    <3> QED BY <2>7, <3>1, <3>3, <3>4 DEF ContentInv, Walking, Covered
  <2>8. CASE HumanCommits
    <3>1. clone.index \in [Paths -> Plain]
      BY <2>0, <2>8 DEF HumanCommits, Conflicted, FetchTyped, Texts, Plain
    <3>2. ~strayed => \A f \in Paths :
                         clone.index[f].ver >= clone.head[f].ver
      BY <3>1 DEF ContentInv, Forward, Plain
    <3> QED BY <2>7, <2>8, <3>1, <3>2 DEF HumanCommits
  <2>9. ASSUME NEW f \in Paths, HumanEdits(f) PROVE ContentInv'
    <3> DEFINE index == [clone.index EXCEPT ![f].own = "mixed"]
    <3>1. clone.index \in [Paths -> Plain]
      BY <2>0, <2>9 DEF HumanEdits, Conflicted, FetchTyped, Texts, Plain
    <3>2. /\ index \in [Paths -> Plain]
          /\ \A g \in Paths : index[g].ver = clone.index[g].ver
      BY <3>1 DEF Plain
    <3>3. ~strayed => \A g \in Paths :
                         index[g].ver >= clone.head[g].ver
      BY <3>1, <3>2 DEF ContentInv, Forward, Plain
    <3>4. clone' = Landed(index) /\ AtHand /\ strayed' = strayed
      BY <2>9 DEF HumanEdits
    <3> HIDE DEF index
    <3> QED BY <2>7, <3>2, <3>3, <3>4
  <2>10. ASSUME NEW index, index \in [Paths -> Texts],
                tool.pc = "idle" /\ UNCHANGED <<branch, tool>>,
                clone'.head = clone.head /\ clone'.index = index,
                clone'.ids = clone.ids,
                ~strayed' => /\ ~strayed
                             /\ \A f \in Paths : index[f].own # "conflict"
                                   => index[f].ver >= clone.head[f].ver
         PROVE  ContentInv'
    <3>1. FetchTyped'
      BY <2>0, <2>10 DEF FetchTyped, Commits
    <3>2. ~strayed' => Forward'
      BY <2>10 DEF ContentInv, Forward, HeadHas
    <3> QED BY <2>10, <3>1, <3>2 DEF ContentInv, Walking, Covered
  <2>11. ASSUME NEW f \in Paths, HumanResolves(f) PROVE ContentInv'
    <3>1. PICK own \in {"no", "mixed"} :
             LET theirs == clone.index[f].ver
                 ver    == Max({theirs, clone.head[f].ver})
             IN  clone' = [clone EXCEPT !.index[f] =
                   [ver |-> IF own = "no" THEN theirs ELSE ver, own |-> own]]
      BY <2>11 DEF HumanResolves
    <3> DEFINE text == clone'.index[f]
    <3>2. /\ clone.index \in [Paths -> Texts] /\ clone.head \in [Paths -> Plain]
          /\ clone.index[f].ver \in Nat /\ clone.head[f].ver \in Nat
      BY <2>0 DEF FetchTyped, Texts, Plain
    <3>3. Max({clone.index[f].ver, clone.head[f].ver}) \in Nat
      BY <3>2, MaxOfTwo
    <3>4. PICK new \in Texts : clone' = [clone EXCEPT !.index[f] = new]
      <4>1. [ver |-> IF own = "no" THEN clone.index[f].ver
                     ELSE Max({clone.index[f].ver, clone.head[f].ver}),
             own |-> own] \in Texts
        BY <3>2, <3>3 DEF Texts
      <4> QED BY <3>1, <4>1
    <3>5. /\ clone'.head = clone.head /\ clone'.ids = clone.ids
          /\ clone'.index = [clone.index EXCEPT ![f] = new]
      BY <3>4 DEF FetchInv
    <3>6. /\ clone'.index \in [Paths -> Texts]
          /\ clone'.index[f] \in Texts
          /\ \A g \in Paths \ {f} : clone'.index[g] = clone.index[g]
      BY <3>2, <3>5
    <3>7. /\ tool.pc = "idle" /\ UNCHANGED <<branch, tool>>
          /\ strayed' = (strayed \/ clone'.index[f].ver < clone.head[f].ver)
      BY <2>11 DEF HumanResolves, AtHand
    <3>8. ~strayed' =>
             /\ ~strayed
             /\ \A g \in Paths : clone'.index[g].own # "conflict"
                   => clone'.index[g].ver >= clone.head[g].ver
      <4> SUFFICES ASSUME ~strayed', NEW g \in Paths,
                          clone'.index[g].own # "conflict"
                   PROVE  ~strayed /\ clone'.index[g].ver >= clone.head[g].ver
        BY <3>7
      <4>1. ~strayed /\ ~(clone'.index[f].ver < clone.head[f].ver)
        BY <3>7
      <4>2. clone'.index[f].ver \in Nat
        BY <3>6 DEF Texts
      <4>3. clone'.index[f].ver >= clone.head[f].ver
        BY <3>2, <4>1, <4>2
      <4> QED BY <3>6, <4>1, <4>3 DEF ContentInv, Forward
    <3> QED BY <2>10, <3>5, <3>6, <3>7, <3>8
  <2>12. ASSUME NEW f \in Paths, HumanDeclines(f) PROVE ContentInv'
    <3>1. /\ clone'.head = clone.head /\ clone'.ids = clone.ids
          /\ clone'.index = [clone.index EXCEPT ![f] = clone.head[f]]
          /\ strayed' = TRUE
          /\ tool.pc = "idle" /\ UNCHANGED <<branch, tool>>
      BY <2>12 DEF HumanDeclines, AtHand, FetchInv
    <3>2. clone'.index \in [Paths -> Texts]
      BY <2>0, <3>1 DEF FetchTyped, Plain, Texts
    <3> QED BY <2>10, <3>1, <3>2
  <2>13. CASE HumanUnstages
    <3>1. /\ clone'.head = clone.head /\ clone'.ids = clone.ids
          /\ clone'.index = clone.head /\ strayed' = strayed
          /\ tool.pc = "idle" /\ UNCHANGED <<branch, tool>>
      BY <2>13 DEF HumanUnstages, AtHand, FetchInv
    <3>2. /\ clone.head \in [Paths -> Texts]
          /\ \A f \in Paths : clone.head[f].ver >= clone.head[f].ver
      BY <2>0 DEF FetchTyped, Plain, Texts
    <3> QED BY <2>10, <3>1, <3>2
  <2>14. ASSUME NEW f \in Paths, HumanReverts(f) PROVE ContentInv'
    <3> DEFINE back == [clone.head EXCEPT ![f].ver = Version(f, @ - 1)]
    <3>1. /\ clone'.head = back /\ clone'.index = back
          /\ clone'.ids = clone.ids /\ strayed' = TRUE
          /\ tool.pc = "idle" /\ UNCHANGED <<branch, tool>>
          /\ clone.head[f].ver > 0
      BY <2>14 DEF HumanReverts, AtHand, FetchInv
    <3>2. clone.head \in [Paths -> Plain] /\ clone.head[f].ver - 1 \in Nat
      BY <2>0, <3>1 DEF FetchTyped, Plain
    <3>3. Version(f, clone.head[f].ver - 1) \in Nat
      BY <3>2, VersionIs
    <3>4. back \in [Paths -> Plain] /\ back \in [Paths -> Texts]
      BY <3>2, <3>3 DEF Plain, Texts
    <3> HIDE DEF back
    <3>5. FetchTyped'
      BY <2>0, <3>1, <3>4 DEF FetchTyped, Commits
    <3> QED BY <3>1, <3>5 DEF ContentInv, Walking
  <2>15. CASE UNCHANGED fetchVars
    BY <2>15 DEF fetchVars, ContentInv, FetchTyped, Commits, Walking, Dirty,
                 Step, Forward, Covered, HeadHas, Holds, Version, MergePassed
  <2> QED
    BY <2>1, <2>2, <2>3, <2>4, <2>5, <2>6, <2>8, <2>9, <2>11, <2>12, <2>13,
       <2>14, <2>15 DEF FetchNext
<1> QED BY <1>1, <1>2, FetchInvariant, PTL DEF FetchSpec

(* "silently wrong committed content is the one failure this tool must     *)
(* never produce": what a fetch calls landed, staged or nothing new has    *)
(* all that the target has, but for merges it passed, and no step of its   *)
(* own takes a file back: for every branch, of any length.                 *)
THEOREM ContentStaysWhole == FetchSpec => ContentWhole
<1> DEFINE Whole ==
      ~strayed =>
         /\ Ends({"landed"}) => Holds(clone.head)
         /\ Ends({"staged", "up to date"}) /\ ~tool.auto /\ ~MergePassed
               => Holds(clone.index)
         /\ tool.pc # "idle" => \A f \in Paths :
               clone'.head[f].ver >= clone.head[f].ver
<1>1. FetchInv /\ ContentInv /\ [FetchNext]_fetchVars => [Whole]_fetchVars
  <2> SUFFICES ASSUME FetchInv, ContentInv, FetchNext, ~strayed,
                      tool.pc # "idle"
               PROVE  Whole
    BY DEF Ends
  <2>0. FetchTyped /\ Walking /\ Forward /\ Covered
    BY DEF ContentInv
  <2>1. Ends({"landed"}) => Holds(clone.head)
    <3> SUFFICES ASSUME Ends({"landed"}) PROVE Holds(clone.head)
      OBVIOUS
    <3>1. WalkEnds
      BY DEF FetchNext, Ends, FetchStarts, IndexRefused, NothingNew,
             MergesRefused, Guarded, ApplyFails, StageAll, Quote, WalkApplies,
             WalkStuck, WalkCommits, WalkCannotCommit, FetchKilled,
             HumanCommits, HumanUnstages, HumanEdits, HumanResolves,
             HumanDeclines, HumanReverts, AtHand, Refuses, Quotes, Unquoted,
             FetchInv
    <3>2. tool.pc = "walk" /\ tool.todo = {}
      BY <3>1 DEF WalkEnds
    <3>3. \A i \in 1..tool.target : HeadHas(i)
      BY <2>0, <3>2 DEF Walking, Covered
    <3> QED BY <2>0, <3>3, HeadHolds
  <2>2. Ends({"staged", "up to date"}) /\ ~tool.auto /\ ~MergePassed
           => Holds(clone.index)
    <3> SUFFICES ASSUME Ends({"staged", "up to date"}), ~tool.auto,
                        ~MergePassed
                 PROVE  Holds(clone.index)
      OBVIOUS
    <3>1. NothingNew \/ StageAll \/ Quote \/ WalkCannotCommit
      BY DEF FetchNext, Ends, FetchStarts, IndexRefused, MergesRefused,
             Guarded, ApplyFails, WalkApplies, WalkStuck, WalkCommits,
             WalkEnds, FetchKilled, HumanCommits, HumanUnstages, HumanEdits,
             HumanResolves, HumanDeclines, HumanReverts, AtHand, Refuses,
             Quotes, Unquoted, FetchInv
    <3>2. CASE NothingNew
      <4>1. tool.pc = "guards" /\ tool.todo = {} /\ clone.index = clone.head
        BY <3>2 DEF NothingNew, Dirty
      <4>2. \A i \in 1..tool.target : HeadHas(i)
        BY <2>0, <4>1 DEF Covered, MergePassed
      <4> QED BY <2>0, <4>1, <4>2, HeadHolds
    <3>3. CASE StageAll
      <4>1. PICK index \in Applied(Min(tool.todo) - 1, tool.target) :
               index # clone.head => tool' = [tool EXCEPT !.pc = "quote"]
        BY <3>3 DEF StageAll
      <4>2. tool.pc = "apply" /\ tool.todo # {} /\ clone.index = clone.head
        BY <2>0, <3>3 DEF StageAll, FetchInv, Walking, Dirty
      <4>3. index = clone.head
        BY <4>1 DEF Ends, FetchInv
      <4> QED BY <2>0, <4>2, <4>3, StagedHolds
    <3>4. CASE Quote
      BY <2>0, <3>4 DEF Quote, Covered
    <3>5. CASE WalkCannotCommit
      BY <2>0, <3>5 DEF WalkCannotCommit, Walking
    <3> QED BY <3>1, <3>2, <3>3, <3>4, <3>5
  <2>3. \A f \in Paths : clone'.head[f].ver >= clone.head[f].ver
    <3>1. CASE WalkCommits
      <4>1. tool.pc = "commit" /\ clone'.head = clone.index
        BY <3>1 DEF WalkCommits, Landed
      <4> QED BY <2>0, <4>1 DEF Walking, Forward, Plain
    <3>2. CASE ~WalkCommits
      <4>1. clone'.head = clone.head
        BY <3>2 DEF FetchNext, FetchStarts, IndexRefused, NothingNew,
               MergesRefused, Guarded, ApplyFails, StageAll, Quote,
               WalkApplies, WalkStuck, WalkCannotCommit, WalkEnds,
               FetchKilled, HumanCommits, HumanUnstages, HumanEdits,
               HumanResolves, HumanDeclines, HumanReverts, AtHand, Quotes,
               Unquoted, FetchInv
      <4> QED BY <2>0, <4>1 DEF FetchTyped, Plain
    <3> QED BY <3>1, <3>2
  <2> QED BY <2>1, <2>2, <2>3
<1> QED
  BY <1>1, FetchInvariant, ContentInvariant, PTL DEF FetchSpec, ContentWhole

-----------------------------------------------------------------------------
(* What is proved of each part holds where the five stand together.        *)
THEOREM ToolsKeepPromises ==
    ToolSpec => /\ []BackupsRestore /\ ImportTold
                /\ ReviewsApart /\ VerdictsStand
                /\ PrefillFits /\ ContentWhole
                /\ LandingsArchived /\ PeopleHeard
<1>1. ToolInit => BoardInit /\ ReviewInit /\ FetchInit /\ LandInit /\ WatchInit
  BY DEF ToolInit
<1>2. [ToolNext]_toolVars
         => /\ [BoardNext]_boardVars /\ [ReviewNext]_reviewVars
            /\ [FetchNext]_fetchVars /\ [LandNext]_landVars
            /\ [WatchNext]_watchVars
  BY DEF ToolNext, BoardStep, ReviewStep, FetchStep, LandStep, WatchStep,
         toolVars
<1>3. ToolSpec => BoardSpec /\ ReviewSpec /\ FetchSpec /\ LandSpec /\ WatchSpec
  BY <1>1, <1>2, PTL
     DEF ToolSpec, BoardSpec, ReviewSpec, FetchSpec, LandSpec, WatchSpec
<1> QED
  BY <1>3, BackupsAlwaysRestore, ImportsTellTrue, ReviewsStayApart,
     VerdictsKeepStanding, PrefillAlwaysFits, ContentStaysWhole,
     LandingsStayArchived, PeopleAreHeard

=============================================================================
