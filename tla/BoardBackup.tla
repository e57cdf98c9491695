---------------------------- MODULE BoardBackup ----------------------------
(***************************************************************************)
(* The backup of the shared Gitea: `dev board export`, `dev board import`  *)
(* and `dev board discard` (cli/rscore.py), with the dump, the verification*)
(* and the restore script that run in containers (cli/gitea.py).           *)
(*                                                                         *)
(* What Gitea holds is a number that grows while it runs, or Torn once a   *)
(* restore has begun to replace it and until one ends.  A file holds what  *)
(* was dumped, or it does not open (Junk), opens without a database        *)
(* (Hollow) or comes from another Gitea (Foreign).  A file that a wrong    *)
(* passphrase is given for does not open either.                           *)
(*                                                                         *)
(* The export runs as a child of the broker, the import and a discard from *)
(* the command line, and they may overlap.                                 *)
(*                                                                         *)
(* A definition Bad... is a faulty variant of the one after it.            *)
(***************************************************************************)
EXTENDS Naturals, FiniteSets

CONSTANTS
    MaxWork,        \* BOUND: how far Gitea's content grows
    MaxImports,     \* BOUND: imports in a behaviour
    Torn, Junk, Hollow, Foreign, None,
    Resident        \* the path of the file that the browser offers

Contents == 0..MaxWork
Opening  == Contents \cup {Torn, Hollow, Foreign}   \* what gpg can open
Dumped   == Contents \cup {Torn}                    \* a database of this Gitea

ASSUME BoardAssumption ==
    /\ MaxWork \in Nat /\ MaxImports \in Nat
    /\ {Torn, Junk, Hollow, Foreign, None, Resident} \cap Nat = {}
    /\ Cardinality({Torn, Junk, Hollow, Foreign, None, Resident}) = 6

VARIABLES
    gitea,      \* up; holds; writer: what a restore container left to itself
                \* will write, touched: it has begun to
    files,      \* resident, its .part, the safety copies under pre-restore/
    export,     \* the export: its step
    import,     \* the import: its step, its file, the flag, what it saw
    bare        \* history: an import has replaced without a safety copy

boardVars == <<gitea, files, export, import, bare>>

-----------------------------------------------------------------------------
NoImport == [pc |-> "idle", src |-> None, safe |-> FALSE, saw |-> None,
             img |-> None, said |-> "nothing", nth |-> 0]

BoardInit ==
    /\ gitea = [up |-> TRUE, holds |-> 0, writer |-> None, touched |-> FALSE]
    /\ files = [resident |-> None, part |-> None, safe |-> {}]
    /\ export = "idle"
    /\ import = NoImport
    /\ bare = FALSE

-----------------------------------------------------------------------------
(* Gitea at work and down                                                  *)

(* Issues, discussions, pushes.                                            *)
Work ==
    /\ gitea.up /\ gitea.holds \in Contents /\ gitea.holds < MaxWork
    /\ gitea' = [gitea EXCEPT !.holds = @ + 1]
    /\ UNCHANGED <<files, export, import, bare>>

Started == gitea' = [gitea EXCEPT !.up = TRUE]

(* `research stop`, a crash; no other command starts it (see the README).  *)
GiteaFalls ==
    /\ gitea.up /\ import.pc # "down"
    /\ gitea' = [gitea EXCEPT !.up = FALSE]
    /\ UNCHANGED <<files, export, import, bare>>

-----------------------------------------------------------------------------
(* dev_board_export and dump_instance                                      *)

(* The resume, the image, the budget.  A stale .part is unlinked, and a    *)
(* new one created.  BOUND: not while an import has Gitea down.            *)
ExportStarts ==
    /\ export = "idle" /\ import.pc \in {"idle", "verify", "safety", "stop"}
    /\ export' = "dump"
    /\ Started
    /\ files' = [files EXCEPT !.part = Junk]
    /\ UNCHANGED <<import, bare>>

(* Raised: Gitea went away under the dump, the budget was spent, the disk  *)
(* is full.  The .part is unlinked.                                        *)
ExportFails ==
    /\ export \in {"dump", "verify"}
    /\ export' = "idle"
    /\ files' = [files EXCEPT !.part = None]
    /\ UNCHANGED <<gitea, import, bare>>

(* The stream reaches its end; pipefail speaks for the dump, not for what  *)
(* is in the file.  The name may have been unlinked by a discard.          *)
ExportDumps ==
    /\ export = "dump" /\ gitea.up
    /\ export' = "verify"
    /\ \E written \in {gitea.holds, Hollow, Junk} :
          files' = [files EXCEPT !.part = IF @ = None THEN None ELSE written]
    /\ UNCHANGED <<gitea, import, bare>>

(* Decrypted end to end, and it must list a database.                      *)
ExportVerifies ==
    /\ export = "verify"
    /\ files.part \in Dumped
    /\ export' = "promote"
    /\ UNCHANGED <<gitea, files, import, bare>>

(* replace(), or a FileNotFoundError if a discard came in between.         *)
ExportPromotes ==
    /\ export = "promote"
    /\ export' = "idle"
    /\ files' = IF files.part = None THEN files
                ELSE [files EXCEPT !.resident = files.part, !.part = None]
    /\ UNCHANGED <<gitea, import, bare>>

(* Only the .part is left behind.                                          *)
ExportKilled ==
    /\ export # "idle"
    /\ export' = "idle"
    /\ UNCHANGED <<gitea, files, import, bare>>

(* dev_board_discard: the resident file and a .part; never a safety copy.  *)
Discard ==
    /\ files.resident # None \/ files.part # None
    /\ files' = [files EXCEPT !.resident = None, !.part = None]
    /\ UNCHANGED <<gitea, export, import, bare>>

-----------------------------------------------------------------------------
(* dev_board_import                                                        *)

(* Which file: the resident one by its path, or a copy elsewhere.          *)
Read == IF import.src = Resident THEN files.resident ELSE import.src

Import(from, to) == import.pc = from /\ import' = [import EXCEPT !.pc = to]
Says(from, said) ==
    /\ import.pc = from
    /\ import' = [import EXCEPT !.pc = "idle", !.said = said]

(* The budget's clock starts, Gitea is resumed.  The operator waits for a  *)
(* restore container that was left behind, as he is told.                  *)
ImportStarts(src, safe) ==
    /\ import.pc = "idle" /\ import.nth < MaxImports
    /\ gitea.writer = None
    /\ IF src = Resident THEN files.resident # None ELSE TRUE
    /\ import' = [NoImport EXCEPT !.pc = "verify", !.src = src,
                                  !.safe = safe, !.nth = import.nth + 1]
    /\ Started
    /\ UNCHANGED <<files, export, bare>>

(* It did not open, the safety copy failed, no time is left: before the    *)
(* stop, and with nothing changed.                                         *)
ImportRefuses ==
    /\ \/ Says("verify", "unopened")
       \/ Says("safety", "nosafety")
       \/ Says("stop", "outoftime")
    /\ UNCHANGED <<gitea, files, export, bare>>

(* The listing is not looked at here, the exit status alone.               *)
ImportVerifies ==
    /\ Read \in Opening
    /\ Import("verify", IF import.safe THEN "safety" ELSE "stop")
    /\ UNCHANGED <<gitea, files, export, bare>>

(* One file for all attempts.                                              *)
BadImportSaves ==
    /\ gitea.up
    /\ Import("safety", "stop")
    /\ files' = [files EXCEPT !.safe = {gitea.holds}]
    /\ UNCHANGED <<gitea, export, bare>>

(* dump_instance once more, under a name of its own.                       *)
ImportSaves ==
    /\ gitea.up
    /\ Import("safety", "stop")
    /\ files' = [files EXCEPT !.safe = @ \cup {gitea.holds}]
    /\ UNCHANGED <<gitea, export, bare>>

(* The budget of the replace was checked just before.                      *)
ImportStops ==
    /\ import.pc = "stop"
    /\ import' = [import EXCEPT !.pc = "down", !.saw = gitea.holds]
    /\ gitea' = [gitea EXCEPT !.up = FALSE]
    /\ UNCHANGED <<files, export, bare>>

(* The file went away since it was verified: nothing is replaced, but it   *)
(* is no RestoreRefused.                                                   *)
ImportMisses ==
    /\ Read = None
    /\ Says("down", "partway")
    /\ UNCHANGED <<gitea, files, export, bare>>

(* The script's checks, all above its point of no return ...               *)
ScriptRefuses ==
    /\ Read \notin Dumped \cup {None}
    /\ Import("down", "refused")
    /\ UNCHANGED <<gitea, files, export, bare>>

(* ... and any other failure up there.                                     *)
ScriptFailsEarly ==
    /\ Read # None
    /\ Import("down", "refused")
    /\ UNCHANGED <<gitea, files, export, bare>>

ScriptReads ==
    /\ import.pc = "down" /\ Read \in Dumped
    /\ import' = [import EXCEPT !.pc = "replace", !.img = Read]
    /\ UNCHANGED <<gitea, files, export, bare>>

(* rm of the database, the load, rm of the repositories, the copy.         *)
ScriptTouches ==
    /\ Import("replace", "fill")
    /\ gitea' = [gitea EXCEPT !.holds = Torn]
    /\ bare' = (bare \/ ~import.safe)
    /\ UNCHANGED <<files, export>>

ScriptDone ==
    /\ Import("fill", "restored")
    /\ gitea' = [gitea EXCEPT !.holds = import.img]
    /\ UNCHANGED <<files, export, bare>>

(* Below the marker Gitea is left stopped.                                 *)
ScriptFailsLate ==
    /\ Says("fill", "partway")
    /\ UNCHANGED <<gitea, files, export, bare>>

(* Takes the end of its patience for a refusal.                            *)
BadScriptOutlasts ==
    /\ Import("replace", "refused") \/ Import("fill", "refused")
    /\ gitea' = [gitea EXCEPT !.writer = import.img,
                              !.touched = import.pc = "fill"]
    /\ UNCHANGED <<files, export, bare>>

(* The budget ends: docker's client is killed and its container works on.  *)
ScriptOutlasts ==
    /\ Says("replace", "partway") \/ Says("fill", "partway")
    /\ gitea' = [gitea EXCEPT !.writer = import.img,
                              !.touched = import.pc = "fill"]
    /\ bare' = (bare \/ ~import.safe)
    /\ UNCHANGED <<files, export>>

(* The container that was left to itself.                                  *)
WriterTouches ==
    /\ gitea.writer # None /\ ~gitea.touched
    /\ gitea' = [gitea EXCEPT !.holds = Torn, !.touched = TRUE]
    /\ UNCHANGED <<files, export, import, bare>>

WriterEnds ==
    /\ gitea.writer # None
    /\ \E left \in {gitea.holds} \cup
                   (IF gitea.touched THEN {gitea.writer} ELSE {}) :
          gitea' = [gitea EXCEPT !.holds = left, !.writer = None,
                                 !.touched = FALSE]
    /\ UNCHANGED <<files, export, import, bare>>

(* docker start, and the wait for an answer; either may fail.              *)
RefusedUp ==
    /\ \/ Says("refused", "refused") /\ Started
       \/ Says("refused", "refusedDown") /\ UNCHANGED gitea
    /\ UNCHANGED <<files, export, bare>>

RestoredUp ==
    /\ \/ Says("restored", "restored") /\ Started
       \/ Says("restored", "restoredDown") /\ UNCHANGED gitea
    /\ UNCHANGED <<files, export, bare>>

(* Killed: a restore container may live on.                                *)
ImportKilled ==
    /\ import.pc # "idle"
    /\ import' = [import EXCEPT !.pc = "idle", !.said = "nothing"]
    /\ gitea' \in {gitea} \cup
         (IF import.pc \in {"replace", "fill"}
          THEN {[gitea EXCEPT !.writer = import.img,
                              !.touched = import.pc = "fill"]} ELSE {})
    /\ bare' = (bare \/ (import.pc \in {"replace", "fill"} /\ ~import.safe))
    /\ UNCHANGED <<files, export>>

-----------------------------------------------------------------------------
BoardNext ==
    \/ Work \/ GiteaFalls \/ Discard
    \/ ExportStarts \/ ExportDumps \/ ExportVerifies \/ ExportPromotes
    \/ ExportFails \/ ExportKilled
    \/ \E src \in files.safe \cup {Resident, Junk, Hollow, Foreign},
          safe \in BOOLEAN : ImportStarts(src, safe)
    \/ ImportRefuses \/ ImportVerifies \/ ImportSaves \/ ImportStops
    \/ ImportMisses \/ ScriptRefuses \/ ScriptFailsEarly \/ ScriptReads
    \/ ScriptTouches \/ ScriptDone \/ ScriptFailsLate \/ ScriptOutlasts
    \/ WriterTouches \/ WriterEnds \/ RefusedUp \/ RestoredUp
    \/ ImportKilled

BoardSpec == BoardInit /\ [][BoardNext]_boardVars

-----------------------------------------------------------------------------
(* Properties                                                              *)

(* The file that is offered for a restore has been opened and holds a      *)
(* database, whatever exports failed, were killed or met a discard; and a  *)
(* Gitea that an import has left in pieces can be taken back to what it    *)
(* was: a safety copy of before survives every further attempt, unless the *)
(* operator declined it.                                                   *)
BackupsRestore ==
    /\ files.resident \in Dumped \cup {None}
    /\ gitea.holds = Torn /\ ~bare => files.safe \cap Contents # {}

(* What an import says at its end is so.  Refused: Gitea holds what it     *)
(* held at the stop, and nobody is writing, before it is started again.    *)
(* Restored: it holds the backup.  Part way: it is down.                   *)
ImportTold ==
    [][import.pc # "idle" /\ import'.pc = "idle" =>
         /\ (import'.said \in {"refused", "refusedDown"}
                => gitea.holds = import.saw /\ gitea.writer = None)
         /\ (import'.said \in {"restored", "restoredDown"}
                => gitea.holds = import.img /\ gitea.writer = None)
         /\ (import'.said \in {"partway", "refusedDown", "restoredDown"}
                => ~gitea'.up)]_boardVars

(* "restore again from a good backup ... before starting it" (rscore.py):  *)
(* Gitea is not started over a half-replaced volume.                       *)
TornStaysDown ==
    [][~gitea.up /\ gitea'.up => gitea.holds # Torn]_boardVars
=============================================================================
