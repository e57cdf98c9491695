------------------------------ MODULE DevForge ------------------------------
(***************************************************************************)
(* The dev lane (cli/gitea.py and the dev_* and box_* verbs of             *)
(* cli/rscore.py): mirrors of GitHub repos in a shared Gitea, a Gitea      *)
(* account, a fork and a token for every agent that works one, the ledger  *)
(* attachments.json of who works what, and the notes repos of history      *)
(* boxes and projects.                                                     *)
(*                                                                         *)
(* An account is named after its place: agent-<project> is <<p, Own>>,     *)
(* agent-<project>.<box> is <<p, b>>, dev box or notes box alike, and      *)
(* notes-<project> is <<p, Notes>>.  One command runs at a time, a step    *)
(* per Gitea call or host file; it dies between any two, by an exception   *)
(* of a strict call, by die() or by a kill, and Gitea goes away and comes  *)
(* back meanwhile.                                                         *)
(*                                                                         *)
(* A definition Bad... is a faulty variant of the one after it.            *)
(***************************************************************************)
EXTENDS Naturals, FiniteSets

CONSTANTS
    Projects,
    Boxes,          \* names of boxes
    Own, Notes,     \* the project's own dev agent, the project's notes
    Repos,
    Nobody,         \* no account
    NoRepo,         \* no repo; also the repo of a history row
    Aims            \* BOUND: which features a behaviour may combine

Accounts == Projects \X (Boxes \cup {Own, Notes})
Features == {"own", "box", "notes", "company", "again", "outage",
             "lost", "active", "second", "tales", "leaves"}

ASSUME ForgeAssumption ==
    /\ Own # Notes /\ Own \notin Boxes /\ Notes \notin Boxes
    /\ Nobody \notin Accounts /\ NoRepo \notin Repos
    /\ Aims \subseteq SUBSET Features

VARIABLES
    forge,      \* Gitea: up, users, their rs-dev tokens, forks, mirrors, notes
    host,       \* the host's files: stamps, token files, ledger, active forks
    place,      \* the projects and boxes that stand, the tokens staged in a
                \* project's container; history: those a removal left there
    cmd,        \* the command that runs: its step and its locals
    torn,       \* history: accounts that a command died on, unhealed
    aim         \* the features that this behaviour combines

vars == <<forge, host, place, cmd, torn, aim>>

-----------------------------------------------------------------------------
Idle == [verb |-> "none", pc |-> "idle", who |-> Nobody, repo |-> NoRepo,
         todo |-> {}]

Row(who, repo) == [who |-> who, repo |-> repo]      \* class agent
Tale(who)      == [who |-> who, repo |-> NoRepo]    \* class history

Home(a)   == a[1]
IsBox(a)  == a[2] \in Boxes
Dev(rows) == {row \in rows : row.repo # NoRepo}
RowsOf(a) == {row \in host.rows : row.who = a}
RowsIn(p) == {row \in host.rows : Home(row.who) = p}
Works(a)  == {row.repo : row \in Dev(RowsOf(a))}
Archived(a) == {r \in Repos : forge.fork[a][r] = "archived"}
Live(a)     == {r \in Repos : forge.fork[a][r] = "live"}

(* A surviving retirement: the user is there, its token file is not.       *)
Retired(a) == a \in forge.users /\ host.token[a] = "none"

Stands(a) == IF IsBox(a) THEN place.box[a] # "none" ELSE Home(a) \in place.up

Init ==
    /\ forge = [up |-> FALSE, users |-> {}, minted |-> {},
                fork |-> [a \in Accounts |-> [r \in Repos |-> "none"]],
                mirror |-> [r \in Repos |-> "none"],
                notes |-> [a \in Accounts |-> "none"]]
    /\ host = [stamp |-> {}, token |-> [a \in Accounts |-> "none"],
               rows |-> {}, active |-> [r \in Repos |-> Nobody], hidden |-> {}]
    /\ place = [up |-> {},
                box |-> [a \in {x \in Accounts : IsBox(x)} |-> "none"],
                staged |-> {}, left |-> {}]
    /\ cmd = Idle
    /\ torn = {}
    /\ aim \in Aims

-----------------------------------------------------------------------------
(* Commands in general                                                     *)

C == cmd.who
R == cmd.repo

(* The accounts that one behaviour works with.                             *)
InPlay(a) == \/ a[2] = Own /\ "own" \in aim
             \/ a[2] = Notes /\ "notes" \in aim
             \/ IsBox(a) /\ "box" \in aim

(* No container has the project's name.                                    *)
Free(p) == p \notin place.up /\ \A a \in place.left : Home(a) # p

Alone(p) == "company" \in aim \/ \A q \in Projects \ {p} :
               /\ q \notin place.up
               /\ RowsIn(q) = {}
               /\ \A a \in forge.users : Home(a) # q

Begin(verb, pc, who, repo, todo) ==
    /\ cmd = Idle
    /\ cmd' = [verb |-> verb, pc |-> pc, who |-> who, repo |-> repo,
               todo |-> todo]

Go(from, to)  == cmd.pc = from /\ cmd' = [cmd EXCEPT !.pc = to]
Ask(from, to) == Go(from, to) /\ forge.up

(* Success; the accounts in healed are as the command promises.            *)
End(from, healed) ==
    /\ cmd.pc = from
    /\ cmd' = Idle
    /\ torn' = torn \ healed

(* What a provision makes whole; a second row is a leftover that stays.    *)
Healed == IF Cardinality(RowsOf(C)) = 1 THEN {C} ELSE {}

(* A strict call raised, a die(), a kill.  BOUND: no command dies while an *)
(* account is torn, none where a purge may lose its answer, and no purge   *)
(* between user and token.                                                 *)
CommandDies ==
    /\ cmd # Idle
    /\ torn = {}
    /\ "lost" \notin aim /\ cmd.pc # "pg_token"
    /\ cmd' = Idle
    /\ torn' = torn \cup cmd.todo \cup ({C} \cap Accounts)
    /\ UNCHANGED <<forge, host, place, aim>>

(* Every verb that needs Gitea first starts an enabled one.                *)
Resume == forge' = [forge EXCEPT !.up = TRUE]

(* `research stop`, a crash of the container.                              *)
ForgeStops ==
    /\ "outage" \in aim /\ forge.up
    /\ forge' = [forge EXCEPT !.up = FALSE]
    /\ UNCHANGED <<host, place, cmd, torn, aim>>

ForgeStarts ==
    /\ ~forge.up
    /\ Resume
    /\ UNCHANGED <<host, place, cmd, torn, aim>>

(* Deleting a user purges its repos; a token file left behind is dead.     *)
Unuser(f, a) == [f EXCEPT !.users = @ \ {a}, !.minted = @ \ {a},
                          !.fork[a] = [r \in Repos |-> "none"]]
Stale(h, a)  == [h EXCEPT !.token[a] = IF @ = "good" THEN "dead" ELSE @]
Untoken(h, accounts) ==
    [h EXCEPT !.token = [a \in Accounts |->
                           IF a \in accounts THEN "none" ELSE @[a]]]

(* _stage_dev_gitea: the token of every recorded account of the project    *)
(* goes into its running container.                                        *)
Staged(rows, token, p) ==
    LET new == {a \in {row.who : row \in rows} :
                  Home(a) = p /\ token[a] # "none"}
    IN  IF p \notin place.up THEN place
        ELSE [place EXCEPT !.staged = @ \cup new, !.left = @ \ new]

(* The copies go after the files on the host, by a `docker exec rm -f` that *)
(* is skipped when the container does not run and whose result nobody      *)
(* looks at: some may stay.  A command that dies between the file and the  *)
(* copy leaves the same.                                                   *)
Unstaged(accounts) ==
    \E stay \in SUBSET (accounts \cap place.staged) :
        /\ stay = {} \/ "leaves" \in aim
        /\ place' = [place EXCEPT !.staged = @ \ accounts, !.left = @ \cup stay]

-----------------------------------------------------------------------------
(* repo add, repo remove                                                   *)

RepoAdd(r) ==
    /\ "second" \in aim \/ \A q \in Repos \ {r} :
                            q \notin host.stamp /\ forge.mirror[q] = "none"
    /\ Begin("add", "ra_migrate", Nobody, r, {})
    /\ Resume
    /\ UNCHANGED <<host, place, torn, aim>>

(* A healthy mirror is only synced; a stub is deleted and migrated again.  *)
Migrate ==
    /\ Ask("ra_migrate", "ra_stamp")
    /\ forge' = [forge EXCEPT !.mirror[R] = "full"]
    /\ UNCHANGED <<host, place, torn, aim>>

(* The clone fails: with an answer the stub is swept, without one the      *)
(* clone may still run and the stub stays for the next add.                *)
MigrateFails ==
    /\ cmd.pc = "ra_migrate" /\ forge.up
    /\ forge.mirror[R] # "full"
    /\ cmd' = Idle
    /\ \E left \in {"none", "stub"} :
          forge' = [forge EXCEPT !.mirror[R] = left]
    /\ UNCHANGED <<host, place, torn, aim>>

Stamp ==
    /\ End("ra_stamp", {})
    /\ host' = [host EXCEPT !.stamp = @ \cup {R}]
    /\ UNCHANGED <<forge, place, aim>>

(* The ledger's word: a dev row of anybody for the repo.                   *)
Attached(r) == \E row \in host.rows : row.repo = r

RepoRemove(r) ==
    /\ ~Attached(r)
    /\ Begin("remove", "rr_gate", Nobody, r, {})
    /\ Resume
    /\ UNCHANGED <<host, place, torn, aim>>

(* The ledger's word is enough.                                            *)
BadRemoveGate ==
    /\ Ask("rr_gate", "rr_list")
    /\ UNCHANGED <<forge, host, place, torn, aim>>

(* Gitea's word, and it fails closed: no live fork of anybody.  Then the   *)
(* cascade lists the forks again, and goes on without them when it cannot. *)
RemoveGate ==
    /\ Ask("rr_gate", "rr_list")
    /\ \A a \in Accounts : R \notin Live(a)
    /\ UNCHANGED <<forge, host, place, torn, aim>>

RemoveList ==
    /\ cmd.pc = "rr_list"
    /\ cmd' = [cmd EXCEPT !.pc = "rr_next", !.todo =
                 IF forge.up THEN {a \in Accounts : forge.fork[a][R] # "none"}
                             ELSE {}]
    /\ UNCHANGED <<forge, host, place, torn, aim>>

(* One fork.  An owner that the ledger names keeps token and user; one     *)
(* whose fork could not be deleted keeps its user.                         *)
RemoveFork(a) ==
    /\ cmd.pc = "rr_next" /\ a \in cmd.todo
    /\ forge' = IF forge.up THEN [forge EXCEPT !.fork[a][R] = "none"] ELSE forge
    /\ cmd' = [cmd EXCEPT !.todo = @ \ {a}, !.who = a, !.pc =
                 IF RowsOf(a) # {} THEN "rr_next"
                 ELSE IF forge.up THEN "rr_token" ELSE "rr_last"]
    /\ UNCHANGED <<host, place, torn, aim>>

RemoveToken(from, to) ==
    /\ Go(from, to)
    /\ host' = Untoken(host, {C})
    /\ UNCHANGED <<forge, place, torn, aim>>

(* Warn and continue: a user that owns anything else stays.                *)
RemoveOwner ==
    /\ Go("rr_owner", "rr_next")
    /\ forge' = IF forge.up /\ Live(C) \cup Archived(C) = {}
                THEN Unuser(forge, C) ELSE forge
    /\ host' = IF forge.up /\ Live(C) \cup Archived(C) = {}
               THEN Untoken(host, {C}) ELSE host
    /\ UNCHANGED <<place, torn, aim>>

RemoveMirror ==
    /\ Ask("rr_next", "rr_host")
    /\ cmd.todo = {}
    /\ forge' = [forge EXCEPT !.mirror[R] = "none"]
    /\ UNCHANGED <<host, place, torn, aim>>

(* The stamp, the active fork and the display preference go with it.       *)
RemoveHost ==
    /\ End("rr_host", {})
    /\ host' = [host EXCEPT !.stamp = @ \ {R}, !.active[R] = Nobody,
                            !.hidden = @ \ {R}]
    /\ UNCHANGED <<forge, place, aim>>

-----------------------------------------------------------------------------
(* A dev account's provision: project create, dev attach, box add          *)

(* Asks for the user alone: a leftover of anybody bars the name.           *)
Refused(a) == Retired(a)

(* The retired-identity check comes before any container.                  *)
DevCreate(p, r) ==
    /\ InPlay(<<p, Own>>) /\ Alone(p)
    /\ Free(p)
    /\ r \in host.stamp
    /\ forge.mirror[r] = "full" /\ ~Refused(<<p, Own>>)
    /\ Begin("create", "pv_user", <<p, Own>>, r, {})
    /\ Resume
    /\ place' = [place EXCEPT !.up = @ \cup {p}]
    /\ UNCHANGED <<host, torn, aim>>

(* A project that works no repo itself; its boxes may.                     *)
PlainCreate(p) ==
    /\ cmd = Idle
    /\ "box" \in aim /\ Alone(p)
    /\ Free(p)
    /\ place' = [place EXCEPT !.up = @ \cup {p}]
    /\ UNCHANGED <<forge, host, cmd, torn, aim>>

(* One repo per dev container.                                             *)
Attach(p, r) ==
    /\ InPlay(<<p, Own>>)
    /\ p \in place.up
    /\ r \in host.stamp
    /\ Works(<<p, Own>>) \subseteq {r}
    /\ ~Refused(<<p, Own>>)
    /\ Begin("attach", "pv_user", <<p, Own>>, r, {})
    /\ Resume
    /\ UNCHANGED <<host, place, torn, aim>>

(* The box tool alone knows which names are taken, and is asked last.      *)
DevBoxAdd(a, r) ==
    /\ InPlay(a) /\ IsBox(a)
    /\ Home(a) \in place.up
    /\ r \in host.stamp
    /\ forge.mirror[r] = "full" /\ ~Refused(a)
    /\ "again" \in aim \/ (~Stands(a) /\ RowsOf(a) \subseteq {Row(a, r)})
    /\ Begin("box", "pv_user", a, r, {})
    /\ Resume
    /\ UNCHANGED <<host, place, torn, aim>>

ProvisionUser ==
    /\ Ask("pv_user", "pv_fork")
    /\ forge' = [forge EXCEPT !.users = @ \cup {C}]
    /\ UNCHANGED <<host, place, torn, aim>>

(* Adopts whatever fork there is.                                          *)
BadProvisionFork ==
    /\ Ask("pv_fork", "pv_token")
    /\ forge.mirror[R] = "full"
    /\ forge' = [forge EXCEPT !.fork[C][R] = IF @ = "none" THEN "live" ELSE @]
    /\ UNCHANGED <<host, place, torn, aim>>

(* A live fork is adopted, an archived one raises.                         *)
ProvisionFork ==
    /\ Ask("pv_fork", "pv_token")
    /\ forge.mirror[R] = "full" /\ C \in forge.users
    /\ forge.fork[C][R] # "archived"
    /\ forge' = [forge EXCEPT !.fork[C][R] = "live"]
    /\ UNCHANGED <<host, place, torn, aim>>

(* An existing file is taken as it is; a second rs-dev token is refused.   *)
ProvisionToken ==
    /\ Go("pv_token", "pv_record")
    /\ IF host.token[C] # "none" THEN UNCHANGED <<forge, host>>
       ELSE /\ forge.up /\ C \notin forge.minted
            /\ forge' = [forge EXCEPT !.minted = @ \cup {C}]
            /\ host' = [host EXCEPT !.token[C] = "good"]
    /\ UNCHANGED <<place, torn, aim>>

ProvisionRecord ==
    /\ Go("pv_record", "pv_stage")
    /\ host' = [host EXCEPT !.rows = @ \cup {Row(C, R)}]
    /\ UNCHANGED <<forge, place, torn, aim>>

ProvisionStage ==
    /\ cmd.pc = "pv_stage"
    /\ place' = Staged(host.rows, host.token, Home(C))
    /\ IF cmd.verb = "box" THEN Go("pv_stage", "bx_run") /\ UNCHANGED torn
                           ELSE End("pv_stage", Healed)
    /\ UNCHANGED <<forge, host, aim>>

(* rs-sandbox create.  It refuses a taken name, and fails for reasons of   *)
(* its own; a dev box's account, fork and row then stay.                   *)
BoxRuns ==
    /\ cmd.pc \in {"bx_run", "bx_note", "bx_bare"} /\ ~Stands(C)
    /\ cmd' = Idle
    /\ torn' = torn \ Healed
    /\ place' = [place EXCEPT !.box[C] =
                   CASE cmd.pc = "bx_run"  -> "dev"
                     [] cmd.pc = "bx_note" -> "notes"
                     [] cmd.pc = "bx_bare" -> "plain"]
    /\ UNCHANGED <<forge, host, aim>>

-----------------------------------------------------------------------------
(* History: a notes repo in the organisation, an account that may push it  *)

Claim(a) == a \in forge.users => Live(a) \cup Archived(a) = {}

NotesCreate(p) ==
    /\ InPlay(<<p, Notes>>) /\ Alone(p)
    /\ Free(p)
    /\ Claim(<<p, Notes>>)
    /\ Begin("create", "hs_repo", <<p, Notes>>, NoRepo, {})
    /\ Resume
    /\ place' = [place EXCEPT !.up = @ \cup {p}]
    /\ UNCHANGED <<host, torn, aim>>

NotesBoxAdd(a) ==
    /\ InPlay(a) /\ IsBox(a) /\ "tales" \in aim
    /\ Home(a) \in place.up
    /\ ~Stands(a)
    /\ Claim(a)
    /\ Begin("notes", "hs_repo", a, NoRepo, {})
    /\ Resume
    /\ UNCHANGED <<host, place, torn, aim>>

(* The notes repo of a removed box of the name is revived.                 *)
HistoryRepo ==
    /\ Ask("hs_repo", "hs_user")
    /\ forge' = [forge EXCEPT !.notes[C] = "live"]
    /\ UNCHANGED <<host, place, torn, aim>>

(* A leftover account is deleted first.                                    *)
HistoryUser ==
    /\ Ask("hs_user", "hs_token")
    /\ forge' = [Unuser(forge, C) EXCEPT !.users = @ \cup {C}]
    /\ host' = Stale(host, C)
    /\ UNCHANGED <<place, torn, aim>>

(* Always a fresh one: a file that is there belonged to a deleted user.    *)
HistoryToken ==
    /\ Ask("hs_token", "hs_record")
    /\ forge' = [forge EXCEPT !.minted = @ \cup {C}]
    /\ host' = [host EXCEPT !.token[C] = "good"]
    /\ UNCHANGED <<place, torn, aim>>

HistoryRecord ==
    /\ Go("hs_record", "hs_stage")
    /\ host' = [host EXCEPT !.rows = @ \cup {Tale(C)}]
    /\ UNCHANGED <<forge, place, torn, aim>>

HistoryStage ==
    /\ cmd.pc = "hs_stage"
    /\ place' = Staged(host.rows, host.token, Home(C))
    /\ IF IsBox(C) THEN Go("hs_stage", "bx_note") /\ UNCHANGED torn
                   ELSE End("hs_stage", Healed)
    /\ UNCHANGED <<forge, host, aim>>

(* Any failure is caught: row and token are dropped, and the box or the    *)
(* project is made without history.  The account stays as a leftover.      *)
HistoryFails ==
    /\ cmd.pc \in {"hs_repo", "hs_user", "hs_token", "hs_stage"}
    /\ cmd' = [cmd EXCEPT !.pc = "hc_row"]
    /\ UNCHANGED <<forge, host, place, torn, aim>>

(* rs-sandbox create fails before it saved a record.                       *)
NotesBoxFails ==
    /\ cmd.pc = "bx_note"
    /\ cmd' = [cmd EXCEPT !.pc = "hc_row", !.verb = "notesfail"]
    /\ UNCHANGED <<forge, host, place, torn, aim>>

CleanRow ==
    /\ Go("hc_row", "hc_token")
    /\ host' = [host EXCEPT !.rows = @ \ {Tale(C)}]
    /\ UNCHANGED <<forge, place, torn, aim>>

(* Leaves the copy in the project's container.                             *)
BadCleanToken ==
    /\ cmd.pc = "hc_token"
    /\ host' = Untoken(host, {C})
    /\ IF cmd.verb = "notes" THEN Go("hc_token", "bx_bare") /\ UNCHANGED torn
                             ELSE End("hc_token", {C})
    /\ UNCHANGED <<forge, place, aim>>

CleanToken ==
    /\ cmd.pc = "hc_token"
    /\ host' = Untoken(host, {C})
    /\ Unstaged({C})
    /\ IF cmd.verb = "notes" THEN Go("hc_token", "bx_bare") /\ UNCHANGED torn
                             ELSE End("hc_token", {C})
    /\ UNCHANGED <<forge, aim>>

-----------------------------------------------------------------------------
(* Retirement: detach, box remove, destroy                                 *)

(* The ledger first, then the forks, then the token of whoever is left     *)
(* with nothing.  Boxes stand on, unwired.                                 *)
Detach(p, all) ==
    LET gone == {row \in Dev(RowsIn(p)) : all \/ row.who = <<p, Own>>}
    IN  /\ gone # {}
        /\ Begin("detach", "dt_archive", Nobody, NoRepo,
                 {row.who : row \in gone})
        /\ host' = [host EXCEPT !.rows = @ \ gone]
        /\ UNCHANGED <<forge, place, torn, aim>>

(* archive_fork never raises; with Gitea away nothing is archived.         *)
Shelved(accounts, repos) ==
    [forge EXCEPT !.fork = [a \in Accounts |-> [r \in Repos |->
        IF /\ forge.up /\ a \in accounts /\ r \in repos
           /\ @[a][r] = "live" THEN "archived" ELSE @[a][r]]]]

DetachArchive ==
    /\ Go("dt_archive", "dt_token")
    /\ forge' = Shelved(cmd.todo, Repos)
    /\ UNCHANGED <<host, place, torn, aim>>

DetachToken ==
    /\ Go("dt_token", "dt_stage")
    /\ host' = Untoken(host, cmd.todo)
    /\ UNCHANGED <<forge, place, torn, aim>>

DetachStage ==
    /\ End("dt_stage", {})
    /\ Unstaged(cmd.todo)
    /\ UNCHANGED <<forge, host, aim>>

(* The discard in the container must succeed; the rest is best effort.     *)
(* Only the first dev row of the box is retired.                           *)
BoxRemove(a) ==
    /\ Home(a) \in place.up /\ Stands(a)
    /\ IF Works(a) = {} THEN Begin("unbox", "rt_next", a, NoRepo, {})
       ELSE \E r \in Works(a) : Begin("unbox", "br_archive", a, r, {})
    /\ place' = [place EXCEPT !.box[a] = "none"]
    /\ UNCHANGED <<forge, host, torn, aim>>

BoxArchive ==
    /\ Go("br_archive", "br_token")
    /\ forge' = Shelved({C}, {R})
    /\ UNCHANGED <<host, place, torn, aim>>

BoxToken ==
    /\ Go("br_token", "br_prune")
    /\ host' = Untoken(host, {C})
    /\ Unstaged({C})
    /\ UNCHANGED <<forge, torn, aim>>

BoxPrune ==
    /\ Go("br_prune", "rt_next")
    /\ host' = [host EXCEPT !.rows = @ \ {Row(C, R)}]
    /\ UNCHANGED <<forge, place, torn, aim>>

(* The container and its boxes are gone when the ledger's turn comes; one  *)
(* that docker did not remove keeps the tokens, and nobody looks.          *)
Destroy(p) ==
    LET inside == {a \in place.staged : Home(a) = p} IN
    /\ p \in place.up
    /\ Begin("destroy", "de_archive", <<p, Own>>, NoRepo,
             {row.who : row \in RowsIn(p)})
    /\ \E left \in {{a \in place.left : Home(a) # p}, place.left \cup inside} :
         /\ left \subseteq place.left \/ "leaves" \in aim
         /\ place' = [up |-> place.up \ {p},
                      box |-> [a \in DOMAIN place.box |->
                                 IF Home(a) = p THEN "none"
                                                ELSE place.box[a]],
                      staged |-> place.staged \ inside,
                      left |-> left]
    /\ UNCHANGED <<forge, host, torn, aim>>

DestroyArchive ==
    /\ Go("de_archive", "de_token")
    /\ forge' = Shelved({row.who : row \in Dev(RowsIn(Home(C)))}, Repos)
    /\ UNCHANGED <<host, place, torn, aim>>

DestroyTokens ==
    /\ Go("de_token", "rt_next")
    /\ host' = Untoken(host, {row.who : row \in Dev(RowsIn(Home(C)))})
    /\ UNCHANGED <<forge, place, torn, aim>>

(* The history rows, one by one; Gitea is resumed for them, if it can be.  *)
Tales == {row \in host.rows : /\ row.repo = NoRepo
            /\ IF cmd.verb = "destroy" THEN Home(row.who) = Home(C)
                                       ELSE row.who = C}

RetireArchive ==
    /\ cmd.pc = "rt_next"
    /\ \E row \in Tales, up \in {forge.up, TRUE} :
          /\ cmd' = [cmd EXCEPT !.pc = "rt_user", !.who = row.who]
          /\ forge' = [forge EXCEPT !.up = up, !.notes[row.who] =
                         IF up /\ @ = "live" THEN "archived" ELSE @]
    /\ UNCHANGED <<host, place, torn, aim>>

RetireUser ==
    /\ Go("rt_user", "rt_token")
    /\ IF forge.up THEN forge' = Unuser(forge, C) /\ host' = Stale(host, C)
                   ELSE UNCHANGED <<forge, host>>
    /\ UNCHANGED <<place, torn, aim>>

RetireToken ==
    /\ Go("rt_token", "rt_prune")
    /\ host' = Untoken(host, {C})
    /\ UNCHANGED <<forge, place, torn, aim>>

RetirePrune ==
    /\ Go("rt_prune", "rt_next")
    /\ host' = [host EXCEPT !.rows = @ \ {Tale(C)}]
    /\ Unstaged({C})
    /\ UNCHANGED <<forge, torn, aim>>

RetireEnds ==
    /\ Tales = {}
    /\ End("rt_next", IF R \in Repos THEN {C} ELSE {})
    /\ host' = IF cmd.verb = "destroy"
               THEN [host EXCEPT !.rows = @ \ RowsIn(Home(C))] ELSE host
    /\ UNCHANGED <<forge, place, aim>>

-----------------------------------------------------------------------------
(* Purge, the active fork, the display preference, a restart               *)

(* An absent user is a success at once; the ledger, then the live forks,   *)
(* refuse.                                                                 *)
Purge(a) ==
    /\ a \in forge.users
    /\ RowsOf(a) = {}
    /\ Live(a) = {}
    /\ Begin("purge", "pg_user", a, NoRepo, {})
    /\ Resume
    /\ UNCHANGED <<host, place, torn, aim>>

PurgeUser ==
    /\ Ask("pg_user", "pg_token")
    /\ forge' = Unuser(forge, C)
    /\ host' = Stale(host, C)
    /\ UNCHANGED <<place, torn, aim>>

(* The delete_user that times out while it succeeds.                       *)
PurgeAnswerLost ==
    /\ "lost" \in aim
    /\ cmd.pc = "pg_user" /\ forge.up
    /\ cmd' = Idle
    /\ forge' = Unuser(forge, C)
    /\ host' = Stale(host, C)
    /\ UNCHANGED <<place, torn, aim>>

PurgeToken ==
    /\ End("pg_token", {})
    /\ host' = Untoken(host, {C})
    /\ UNCHANGED <<forge, place, aim>>

SetActiveFork(a, r) ==
    /\ cmd = Idle /\ forge.up /\ "active" \in aim
    /\ r \in Live(a)
    /\ host.active[r] # a
    /\ host' = [host EXCEPT !.active[r] = a]
    /\ UNCHANGED <<forge, place, cmd, torn, aim>>

SetFetchEnabled(r) ==
    /\ cmd = Idle
    /\ r \in host.stamp /\ "active" \in aim
    /\ host' = [host EXCEPT !.hidden = IF r \in @ THEN @ \ {r} ELSE @ \cup {r}]
    /\ UNCHANGED <<forge, place, cmd, torn, aim>>

(* A recreated container starts empty and is staged again from the ledger. *)
Rewire(p) ==
    /\ cmd = Idle
    /\ p \in place.up
    /\ place' = LET fresh == {a \in place.staged : Home(a) # p}
                IN  [place EXCEPT !.left = {a \in @ : Home(a) # p},
                       !.staged = fresh \cup
                         {a \in {row.who : row \in RowsIn(p)} :
                            host.token[a] # "none"}]
    /\ UNCHANGED <<forge, host, cmd, torn, aim>>

(* What the refusals tell the operator to do in the Gitea tab: archive an  *)
(* orphan's fork, delete a user that owns nothing.                         *)
OperatorTidies(a) ==
    /\ cmd = Idle /\ forge.up
    /\ a \in forge.users /\ Retired(a) /\ RowsOf(a) = {}
    /\ forge' = IF Live(a) # {} THEN Shelved({a}, Repos)
                ELSE IF Archived(a) = {} THEN Unuser(forge, a) ELSE forge
    /\ UNCHANGED <<host, place, cmd, torn, aim>>

-----------------------------------------------------------------------------
Next ==
    \/ CommandDies \/ ForgeStops \/ ForgeStarts
    \/ \E r \in Repos : RepoAdd(r) \/ RepoRemove(r) \/ SetFetchEnabled(r)
    \/ Migrate \/ MigrateFails \/ Stamp
    \/ RemoveGate \/ RemoveList \/ (\E a \in Accounts : RemoveFork(a))
    \/ RemoveToken("rr_token", "rr_owner") \/ RemoveToken("rr_last", "rr_next")
    \/ RemoveOwner \/ RemoveMirror \/ RemoveHost
    \/ \E p \in Projects, r \in Repos : DevCreate(p, r) \/ Attach(p, r)
    \/ \E a \in Accounts, r \in Repos : DevBoxAdd(a, r) \/ SetActiveFork(a, r)
    \/ ProvisionUser \/ ProvisionFork \/ ProvisionToken
    \/ ProvisionRecord \/ ProvisionStage \/ BoxRuns
    \/ \E p \in Projects :
          PlainCreate(p) \/ NotesCreate(p) \/ Destroy(p) \/ Rewire(p)
    \/ \E a \in Accounts : NotesBoxAdd(a) \/ Purge(a) \/ OperatorTidies(a)
    \/ HistoryRepo \/ HistoryUser \/ HistoryToken \/ HistoryRecord
    \/ HistoryStage \/ HistoryFails \/ NotesBoxFails \/ CleanRow \/ CleanToken
    \/ \E p \in Projects, all \in BOOLEAN : Detach(p, all)
    \/ DetachArchive \/ DetachToken \/ DetachStage
    \/ \E a \in DOMAIN place.box : BoxRemove(a)
    \/ BoxArchive \/ BoxToken \/ BoxPrune
    \/ DestroyArchive \/ DestroyTokens
    \/ RetireArchive \/ RetireUser \/ RetireToken \/ RetirePrune \/ RetireEnds
    \/ PurgeUser \/ PurgeAnswerLost \/ PurgeToken

Spec == Init /\ [][Next]_vars

-----------------------------------------------------------------------------
AtRest(a) == cmd = Idle /\ a \notin torn

(* What the ledger says works.  An account that a row gives a repo exists, *)
(* holds a live fork of it, and the token on the host is its own; a        *)
(* history account's notes repo takes pushes.  Retirement, purges, mirror  *)
(* removes and reuse of a name never break this for anybody who stands.    *)
RowsWork ==
    \A row \in host.rows : AtRest(row.who) /\ Stands(row.who) =>
        /\ row.who \in forge.users /\ host.token[row.who] = "good"
        /\ IF row.repo = NoRepo THEN forge.notes[row.who] = "live"
                                ELSE row.repo \in Live(row.who)

(* No credential outlives its row: a token on the host or in a container   *)
(* belongs to an account that the ledger names, but for a copy whose       *)
(* removal from the container failed or was skipped.                       *)
TokensRecorded ==
    \A a \in Accounts : AtRest(a) =>
        (host.token[a] # "none" \/ a \in place.staged => RowsOf(a) # {})

(* A live fork, the work of an agent that nobody retired, is never         *)
(* deleted: whatever deletes forks has seen them archived.  Left out are   *)
(* the forks of an account with a history row: its retirement deletes it   *)
(* with what it owns, and a dev box added under the name of a box with     *)
(* history gets its fork there (no check before the provision).            *)
LiveForksStay ==
    [][\A a \in Accounts, r \in Repos :
          r \in Live(a) /\ Tale(a) \notin host.rows
            => forge'.fork[a][r] # "none"]_vars
=============================================================================
