---------------------------- MODULE DetectedApps ----------------------------
(***************************************************************************)
(* The web apps of one project that get a tab by themselves: the broker    *)
(* reads which ports listen (rscore.port_detect), the web UI asks each for *)
(* one HEAD reply, keeps what it heard, and serves tabs and tab addresses  *)
(* (webui/server.py); the page folds every reply into the tabs and panes   *)
(* it shows (webui/static/app.js).                                         *)
(*                                                                         *)
(* The web UI is one event loop: a handler runs whole between two awaits,  *)
(* and everything else moves while it waits: the apps, the registry of     *)
(* exported ports, which the container can write too, other browsers, the  *)
(* detection that several requests share.  One browser is modelled with    *)
(* its page; all others are what they may do to the server.                *)
(*                                                                         *)
(* A definition Bad... is a faulty variant of the one after it.            *)
(***************************************************************************)
EXTENDS Naturals, FiniteSets, Sequences
LOCAL INSTANCE SequencesExt

CONSTANTS
    Ports,      \* ports of the project's container
    Pool,       \* tab addresses that other projects leave free
    Batch,      \* web checks of one detection (HTTP_CHECK_CONCURRENCY)
    Scenes      \* BOUND: how a behaviour starts, what may happen in it from
                \* outside, and how often

EventKinds == {"apps", "registry", "agent", "project", "faults", "restarts",
               "switch", "addresses", "visits", "others"}

ASSUME AppsAssumption ==
    /\ Ports \subseteq Nat \ {0}
    /\ Pool \subseteq Nat \ {0}
    /\ Batch \in Nat \ {0}
    /\ Scenes \subseteq [kinds : SUBSET EventKinds, events : Nat,
                        open : SUBSET Ports, hidden : BOOLEAN,
                        taken : SUBSET Pool]

VARIABLES
    lab,        \* the project: its sockets, its registry, what is readable
    seen,       \* the broker's _PORT_DETECT_STATE
    web,        \* the web UI: switch, snapshot, checks, addresses, files
    task,       \* the project's detection in flight
    view,       \* the browser: session, request, tabs, panes
    left        \* the events that are left, and their kinds

appVars == <<lab, seen, web, task, view, left>>

-----------------------------------------------------------------------------
(* A socket: who listens (nobody, a process, or the inner docker for a     *)
(* published port), its inode, the listener inside the container, and      *)
(* whether it speaks HTTP.                                                 *)
Closed == [how |-> "none", inode |-> 0, inner |-> 0, http |-> FALSE]
NoKey  == [inode |-> 0, inner |-> 0]
NoRow  == [key |-> NoKey, wait |-> FALSE, soft |-> FALSE]
Each(x) == [p \in Ports |-> x]
NoTask == [pc |-> "none", by |-> "page", rows |-> Each(NoRow), blind |-> FALSE,
           pending |-> {}, says |-> Each("none")]

Listening(p) == lab.sock[p].how # "none"
Heard(p) ==
    LET s == lab.sock[p] IN
    IF s.how = "none" THEN "refused"
    ELSE IF s.how = "published" /\ s.inner = 0 THEN "silent"
    ELSE IF s.http THEN "pass" ELSE "bytes"

(* The registry as its tolerant readers see it.                            *)
Registered(p) == IF lab.legible THEN lab.reg[p] ELSE "no"

AppsInit ==
    \E scene \in Scenes :
    /\ lab = [there |-> TRUE, reg |-> Each("no"), legible |-> TRUE,
              inside |-> ~scene.hidden,
              sock |-> [p \in Ports |->
                          IF p \in scene.open
                          THEN [Closed EXCEPT !.how = "direct", !.inode = 1,
                                              !.http = TRUE]
                          ELSE Closed]]
    /\ seen = [key |-> {}, pub |-> Each(0)]
    /\ web = [off |-> FALSE, offFile |-> FALSE, snap |-> Each("none"),
              checks |-> Each([key |-> NoKey, says |-> "none"]),
              tried |-> Each(NoKey), order |-> <<>>, pool |-> Pool \ scene.taken,
              slot |-> Each(0), slotFile |-> Each(0), full |-> FALSE,
              freeing |-> {}, ending |-> FALSE]
    /\ task = NoTask
    /\ view = [sess |-> "ok", paused |-> FALSE, pc |-> "idle", detect |-> TRUE,
               old |-> FALSE, marker |-> "", credit |-> FALSE,
               reg |-> Each("no"), opened |-> {}, gotTab |-> Each("none"),
               gotUrl |-> Each(0), tab |-> Each("none"), url |-> Each(0),
               front |-> 0, pane |-> Each(0)]
    /\ left = [n |-> scene.events, kinds |-> scene.kinds]

Event(kind) == /\ left.n > 0 /\ kind \in left.kinds
               /\ left' = [left EXCEPT !.n = @ - 1]

-----------------------------------------------------------------------------
(* Around the web UI                                                       *)

(* A process or the inner docker opens the port on a new socket.           *)
AppListens(p) == \E how \in {"direct", "published"}, inner \in {0, 1},
                    http \in BOOLEAN :
    /\ lab.there /\ Event("apps")
    /\ how = "direct" => inner = 0
    /\ how = "published" /\ inner = 0 => ~http
    /\ lab' = [lab EXCEPT !.sock[p] = [how |-> how, inode |-> @.inode + 1,
                                      inner |-> inner, http |-> http]]
    /\ UNCHANGED <<seen, web, task, view>>

AppCloses(p) ==
    /\ Listening(p) /\ Event("apps")
    /\ lab' = [lab EXCEPT !.sock[p] = [Closed EXCEPT !.inode =
                                                      lab.sock[p].inode]]
    /\ UNCHANGED <<seen, web, task, view>>

(* The app in a published container comes up; or another in its place.     *)
(* BOUND: not where the containers cannot be read (no check would see it). *)
InnerListens(p) == \E http \in BOOLEAN :
    /\ lab.sock[p].how = "published" /\ Event("apps")
    /\ lab.sock[p].inner > 0 => lab.inside
    /\ lab' = [lab EXCEPT !.sock[p].inner = @ + 1, !.sock[p].http = http]
    /\ UNCHANGED <<seen, web, task, view>>

(* The host's port_add, for a page or as a pass-through claim.             *)
PortAdded(p) == \E kind \in {"page", "pass"} :
    /\ lab.there /\ lab.reg[p] = "no" /\ Event("registry")
    /\ lab' = [lab EXCEPT !.reg[p] = kind]
    /\ UNCHANGED <<seen, web, task, view>>

(* port_remove: through the web UI the page port's address goes once the   *)
(* broker has answered, from the command line it stays.                    *)
PortRemoved(p) == \E relayed \in BOOLEAN :
    /\ lab.reg[p] # "no" /\ Event("registry")
    /\ lab' = [lab EXCEPT !.reg[p] = "no"]
    /\ web' = [web EXCEPT !.freeing = IF relayed /\ lab.reg[p] = "page"
                                      THEN @ \cup {p} ELSE @]
    /\ UNCHANGED <<seen, task, view>>

(* The registry lies in the workspace: the agent can garble it, and mend.  *)
AgentWrites ==
    /\ lab.there /\ Event("agent")
    /\ lab' = [lab EXCEPT !.legible = ~@]
    /\ UNCHANGED <<seen, web, task, view>>

(* destroy, through the web UI or not, and create under the same name.     *)
Destroyed == \E relayed \in BOOLEAN :
    /\ lab.there /\ Event("project")
    /\ lab' = [lab EXCEPT !.there = FALSE, !.legible = TRUE,
                          !.reg = Each("no"),
                          !.sock = [p \in Ports |-> [Closed EXCEPT !.inode =
                                                      lab.sock[p].inode]]]
    /\ web' = [web EXCEPT !.ending = relayed]
    /\ UNCHANGED <<seen, task, view>>

Recreated ==
    /\ ~lab.there /\ ~web.ending
    /\ lab' = [lab EXCEPT !.there = TRUE]
    /\ UNCHANGED <<seen, web, task, view, left>>

(* The state volume takes no more writes (_origin_table_save,              *)
(* _detection_off_save only log it), and takes them again.                 *)
VolumeFills ==
    /\ Event("faults")
    /\ web' = [web EXCEPT !.full = ~@]
    /\ UNCHANGED <<lab, seen, task, view>>

-----------------------------------------------------------------------------
(* Addresses.  A change is saved at once, unless the save fails.           *)

Kept(old, new, file) == IF new = old \/ web.full THEN file ELSE new

WithSlots(w, slot) ==
    [w EXCEPT !.slot = slot, !.slotFile = Kept(w.slot, slot, @)]
WithSwitch(w, off) ==
    [w EXCEPT !.off = off, !.offFile = IF w.full THEN @ ELSE off]

Nth(S, k) == CHOOSE n \in S : Cardinality({m \in S : m <= n}) = k

(* _origin_port_for of each of them: the one it has, or the lowest free.   *)
Reserved(want) ==
    LET free == web.pool \ {web.slot[p] : p \in Ports}
        need == {p \in want : web.slot[p] = 0}
        Turn(p) == Cardinality({q \in need : q <= p})
    IN [p \in Ports |->
          IF p \in need
          THEN IF Turn(p) <= Cardinality(free) THEN Nth(free, Turn(p)) ELSE 0
          ELSE web.slot[p]]

Freed(ports) == [p \in Ports |-> IF p \in ports THEN 0 ELSE web.slot[p]]

(* Addresses of opened apps: held, and not by a hand-added port.           *)
Opened(reg) == {p \in Ports : web.slot[p] # 0 /\ reg[p] # "page"}

(* _detection_forget without the addresses.                                *)
Forgotten(w) == [w EXCEPT !.snap = Each("none"), !.tried = Each(NoKey),
                          !.checks = Each([key |-> NoKey, says |-> "none"]),
                          !.order = <<>>]
NoCredit(pg) == [pg EXCEPT !.credit = FALSE]

(* port_remove answered: its address goes, whatever the registry says now. *)
PortFreed(p) ==
    /\ p \in web.freeing
    /\ web' = [WithSlots(web, Freed({p})) EXCEPT !.freeing = @ \ {p}]
    /\ UNCHANGED <<lab, seen, task, view, left>>

(* destroy answered: addresses, snapshot and switch go with the project.   *)
DestroyEnds ==
    /\ web.ending
    /\ LET bare == [Forgotten(WithSlots(web, Each(0))) EXCEPT !.ending = FALSE]
       IN web' = IF web.off THEN WithSwitch(bare, FALSE) ELSE bare
    /\ view' = NoCredit(view)
    /\ UNCHANGED <<lab, seen, task, left>>

(* DELETE of an opened app's address, from any browser.                    *)
BadRemoveOpened(p) ==
    /\ lab.there /\ web.slot[p] # 0 /\ Event("addresses")
    /\ Registered(p) # "page"
    /\ web' = WithSlots(web, Freed({p}))
    /\ UNCHANGED <<lab, seen, task, view>>
RemoveOpened(p) ==
    /\ lab.there /\ web.slot[p] # 0 /\ Event("addresses")
    /\ lab.legible /\ Registered(p) # "page"
    /\ web' = WithSlots(web, Freed({p}))
    /\ UNCHANGED <<lab, seen, task, view>>

Offered(p) == /\ ~web.off
              /\ web.snap[p] = "pass"
              /\ Registered(p) = "no"

(* What a browser gets at an address: the port that holds it, if that is   *)
(* hand-added, or a detected app that passed its last check.               *)
Admits(p) == /\ ~web.off
             /\ web.snap[p] = "pass"
             /\ Registered(p) # "pass"
Upstream(p) == Registered(p) = "page" \/ Admits(p)
Serves(n, p) == web.slot[p] = n /\ Upstream(p)

(* Another browser opens a detected app, or lists the tabs, which gives    *)
(* every hand-added page port its address.                                 *)
OthersOpen(p) ==
    /\ lab.there /\ Offered(p) /\ Event("addresses")
    /\ web' = WithSlots(web, Reserved({p}))
    /\ UNCHANGED <<lab, seen, task, view>>

OthersList ==
    /\ lab.there /\ Event("addresses")
    /\ web' = WithSlots(web, Reserved({p \in Ports : Registered(p) = "page"}))
    /\ UNCHANGED <<lab, seen, task, view>>

(* The switch, from any browser.  Off frees the opened apps' addresses,    *)
(* unless the registry cannot tell which those are.                        *)
Switch ==
    /\ lab.there /\ Event("switch")
    /\ IF web.off
       THEN web' = WithSwitch(web, FALSE) /\ UNCHANGED view
       ELSE LET freed == IF lab.legible THEN Opened(lab.reg) ELSE {}
            IN /\ web' = WithSwitch(Forgotten(WithSlots(web, Freed(freed))),
                                    TRUE)
               /\ view' = NoCredit(view)
    /\ UNCHANGED <<lab, seen, task>>

(* The web UI starts again from its two files, without what is gone.       *)
WebUiRestarts ==
    /\ Event("restarts")
    /\ LET bare == [Forgotten(web) EXCEPT !.freeing = {}, !.ending = FALSE]
           kept == IF lab.there THEN web.slotFile ELSE Each(0)
           off  == web.offFile /\ lab.there
       IN web' = [bare EXCEPT
                    !.slot = kept, !.off = off,
                    !.slotFile = Kept(web.slotFile, kept, @),
                    !.offFile = IF web.full THEN @ ELSE off]
    /\ task' = NoTask
    /\ view' = [NoCredit(view) EXCEPT
                   !.sess = "none",
                   !.pc = IF @ = "back" THEN @ ELSE "idle"]
    /\ UNCHANGED <<lab, seen>>

-----------------------------------------------------------------------------
(* One detection: port_detect in the broker, the web checks, the snapshot. *)

Snapshot(socks) == [p \in Ports |->
    IF socks[p].how # "none" /\ Registered(p) = "no"
    THEN [inode |-> socks[p].inode, inner |-> socks[p].inner] ELSE NoKey]

Live(rows) == {p \in Ports : rows[p].key.inode # 0}

(* A row, once it is known which ports the inner docker publishes: the key *)
(* has the inner listener only where the container can be read; a port     *)
(* waits for that listener, and its silence is soft where it is hidden.    *)
Row(key, published, readable) ==
    IF ~published THEN [key |-> [key EXCEPT !.inner = 0],
                        wait |-> FALSE, soft |-> FALSE]
    ELSE [key |-> IF readable THEN key ELSE [key EXCEPT !.inner = 0],
          wait |-> readable /\ key.inner = 0, soft |-> ~readable]

(* The batch: never tried with this key first, then the longest waiting.   *)
Order(p, key) ==
    IF web.tried[p] # key THEN 0
    ELSE CHOOSE i \in 1..Len(web.order) : web.order[i] = p

Candidates(rows) ==
    {p \in Live(rows) : ~rows[p].wait /\ web.checks[p].key # rows[p].key}

Chosen(rows) ==
    LET Ahead(q, p) == LET i == Order(q, rows[q].key)
                           j == Order(p, rows[p].key)
                       IN i < j \/ (i = j /\ q < p)
        cand == Candidates(rows)
    IN {p \in cand : Cardinality({q \in cand : Ahead(q, p)}) < Batch}

(* port_detect has answered: what is cached stands, the batch is checked.  *)
Checking(rows, blind) ==
    LET batch == Chosen(rows)
        Cached(p) == IF p \in Live(rows) /\ ~rows[p].wait
                     THEN web.checks[p].says ELSE "unchecked"
    IN
    /\ task' = [task EXCEPT !.pc = "check", !.rows = rows, !.blind = blind,
                  !.pending = batch,
                  !.says = [p \in Ports |->
                     IF p \in batch THEN "none"
                     ELSE IF p \in Candidates(rows) THEN "unchecked"
                     ELSE Cached(p)]]
    /\ web' = [web EXCEPT
                 !.tried = [p \in Ports |-> IF p \in batch THEN rows[p].key
                                            ELSE @[p]],
                 !.order = SelectSeq(@, LAMBDA p : p \notin batch)
                             \o SetToSortSeq(batch, LAMBDA p, q : p < q)]

(* The handler goes on: the registry is read here, before the awaits of    *)
(* _assemble_services.  After a 401 the page asks the plain route instead, *)
(* and pauses detection unless a sign-in came in between.                  *)
Gathers(pg, marker) ==
    LET reg == [p \in Ports |-> Registered(p)] IN
    IF marker = "unauthorized"
    THEN [pg EXCEPT !.pc = "gather", !.reg = reg, !.marker = "fallback",
                    !.paused = @ \/ ~pg.old]
    ELSE [pg EXCEPT !.pc = "gather", !.reg = reg, !.marker = marker]

(* The task ends: whoever joined it is told.  Only the session whose token *)
(* it ran under is told that this token is refused.                        *)
BadHears(marker) == marker
Hears(marker) == IF marker = "unauthorized" /\ task.by # "page"
                 THEN "unavailable" ELSE marker

Done(marker) ==
    /\ task' = NoTask
    /\ view' = IF view.pc = "wait"
               THEN Gathers(view, Hears(marker)) ELSE view

TokenDead == task.by = "page" /\ (view.sess = "dead" \/ view.old)

Refused ==
    /\ task.pc = "listen"
    /\ task.by = "others" \/ TokenDead
    /\ Done("unauthorized")
    /\ UNCHANGED <<lab, seen, web, left>>

(* A read in the container that fails or takes too long gives nothing; so  *)
(* does every one once the container is gone.                              *)
CutShort == IF task.pc = "lookup" /\ ~lab.there THEN UNCHANGED left
                                               ELSE Event("faults")

(* Not answered, no time left, a read cut short: the old view stays.       *)
ReadFails ==
    /\ task.pc \in {"listen", "lookup"}
    /\ CutShort
    /\ Done("unavailable")
    /\ UNCHANGED <<lab, seen, web>>

Listen ==
    /\ task.pc = "listen"
    /\ ~TokenDead
    /\ LET keys == Snapshot(lab.sock)
           rows == [p \in Ports |->
                      Row(keys[p], seen.pub[p] # 0,
                          lab.inside /\ seen.pub[p] = keys[p].inode)]
           ports == {<<p, keys[p].inode>> : p \in {q \in Ports :
                                                  keys[q].inode # 0}}
       IN IF ~lab.there
          THEN /\ seen' = [key |-> {}, pub |-> Each(0)]
               /\ Checking(Each(NoRow), FALSE)
          ELSE IF ports # seen.key
          THEN /\ task' = [task EXCEPT !.pc = "lookup",
                              !.rows = [p \in Ports |-> [NoRow EXCEPT
                                                         !.key = keys[p]]]]
               /\ UNCHANGED <<seen, web>>
          ELSE Checking(rows, FALSE) /\ UNCHANGED seen
    /\ UNCHANGED <<lab, view, left>>

(* The inner docker lists its containers a moment later.                   *)
LookUp ==
    /\ task.pc = "lookup" /\ lab.there
    /\ LET live == Live(task.rows)
           pub  == [p \in Ports |->
                      IF p \in live /\ lab.sock[p].how = "published"
                      THEN lab.sock[p].inode ELSE 0]
           Now(p) == [task.rows[p].key EXCEPT !.inner = lab.sock[p].inner]
       IN /\ seen' = [key |-> {<<p, task.rows[p].key.inode>> : p \in live},
                      pub |-> pub]
          /\ Checking([p \in Ports |->
                          IF p \in live THEN Row(Now(p), pub[p] # 0, lab.inside)
                          ELSE NoRow], FALSE)
    /\ UNCHANGED <<lab, view, left>>

(* It cannot: the previous view serves, and nothing of it is stored.       *)
LookUpFails ==
    /\ task.pc = "lookup" /\ lab.there /\ Event("faults")
    /\ Checking([p \in Ports |->
                    IF p \in Live(task.rows)
                    THEN Row(task.rows[p].key, seen.pub[p] # 0,
                             lab.inside
                               /\ seen.pub[p] = task.rows[p].key.inode)
                    ELSE NoRow], TRUE)
    /\ UNCHANGED <<lab, seen, view>>

(* One HEAD reply of the batch.                                            *)
Check(p) ==
    /\ task.pc = "check" /\ p \in task.pending /\ task.says[p] = "none"
    /\ task' = [task EXCEPT !.says[p] = Heard(p)]
    /\ UNCHANGED <<lab, seen, web, view, left>>

(* The container's name does not resolve: nothing accepts.                 *)
Unresolved ==
    /\ task.pc = "check" /\ task.pending # {}
    /\ \A p \in task.pending : task.says[p] = "none"
    /\ Event("faults")
    /\ task' = [task EXCEPT !.says = [p \in Ports |->
                  IF p \in task.pending THEN "refused" ELSE @[p]]]
    /\ UNCHANGED <<lab, seen, web, view>>

(* Outcomes that stand until the sockets change.                           *)
BadCacheable(says, row, blind) == says # "refused"
Cacheable(says, row, blind) ==
    /\ says # "refused"
    /\ says = "silent" => ~blind /\ ~row.soft

(* All have answered.  Switched off or destroyed meanwhile: store nothing. *)
Store ==
    /\ task.pc = "check"
    /\ \A p \in task.pending : task.says[p] # "none"
    /\ IF web.off THEN Done("off") /\ UNCHANGED web
       ELSE IF ~lab.there THEN Done("unavailable") /\ UNCHANGED web
       ELSE
         LET live == Live(task.rows)
             None == [key |-> NoKey, says |-> "none"]
         IN /\ web' = [web EXCEPT
                  !.snap = [p \in Ports |->
                     IF p \notin live THEN "none"
                     ELSE IF task.says[p] = "pass" THEN "pass" ELSE "fail"],
                  !.checks = [p \in Ports |->
                     IF p \notin live THEN None
                     ELSE IF p \notin task.pending THEN @[p]
                     ELSE IF Cacheable(task.says[p], task.rows[p], task.blind)
                     THEN [key |-> task.rows[p].key, says |-> task.says[p]]
                     ELSE None],
                  !.tried = [p \in Ports |-> IF p \in live THEN @[p] ELSE NoKey],
                  !.order = SelectSeq(@, LAMBDA p : p \in live)]
            /\ task' = NoTask
            /\ view' = IF view.pc = "wait"
                       THEN [Gathers(view, "") EXCEPT !.credit = ~view.old]
                       ELSE NoCredit(view)
    /\ UNCHANGED <<lab, seen, left>>

OthersAsk ==
    /\ lab.there /\ ~web.off /\ task.pc = "none" /\ Event("others")
    /\ task' = [NoTask EXCEPT !.pc = "listen", !.by = "others"]
    /\ UNCHANGED <<lab, seen, web, view>>

(* A restarted broker has no sessions and has looked up nothing.           *)
BrokerRestarts ==
    /\ Event("restarts")
    /\ seen' = [key |-> {}, pub |-> Each(0)]
    /\ LET dead == IF view.sess = "ok" THEN "dead" ELSE view.sess
           cut  == task.pc \in {"listen", "lookup"}
       IN /\ task' = IF cut THEN NoTask ELSE task
          /\ view' = IF cut /\ view.pc = "wait"
                     THEN [Gathers(view, "unavailable") EXCEPT !.sess = dead]
                     ELSE [view EXCEPT !.sess = dead]
    /\ UNCHANGED <<lab, web>>

-----------------------------------------------------------------------------
(* The page.  One request at a time: the refresh guards itself with        *)
(* detectInFlight, and BOUND: a visit's listing does not overlap it.       *)

Ask ==
    /\ view.pc = "idle" /\ lab.there
    /\ LET asked == [view EXCEPT !.old = FALSE] IN
       IF view.paused THEN view' = Gathers(asked, "fallback") /\ UNCHANGED task
       ELSE IF view.sess = "none"
       THEN view' = Gathers(asked, "unauthorized") /\ UNCHANGED task
       ELSE IF web.off
       THEN view' = Gathers(asked, "off") /\ UNCHANGED task
       ELSE IF ~view.detect
       THEN /\ view' = Gathers(asked, IF view.credit THEN "" ELSE "withheld")
            /\ UNCHANGED task
       ELSE /\ view' = [asked EXCEPT !.pc = "wait"]
            /\ task' = IF task.pc # "none" THEN task
                       ELSE [NoTask EXCEPT !.pc = "listen"]
    /\ UNCHANGED <<lab, seen, web, left>>

(* After the last await: addresses, snapshot and opened apps as they are.  *)
Reply ==
    /\ view.pc = "gather"
    /\ LET hand == {p \in Ports : view.reg[p] = "page"}
           det  == {p \in Ports : view.marker = "" /\ web.snap[p] = "pass"
                                                  /\ view.reg[p] = "no"}
           slot == Reserved(hand)
       IN /\ web' = WithSlots(web, slot)
          /\ view' = [view EXCEPT
                !.pc = "back",
                !.gotTab = [p \in Ports |-> IF p \in hand THEN "hand"
                                            ELSE IF p \in det THEN "detected"
                                            ELSE "none"],
                !.gotUrl = [p \in Ports |-> IF p \in hand \cup det THEN slot[p]
                                            ELSE 0],
                !.opened = IF lab.legible
                           THEN {web.slot[p] : p \in Opened(view.reg)} ELSE {},
                !.reg = Each("no")]
    /\ UNCHANGED <<lab, seen, task, left>>

(* mergeDetectedTabs: the tabs of the reply, and of those detected before  *)
(* the ones that the reply cannot speak for or that are on screen.  A tab  *)
(* kept keeps its address only while that is an opened app's.              *)
Merged ==
    LET unknown == view.marker \in {"busy", "unavailable", "withheld"}
        Keeps(p) == /\ view.gotTab[p] = "none" /\ view.detect
                    /\ view.marker # "off"
                    /\ view.tab[p] \in {"detected", "stopped"}
                    /\ unknown \/ view.front = p
        Lost(p) == /\ view.marker # "fallback"
                   /\ view.url[p] \notin view.opened
    IN [tab |-> [p \in Ports |->
                   IF ~Keeps(p) THEN view.gotTab[p]
                   ELSE IF view.marker = "" THEN "stopped" ELSE view.tab[p]],
        url |-> [p \in Ports |->
                   IF ~Keeps(p) THEN view.gotUrl[p]
                   ELSE IF Lost(p) THEN 0 ELSE view.url[p]]]

(* panesToClose: panes whose tab lost its address or has another, and      *)
(* those whose tab is gone by a reply that knows.                          *)
Closes(p, fresh) ==
    IF fresh.tab[p] # "none" THEN fresh.url[p] # view.pane[p]
    ELSE \/ view.tab[p] \notin {"detected", "stopped"}
         \/ view.marker \in {"", "off"}

(* A reply that changes no tab touches no pane, except on a visit.  The    *)
(* pane on screen reopens at the new address.                              *)
Land ==
    /\ view.pc = "back"
    /\ LET fresh == Merged
           same  == /\ view.detect
                    /\ fresh = [tab |-> view.tab, url |-> view.url]
           Pane(p) == IF view.pane[p] = 0 \/ ~Closes(p, fresh)
                      THEN view.pane[p]
                      ELSE IF view.front = p THEN fresh.url[p] ELSE 0
       IN view' = [view EXCEPT
            !.pc = "idle", !.detect = TRUE, !.marker = "", !.opened = {},
            !.gotTab = Each("none"), !.gotUrl = Each(0),
            !.tab = fresh.tab, !.url = fresh.url,
            !.pane = IF same THEN @ ELSE [p \in Ports |-> Pane(p)],
            !.front = IF @ # 0 /\ fresh.tab[@] = "none" THEN 0 ELSE @]
    /\ UNCHANGED <<lab, seen, web, task, left>>

(* A click on the tab.  A detected app without an address reserves one.    *)
(* BOUND: no reply lands between a click and the pane.                     *)
Open(p) ==
    /\ view.tab[p] # "none" /\ Event("addresses")
    /\ IF view.url[p] # 0
       THEN /\ view' = [view EXCEPT !.front = p,
                          !.pane[p] = IF @ = 0 THEN view.url[p] ELSE @]
            /\ UNCHANGED web
       ELSE IF view.tab[p] = "hand"
       THEN view' = [view EXCEPT !.front = p] /\ UNCHANGED web
       ELSE IF view.sess = "none"
       THEN view' = [view EXCEPT !.front = p, !.paused = TRUE] /\ UNCHANGED web
       ELSE LET slot == IF Offered(p) /\ lab.there THEN Reserved({p})
                        ELSE web.slot
                got  == IF Offered(p) THEN slot[p] ELSE 0
            IN /\ web' = WithSlots(web, slot)
               /\ view' = [view EXCEPT !.front = p, !.pane[p] = got,
                                       !.url[p] = got]
    /\ UNCHANGED <<lab, seen, task>>

LookAway ==
    /\ view.front # 0 /\ Event("visits")
    /\ view' = [view EXCEPT !.front = 0]
    /\ UNCHANGED <<lab, seen, web, task>>

(* Another project and back: the listing of a visit runs no detection and  *)
(* carries no tab over.                                                    *)
Visit ==
    /\ view.pc = "idle" /\ Event("visits")
    /\ view' = [view EXCEPT !.detect = FALSE, !.front = 0]
    /\ UNCHANGED <<lab, seen, web, task>>

SignIn ==
    /\ view.sess # "ok" /\ Event("visits")
    /\ view' = [NoCredit(view) EXCEPT !.sess = "ok", !.paused = FALSE,
                                      !.old = view.pc # "idle"]
    /\ UNCHANGED <<lab, seen, web, task>>

-----------------------------------------------------------------------------
Outside ==
    \/ \E p \in Ports : AppListens(p) \/ AppCloses(p) \/ InnerListens(p)
                        \/ PortAdded(p) \/ PortRemoved(p)
    \/ AgentWrites \/ Destroyed \/ Recreated \/ VolumeFills
    \/ WebUiRestarts \/ BrokerRestarts

Operators ==
    \/ \E p \in Ports : RemoveOpened(p) \/ OthersOpen(p) \/ Open(p)
    \/ OthersList \/ OthersAsk \/ Switch \/ LookAway \/ Visit \/ SignIn

Detection == \/ Listen \/ LookUp \/ LookUpFails \/ Refused \/ ReadFails
             \/ Unresolved \/ Store \/ \E p \in Ports : Check(p)

PageStep == Ask \/ Reply \/ Land
Relayed  == DestroyEnds \/ \E p \in Ports : PortFreed(p)

AppsNext == Outside \/ Operators \/ Detection \/ PageStep \/ Relayed

(* The event loop runs what it has, the broker answers, a visible page     *)
(* refreshes (PROBE_INTERVAL_MS).                                          *)
AppsFair == WF_appVars(Detection) /\ WF_appVars(PageStep) /\ WF_appVars(Relayed)

AppsSpec == AppsInit /\ [][AppsNext]_appVars /\ AppsFair

-----------------------------------------------------------------------------
(* Detection of a page pauses only with the end of its own session: a      *)
(* refused token is news for the session whose detection ran under it, not *)
(* for those that joined, and a refusal that comes after a new sign-in     *)
(* pauses nothing (_detect_shared, fetchProjectTabs).                      *)
PausedMeansOwn == view.paused => view.sess # "ok"

(* The address of a hand-added port that stays registered stays too: over  *)
(* switches, Removes, restarts, and a registry that cannot be read.  Only  *)
(* a removal still being answered takes it (the port was added again), or  *)
(* a restart after a save that failed.                                     *)
AddressesKept ==
    [][\A p \in Ports :
          lab.reg[p] = "page" /\ lab'.reg[p] = "page" /\ web.slot[p] # 0
          => \/ web'.slot[p] = web.slot[p]
             \/ p \in web.freeing
             \/ web.slotFile # web.slot]_appVars

(* Once nothing more happens, the page shows what is there: a tab for      *)
(* every hand-added port and for every app that answers HTTP, none for     *)
(* another port (one on screen may stay), no tab or pane at an address     *)
(* that is another's, and behind every pane its app; whatever was cached,  *)
(* refused, silent, cut short, shared with others or switched in between.  *)
Answers(p) == Heard(p) = "pass"
Shows(p) ==
    LET onScreen == view.front = p /\ view.tab[p] \in {"detected", "stopped"} IN
    /\ IF Registered(p) = "page" THEN view.tab[p] = "hand"
       ELSE IF web.off THEN view.tab[p] = "none"
       ELSE IF view.paused \/ ~Answers(p) \/ Registered(p) = "pass"
       THEN view.tab[p] = "none" \/ onScreen
       ELSE view.tab[p] = "detected"
    /\ view.tab[p] # "none" /\ ~view.paused
       => {view.url[p], view.pane[p]} \subseteq {0, web.slot[p]}
    /\ view.tab[p] \in {"hand", "detected"} /\ view.pane[p] # 0 /\ ~view.paused
       => Serves(view.pane[p], p)

PagesSettle == <>[](lab.there => \A p \in Ports : Shows(p))
=============================================================================
