---------------------------- MODULE BrokerFront -----------------------------
(***************************************************************************)
(* The broker daemon as the web UI and its page see it: `research broker`  *)
(* start and stop (cli/broker.py), the socket that serves one request at a *)
(* time, the web UI's relays (webui/server.py) with their bounds and their *)
(* sessions, and the page (static/app.js), which tails an op to its end.   *)
(* Ops of the lanes of BuildLane are answered as soon as their child is    *)
(* spawned; an inline op (create, destroy) is served to its end under the  *)
(* host-wide flock, as a background task of the web UI.                    *)
(*                                                                         *)
(* BOUND: a fault of `aim` strikes once.  A request waits at most its      *)
(* client's bound, which may pass at any time (GiveUp).                    *)
(*                                                                         *)
(* A definition Bad... is a faulty variant of the one after it.  Nothing   *)
(* uses it; it is there to show that a property can fail.                  *)
(***************************************************************************)
EXTENDS BuildLane

CONSTANTS
    Inline,     \* ops of create and destroy
    Aims        \* BOUND: the ops asked for and the faults that may strike

Faults == {"kill", "lock", "crash", "stop", "web", "fetch", "raise",
           "logout"}
All    == Ops \cup Inline

ASSUME FrontAssumption ==
    /\ Inline \cap Ops = {} /\ Nobody \notin Inline
    /\ Aims \subseteq [ops : SUBSET All, faults : SUBSET Faults]

VARIABLES
    aim,        \* what this behaviour may still do
    brk,        \* the daemon broker.pid names, and the inline op it runs
    old,        \* the inline op of a daemon that `stop` gave up on
    sock,       \* broker.sock leads to the daemon of broker.pid
    auth,       \* the web UI has a session; the daemon knows its token
    void,       \* ops sent with a token the daemon does not know
    req,        \* per op: its call to the broker
    run,        \* per inline op: its entry in OP_RUNS
    rec,        \* per inline op: the terminal record of its view log
    page        \* per op: what the page does or shows

front == <<aim, brk, old, sock, auth, void, req, run, rec, page>>
vars  == <<lanes, front>>

-----------------------------------------------------------------------------
Waiting == {"post", "poll", "probe", "last"}
Ends    == {"ok", "failed", "refused", "unreach"}
Shown   == Ends \cup {"gone", "blind", "away"}
Calls   == {o \in All : req[o] \in {"queued", "orphan"}}
Pending == Calls \ {brk.run, old, dmn.op}
Free    == brk.pc = "up" /\ brk.run = Nobody /\ dmn.pc = "idle"
Strikes(fault) ==
    /\ fault \in aim.faults
    /\ aim' = [aim EXCEPT !.faults = @ \ {fault}]

FrontInit ==
    /\ LanesInit
    /\ aim \in Aims
    /\ brk = [pc |-> "up", run |-> Nobody] /\ sock = TRUE
    /\ old = Nobody
    /\ auth = [web |-> TRUE, good |-> TRUE] /\ void = {}
    /\ req = [o \in All |-> "none"] /\ page = req
    /\ run = [o \in Inline |-> "none"] /\ rec = run

-----------------------------------------------------------------------------
(* The web UI's calls                                                      *)

(* The clients of `ops` that still wait are told `what`: an inline op's    *)
(* background task notes it in OP_RUNS (_run_op), a lane op's request      *)
(* answers the page (_lane_relay, broker_build_handler).                   *)
Noted(told, what) ==
    run' = [o \in Inline |-> IF o \in told THEN what ELSE run[o]]
Replied(told, what) ==
    page' = [o \in All |-> IF o \in told \ Inline THEN what ELSE page[o]]

Tell(ops, what) ==
    LET told == {o \in ops : req[o] = "queued"}
    IN  Noted(told, what) /\ Replied(told, what)

Answered(ops, what) ==
    /\ Tell(ops, what)
    /\ req' = [o \in All |-> IF o \in ops THEN "done" ELSE req[o]]

(* A call that finds nobody at the socket has failed at once.              *)
Reached == sock /\ brk.pc # "down"
Send(o) ==
    /\ o \in aim.ops /\ page[o] = "none" /\ auth.web
    /\ req' = [req EXCEPT ![o] = IF Reached THEN "queued" ELSE "done"]
    /\ void' = IF auth.good THEN void ELSE void \cup {o}
    /\ UNCHANGED <<lanes, aim, brk, old, sock, auth, rec>>

FireInline(o) ==
    /\ o \in Inline /\ Send(o)
    /\ run' = [run EXCEPT ![o] = IF Reached THEN "running" ELSE "unreach"]
    /\ page' = [page EXCEPT ![o] = "poll"]

FireLane(o) ==
    /\ o \in Ops /\ Send(o)
    /\ page' = [page EXCEPT ![o] = IF Reached THEN "post" ELSE "unreach"]
    /\ UNCHANGED run

(* The bound passes; the request stays where it is and is still served.    *)
GiveUp(o) ==
    /\ req[o] = "queued"
    /\ Tell({o}, "unreach")
    /\ req' = [req EXCEPT ![o] = "orphan"]
    /\ UNCHANGED <<lanes, aim, brk, old, sock, auth, void, rec>>

(* Sessions and OP_RUNS live in the web UI's memory.                       *)
WebRestarts ==
    /\ Strikes("web")
    /\ auth' = [auth EXCEPT !.web = FALSE]
    /\ req' = [o \in All |-> IF req[o] = "queued" THEN "orphan" ELSE req[o]]
    /\ run' = [o \in Inline |-> IF run[o] = "none" THEN "none" ELSE "lost"]
    /\ page' = [o \in All |-> IF page[o] = "post" THEN "unreach" ELSE page[o]]
    /\ UNCHANGED <<lanes, brk, old, sock, void, rec>>

Login ==
    /\ ~auth.web /\ Free /\ sock
    /\ auth' = [web |-> TRUE, good |-> TRUE]
    /\ UNCHANGED <<lanes, aim, brk, old, sock, void, req, run, rec, page>>

(* The call waits its turn behind what was sent before it.                 *)
Logout ==
    /\ Strikes("logout")
    /\ auth.web /\ Free /\ Pending = {}
    /\ auth' = [web |-> FALSE, good |-> FALSE]
    /\ UNCHANGED <<lanes, brk, old, sock, void, req, run, rec, page>>

-----------------------------------------------------------------------------
(* The daemon's loop                                                       *)

(* dispatch: no session token it knows; a build already runs; the flock is *)
(* taken, by the verb of a daemon that has not ended.                      *)
Refuse(o) ==
    /\ Free /\ o \in Pending
    /\ \/ o \in void
       \/ o \in Builds /\ Busy
       \/ o \in Inline /\ old # Nobody
    /\ Answered({o}, "refused")
    /\ auth' = IF o \in void /\ ~auth.good /\ req[o] = "queued"
               THEN [auth EXCEPT !.web = FALSE] ELSE auth
    /\ UNCHANGED <<lanes, aim, brk, old, sock, void, rec>>

Accept(o) ==
    /\ Free /\ o \in (Pending \cap Ops) \ void
    /\ Request(o)
    /\ UNCHANGED front

SpawnOp == brk.pc # "down" /\ Spawn /\ UNCHANGED front

LockOp ==
    /\ WriteLock
    /\ Answered({dmn.op}, "poll")
    /\ UNCHANGED <<aim, brk, old, sock, auth, void, rec>>

(* The error escapes dispatch; the connection closes without an answer.    *)
LockOpFails ==
    /\ Strikes("lock")
    /\ WriteLockFails
    /\ Answered({dmn.op}, "unreach")
    /\ UNCHANGED <<brk, old, sock, auth, void, rec>>

Begin(o) ==
    /\ Free /\ o \in (Pending \cap Inline) \ void /\ old = Nobody
    /\ brk' = [brk EXCEPT !.run = o]
    /\ child' = Reap(child)
    /\ UNCHANGED <<dmn, build, own, accepted, log, lost>>
    /\ UNCHANGED <<aim, old, sock, auth, void, req, run, rec, page>>

OtherCall == Free /\ OtherVerb /\ UNCHANGED front

(* The verb succeeds, or fails as verbs do; the record goes to the view    *)
(* log, then the reply.                                                    *)
Served(o) ==
    /\ \E end \in {"done", "failed"} :
          /\ rec' = [rec EXCEPT ![o] = end]
          /\ Answered({o}, IF end = "done" THEN "ok" ELSE "failed")
    /\ UNCHANGED aim

(* Any other exception: no record, and the connection just closes.         *)
Raised(o) ==
    /\ Strikes("raise")
    /\ Answered({o}, "unreach")
    /\ UNCHANGED rec

End ==
    /\ brk.run # Nobody
    /\ Served(brk.run) \/ Raised(brk.run)
    /\ brk' = [brk EXCEPT !.run = Nobody]
    /\ UNCHANGED <<lanes, old, sock, auth, void>>

-----------------------------------------------------------------------------
(* The daemon's life: start, stop, serve                                   *)

(* The backlog is closed with the listener.                                *)
Down(kept) ==
    /\ brk' = [pc |-> "down", run |-> Nobody] /\ sock' = FALSE
    /\ Answered(Calls \ kept, "unreach")

Stop ==
    /\ Strikes("stop") /\ brk.pc = "up"
    /\ brk' = [brk EXCEPT !.pc = "going"]
    /\ UNCHANGED <<lanes, old, sock, auth, void, req, run, rec, page>>

StopDone ==
    /\ brk.pc = "going" /\ brk.run = Nobody /\ dmn.pc = "idle"
    /\ Down({old})
    /\ child' = Reap(child)
    /\ UNCHANGED <<dmn, build, own, accepted, log, lost>>
    /\ UNCHANGED <<aim, old, auth, void, rec>>

(* stop waits BROKER_WAIT_S, then removes pidfile and socket all the same. *)
StopGivesUp ==
    /\ brk.pc = "going" /\ brk.run # Nobody /\ old = Nobody
    /\ old' = brk.run
    /\ Down({brk.run})
    /\ UNCHANGED <<lanes, aim, auth, void, rec>>

(* The daemon left behind ends its verb and, on its way out, unlinks the   *)
(* socket by its name.                                                     *)
OldEnds ==
    /\ old # Nobody
    /\ Served(old)
    /\ old' = Nobody /\ sock' = FALSE
    /\ UNCHANGED <<lanes, brk, auth, void>>

(* The children it leaves are init's, which waits on them.                 *)
Crash ==
    /\ Strikes("crash") /\ brk.pc # "down"
    /\ Down({old})
    /\ dmn' = [pc |-> "idle", op |-> Nobody]
    /\ child' = Reap(child)
    /\ UNCHANGED <<build, own, accepted, log, lost>>
    /\ UNCHANGED <<old, auth, void, rec>>

Start ==
    /\ brk.pc = "down"
    /\ brk' = [brk EXCEPT !.pc = "up"] /\ sock' = TRUE
    /\ auth' = [auth EXCEPT !.good = FALSE]
    /\ UNCHANGED <<lanes, aim, old, void, req, run, rec, page>>

-----------------------------------------------------------------------------
(* The page                                                                *)

ByRecord(record) == IF record = "done" THEN "ok" ELSE "failed"
Turn(o, to) ==
    /\ page' = [page EXCEPT ![o] = to]
    /\ UNCHANGED <<lanes, brk, old, sock, void, req, run, rec>>

(* A read of the view log (and of OP_RUNS, which rules for an inline op    *)
(* until the web UI has forgotten it).  A page without a session leaves    *)
(* for the login.                                                          *)
Poll(o) ==
    /\ page[o] = "poll"
    /\ \/ ~auth.web /\ Turn(o, "away")
       \/ /\ auth.web /\ o \in Ops
          /\ Turn(o, IF log[o] # "none" THEN ByRecord(log[o]) ELSE "probe")
       \/ auth.web /\ o \in Inline /\ run[o] \in Ends /\ Turn(o, run[o])
       \/ /\ auth.web /\ o \in Inline /\ run[o] = "lost" /\ rec[o] # "none"
          /\ Turn(o, ByRecord(rec[o]))
    /\ UNCHANGED <<aim, auth>>

(* /alive, answered when the daemon comes to it; no answer reads as alive. *)
Probe(o) ==
    /\ page[o] = "probe"
    /\ IF auth.web /\ Free /\ sock
       THEN /\ Turn(o, IF auth.good /\ ~OpAlive(o) THEN "last" ELSE "poll")
            /\ auth' = [auth EXCEPT !.web = auth.good]
       ELSE Turn(o, "poll") /\ UNCHANGED auth
    /\ UNCHANGED aim

(* Not alive is the end: what the log said before the question counts.     *)
BadLastLook(o) ==
    /\ page[o] = "last"
    /\ Turn(o, "gone")
    /\ UNCHANGED <<aim, auth>>

(* Not alive: the log is read once more.                                   *)
LastLook(o) ==
    /\ page[o] = "last" /\ auth.web
    /\ Turn(o, IF log[o] # "none" THEN ByRecord(log[o]) ELSE "gone")
    /\ UNCHANGED <<aim, auth>>

(* That read fails and nobody looks at it: the page says "interrupted" in  *)
(* the same words ("blind" tells the two apart here).                      *)
LastFails(o) ==
    /\ page[o] = "last"
    /\ (~auth.web /\ UNCHANGED aim) \/ Strikes("fetch")
    /\ Turn(o, "blind")
    /\ UNCHANGED auth

-----------------------------------------------------------------------------
LaneKilled(o) ==
    /\ Strikes("kill") /\ Killed(o)
    /\ UNCHANGED <<brk, old, sock, auth, void, req, run, rec, page>>
Lane(o) == ChildStep(o) /\ UNCHANGED front

Serve(o) == Refuse(o) \/ Accept(o) \/ Begin(o)
Look(o)  == Poll(o) \/ Probe(o) \/ LastLook(o) \/ LastFails(o)

(* What goes on by itself, and comes to an end.                            *)
Progress ==
    \/ \E o \in All : GiveUp(o) \/ Serve(o)
    \/ \E o \in Ops : Lane(o)
    \/ SpawnOp \/ LockOp \/ End \/ StopDone \/ OldEnds \/ Start

Next ==
    \/ Progress \/ OtherCall
    \/ \E o \in Inline : FireInline(o)
    \/ \E o \in Ops : FireLane(o) \/ LaneKilled(o)
    \/ \E o \in All : Look(o)
    \/ LockOpFails \/ Stop \/ StopGivesUp \/ Crash
    \/ WebRestarts \/ Login \/ Logout

(* Children run on and every verb ends; the daemon comes to every request  *)
(* and goes when told, and one that is down is started; other verbs keep   *)
(* coming (the page polls the project list) and every page goes on looking.*)
Fairness ==
    /\ WF_vars(Progress) /\ WF_vars(OtherCall)
    /\ \A o \in All : WF_vars(Look(o))

Spec     == FrontInit /\ [][Next]_vars
FairSpec == Spec /\ Fairness

-----------------------------------------------------------------------------
(* Properties                                                              *)

(* What the page ends up saying is what happened, whatever restarts and    *)
(* dies meanwhile: done and failed are what the verb came to, interrupted  *)
(* is a child that is dead and left no record, refused never began.        *)
(* "Unreachable" says nothing: the op may run to its end unseen.           *)
ShownTrue ==
    AllLocked =>
        /\ \A o \in Ops :
              /\ page[o] = "ok" => log[o] = "done"
              /\ page[o] = "failed" => log[o] = "failed"
              /\ page[o] = "gone" =>
                    log[o] = "none" /\ child[o] \in {"exit", "zombie", "reaped"}
              /\ page[o] = "refused" => child[o] = "none"
        /\ \A o \in Inline :
              /\ page[o] = "ok" => rec[o] = "done"
              /\ page[o] = "failed" => rec[o] = "failed"
              /\ page[o] = "refused" => rec[o] = "none" /\ o # brk.run

(* "One project action at a time": a daemon that was started while its     *)
(* predecessor still runs a create or destroy runs none beside it; and one *)
(* build at a time, that of build.lock.                                    *)
OneAtATime ==
    /\ brk.run # Nobody => old = Nobody
    /\ OneBuild

(* No dialog waits for ever, whatever restarts and dies, unless the socket *)
(* of a running daemon is gone, or the web UI forgot an inline op that has *)
(* no record either; nor does the lane stay busy.                          *)
EachFreed ==
    /\ \A o \in All :
          page[o] \in Waiting ~>
              \/ page[o] \in Shown
              \/ brk.pc = "up" /\ ~sock
              \/ o \in Inline /\ run[o] = "lost"
    /\ LaneFreed
=============================================================================
