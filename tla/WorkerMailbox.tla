---------------------------- MODULE WorkerMailbox ---------------------------
(***************************************************************************)
(* One worker container as its bind-mount shows it: the entrypoint's inbox *)
(* and wake-up loop (agent/entrypoint.worker.sh), `rs-worker message`      *)
(* writing into the inbox, and the state resolver the supervisor's         *)
(* commands and its Stop hook share (cli/rs_worker.py, rs_audit_stop.py).  *)
(* They meet only in files, without a lock, so each file operation is a    *)
(* step of its own.                                                        *)
(*                                                                         *)
(* An inbox file is named by a pair <<second, due>>: due is 0 for a        *)
(* message (msg_<second>.md) and the due time for a wake-up that was moved *)
(* in (msg_<second>_wake_<due>.md).  In the C locale the files sort as the *)
(* pairs do.                                                               *)
(*                                                                         *)
(* A definition Bad... is a faulty variant of the one after it.  Nothing   *)
(* uses it; it is there to show that a property can fail.                  *)
(***************************************************************************)
EXTENDS Integers, FiniteSets

CONSTANTS
    Msgs,         \* the messages the supervisor sends, one command each
    MaxTime,      \* bound on the clock, in seconds
    Overlap,      \* two `rs-worker message` commands may run at once
    CanDie,       \* the container may be killed, stopped or restarted
    Aims,         \* BOUND: "loop", or "watch": one message, with the
                  \* resolver called while all this goes on
    Empty         \* the text of an inbox file that is created but not written

ASSUME MailboxAssumption ==
    /\ MaxTime \in Nat
    /\ Overlap \in BOOLEAN /\ CanDie \in BOOLEAN
    /\ Aims \subseteq {"loop", "watch"}
    /\ Empty \notin Msgs /\ Msgs \cap Nat = {}

VARIABLES
    now,        \* date +%s
    ctr,        \* docker status: running or exited
    at,         \* the entrypoint's next command
    term,       \* a SIGTERM is pending
    sentinel,   \* which of WAITING, DONE, FAILED exist
    inbox,      \* name, <<second, nth>> -> a message, a wake-up's due time,
                \* or Empty
    wake,       \* the due times with a wake/<due>.md
    polled,     \* the loop's $now
    cur,        \* the loop's $msg
    given,      \* the prompt claude was started with
    post,       \* per message: its command's step and the path it chose
    rd,         \* one resolver call: its step, verdict and history
    ran,        \* history: the messages and due times claude was run with
    scheduled,  \* history: the due times a wake file was ever written for
    aim         \* which of Aims this behaviour has

entry == <<ctr, at, term, sentinel, polled, cur, given>>
box   == <<inbox, wake>>
hist  == <<ran, scheduled, aim>>
vars  == <<now, ctr, at, term, sentinel, inbox, wake, polled, cur, given, post,
           rd, ran, scheduled, aim>>

-----------------------------------------------------------------------------
Seconds == 1..MaxTime
NoName  == <<0, 0>>
Nothing == 0

Before(m, n) == m[1] < n[1] \/ (m[1] = n[1] /\ m[2] < n[2])
Unread       == DOMAIN inbox
Oldest       == CHOOSE n \in Unread : \A m \in Unread \ {n} : Before(n, m)
Put(n, text) == inbox' = [m \in Unread \cup {n} |->
                            IF m = n THEN text ELSE inbox[m]]
Take(n)      == [m \in Unread \ {n} |-> inbox[m]]

(* Inside the foreground claude bash defers its traps.                     *)
InClaude == at \in {"task", "run"}

Init ==
    /\ now = 1
    /\ ctr = "running" /\ at = "boot" /\ term = FALSE
    /\ sentinel = {}
    /\ inbox = << >> /\ wake = {}
    /\ polled = 0 /\ cur = NoName /\ given = Nothing
    /\ post = [m \in Msgs |-> [pc |-> "new", path |-> NoName]]
    /\ rd = [pc |-> "idle", verdict |-> "none", owed |-> {}]
    /\ ran = {} /\ scheduled = {}
    /\ aim \in Aims

Tick ==
    /\ aim = "loop" /\ now < MaxTime
    /\ now' = now + 1
    /\ UNCHANGED <<entry, box, post, rd, hist>>

-----------------------------------------------------------------------------
(* The entrypoint.  A step is taken only while no trap is due.             *)

Step(from, to) ==
    /\ ctr = "running" /\ ~term
    /\ at = from /\ at' = to

Boot ==
    /\ Step("boot", "task")
    /\ sentinel' = {}
    /\ polled' = 0 /\ cur' = NoName /\ given' = Nothing
    /\ UNCHANGED <<now, ctr, term, box, post, rd, hist>>

(* Claude ends its turn; the next command is the one after run_claude, or  *)
(* the trap when a SIGTERM came in meanwhile.                              *)
ClaudeEnds ==
    /\ ctr = "running" /\ InClaude
    /\ given # Empty \/ term
    /\ at' = IF at = "task" THEN "mark" ELSE "rmmsg"
    /\ ran' = ran \cup ({given} \ {Nothing, Empty})
    /\ UNCHANGED <<now, ctr, term, sentinel, box, polled, cur, given, post, rd,
                   scheduled, aim>>

(* launch_failed: claude exits non-zero without a result event.  Started   *)
(* with an empty prompt it always does.                                    *)
ClaudeFails ==
    /\ ctr = "running" /\ ~term /\ InClaude
    /\ ctr' = "exited" /\ at' = "dead"
    /\ sentinel' = sentinel \cup {"FAILED"}
    /\ UNCHANGED <<now, term, box, polled, cur, given, post, rd, hist>>

Mark ==
    /\ Step("mark", "poll")
    /\ sentinel' = sentinel \cup {"WAITING"}
    /\ UNCHANGED <<now, ctr, term, box, polled, cur, given, post, rd, hist>>

Poll ==
    /\ Step("poll", "pick")
    /\ polled' = now
    /\ UNCHANGED <<now, ctr, term, sentinel, box, cur, given, post, rd, hist>>

Due == {d \in wake : d <= polled}

MoveWake ==
    /\ Step("pick", "pick")
    /\ \E d \in Due : /\ Put(<<polled, d>>, d)
                      /\ wake' = wake \ {d}
    /\ UNCHANGED <<now, ctr, term, sentinel, polled, cur, given, post, rd,
                   hist>>

(* Takes any message.                                                      *)
BadPick ==
    /\ Due = {}
    /\ \/ Step("pick", "clear") /\ cur' \in Unread
       \/ Unread = {} /\ Step("pick", "poll") /\ cur' = NoName
    /\ UNCHANGED <<now, ctr, term, sentinel, box, polled, given, post, rd,
                   hist>>

(* The oldest name, or nothing and another round after the sleep.          *)
Pick ==
    /\ Due = {}
    /\ \/ Unread # {} /\ Step("pick", "clear") /\ cur' = Oldest
       \/ Unread = {} /\ Step("pick", "poll")  /\ cur' = NoName
    /\ UNCHANGED <<now, ctr, term, sentinel, box, polled, given, post, rd,
                   hist>>

Clear ==
    /\ Step("clear", "prompt")
    /\ sentinel' = sentinel \ {"WAITING"}
    /\ UNCHANGED <<now, ctr, term, box, polled, cur, given, post, rd, hist>>

(* claude --print "$(cat "$msg")"                                          *)
Prompt ==
    /\ Step("prompt", "run")
    /\ given' = inbox[cur]
    /\ UNCHANGED <<now, ctr, term, sentinel, box, polled, cur, post, rd, hist>>

(* Empties the inbox.                                                      *)
BadRemoveMsg ==
    /\ Step("rmmsg", "mark")
    /\ inbox' = << >>
    /\ UNCHANGED <<now, ctr, term, sentinel, wake, polled, cur, given, post,
                   rd, hist>>

RemoveMsg ==
    /\ Step("rmmsg", "mark")
    /\ inbox' = Take(cur)
    /\ UNCHANGED <<now, ctr, term, sentinel, wake, polled, cur, given, post,
                   rd, hist>>

(* In its turn the agent may write itself a wake-up, for now or later.     *)
AgentSchedules ==
    /\ ctr = "running" /\ InClaude /\ given # Empty
    /\ \E d \in Seconds \ scheduled :
          /\ aim = "loop" \/ d = now
          /\ wake' = wake \cup {d} /\ scheduled' = scheduled \cup {d}
    /\ UNCHANGED <<now, entry, inbox, post, rd, ran, aim>>

Entrypoint ==
    \/ Boot \/ ClaudeEnds \/ ClaudeFails \/ Mark \/ Poll
    \/ MoveWake \/ Pick \/ Clear \/ Prompt \/ RemoveMsg

-----------------------------------------------------------------------------
(* Ends and beginnings of the container                                    *)

(* docker stop signals the entrypoint ...                                  *)
Stop ==
    /\ CanDie /\ ctr = "running" /\ ~term /\ at # "boot"
    /\ term' = TRUE
    /\ UNCHANGED <<now, ctr, at, sentinel, box, polled, cur, given, post, rd,
                   hist>>

(* ... whose trap runs between two commands ...                            *)
Trap ==
    /\ ctr = "running" /\ term /\ ~InClaude
    /\ ctr' = "exited" /\ at' = "dead" /\ term' = FALSE
    /\ sentinel' = (sentinel \ {"WAITING"}) \cup {"DONE"}
    /\ UNCHANGED <<now, box, polled, cur, given, post, rd, hist>>

(* ... and it is killed after the grace period, or out of the blue.        *)
Kill ==
    /\ CanDie /\ ctr = "running"
    /\ ctr' = "exited" /\ at' = "dead" /\ term' = FALSE
    /\ UNCHANGED <<now, sentinel, box, polled, cur, given, post, rd, hist>>

(* The same container again.                                               *)
Restart ==
    /\ CanDie /\ ctr = "exited"
    /\ ctr' = "running" /\ at' = "boot"
    /\ UNCHANGED <<now, term, sentinel, box, polled, cur, given, post, rd,
                   hist>>

(* Shutdown, then spawn: a new container on a workdir _stage_workdir has   *)
(* cleared of sentinels and wake-ups, but not of inbox messages.           *)
Respawn ==
    /\ CanDie /\ ctr = "exited"
    /\ ctr' = "running" /\ at' = "boot"
    /\ sentinel' = {} /\ wake' = {}
    /\ rd' = [rd EXCEPT !.owed = @ \ Seconds]
    /\ UNCHANGED <<now, term, inbox, polled, cur, given, post, hist>>

-----------------------------------------------------------------------------
(* rs-worker message                                                       *)

PostStep(m, from, to, path) ==
    /\ post[m].pc = from
    /\ post' = [post EXCEPT ![m] = [pc |-> to, path |-> path]]
    /\ UNCHANGED <<now, entry, wake, rd, hist>>

(* Wait for a second whose name is free ...                                *)
PostProbe(m) ==
    /\ aim = "loop" \/ \A o \in Msgs : post[o].pc = "new"
    /\ Overlap \/ \A o \in Msgs : post[o].pc \in {"new", "sent"}
    /\ <<now, 0>> \notin Unread
    /\ PostStep(m, "new", "open", <<now, 0>>)
    /\ UNCHANGED inbox

(* ... and write_text: open truncates or creates the file, then it is      *)
(* filled.                                                                 *)
PostOpen(m) ==
    /\ PostStep(m, "open", "write", post[m].path)
    /\ Put(post[m].path, Empty)

PostWrite(m) ==
    /\ PostStep(m, "write", "sent", post[m].path)
    /\ IF post[m].path \in Unread THEN Put(post[m].path, m)
                                  ELSE UNCHANGED inbox

Post(m) == PostProbe(m) \/ PostOpen(m) \/ PostWrite(m)

-----------------------------------------------------------------------------
(* _resolve_state: container.status, then the files one after the other.   *)

Pending == {m \in Msgs : post[m].pc = "sent" /\ m \notin ran} \cup wake

ReadStep(from, to) ==
    /\ rd.pc = from
    /\ rd' = [rd EXCEPT !.pc = to]
    /\ UNCHANGED <<now, entry, box, post, hist>>

Return(from, verdict) ==
    /\ rd.pc = from
    /\ rd' = [pc |-> "idle", verdict |-> verdict, owed |-> {}]
    /\ UNCHANGED <<now, entry, box, post, hist>>

ReadStart ==
    /\ aim = "watch" /\ rd.pc = "idle"
    /\ rd' = [pc |-> "status", verdict |-> "none", owed |-> Pending]
    /\ UNCHANGED <<now, entry, box, post, hist>>

ReadStatus == ReadStep("status", IF ctr = "running" THEN "inbox" ELSE "done?")

(* Believes WAITING whatever the inbox holds.                              *)
BadReadInbox == ReadStep("inbox", "waiting")

ReadInbox ==
    \/ Unread # {} /\ Return("inbox", "working")
    \/ Unread = {} /\ ReadStep("inbox", "waiting")

ReadWaiting ==
    \/ "WAITING" \in sentinel /\ ReadStep("waiting", "wakes")
    \/ "WAITING" \notin sentinel /\ Return("waiting", "working")

ReadWakes == Return("wakes", IF wake # {} THEN "parked" ELSE "waiting")

ReadDone ==
    \/ "DONE" \in sentinel /\ Return("done?", "done")
    \/ "DONE" \notin sentinel /\ ReadStep("done?", "waiting?")

ReadExitWaiting ==
    Return("waiting?", IF "WAITING" \in sentinel THEN "waiting" ELSE "failed")

Resolve == \/ ReadStart \/ ReadStatus \/ ReadInbox \/ ReadWaiting
           \/ ReadWakes \/ ReadDone \/ ReadExitWaiting

-----------------------------------------------------------------------------
Next ==
    \/ Tick \/ Entrypoint \/ AgentSchedules
    \/ Stop \/ Trap \/ Kill \/ Restart \/ Respawn
    \/ \E m \in Msgs : Post(m)
    \/ Resolve

(* The shell runs on, turns end, time passes and a sender finishes writing *)
(* what it opened.  Nobody has to send, schedule, stop or restart.         *)
Fairness ==
    /\ WF_vars(Tick)
    /\ WF_vars(Boot \/ ClaudeEnds \/ Mark \/ Poll \/ MoveWake \/ Pick
               \/ Clear \/ Prompt \/ RemoveMsg \/ Trap)
    /\ WF_vars(ClaudeFails /\ given = Empty)
    /\ \A m \in Msgs : WF_vars(PostOpen(m) \/ PostWrite(m))

Spec     == Init /\ [][Next]_vars
FairSpec == Spec /\ Fairness

-----------------------------------------------------------------------------
(* Properties                                                              *)

(* A message whose command has returned is in the inbox, with its text,    *)
(* until claude has been run with it: not lost to a restart, a respawn, a  *)
(* failed launch or another message of the same second.  The loop is first *)
(* in, first out: claude is not given a message while an older one still   *)
(* waits for its first turn, nor is WAITING up while it works on one.      *)
NoMessageLost ==
    /\ \A m \in Msgs : post[m].pc = "sent" =>
          m \in ran \/ \E n \in Unread : inbox[n] = m
    /\ at = "run" /\ ctr = "running" =>
          /\ "WAITING" \notin sentinel
          /\ given \in Msgs =>
               \A m \in Msgs : post[m].pc = "sent" /\ m \notin ran =>
                                  ~Before(post[m].path, post[given].path)

(* `wait` right after `message` does not return early: a running worker    *)
(* reads as waiting only once it has run every message sent before the     *)
(* read began.                                                             *)
MessageBarsWaiting ==
    [][rd.pc = "wakes" /\ rd'.verdict = "waiting"
         => rd.owed \cap Msgs \subseteq ran]_rd

(* Every message gets its turn, and every wake-up fires, unless the        *)
(* container ends first.                                                   *)
EachHasItsTurn ==
    /\ \A m \in Msgs : post[m].pc = "sent" ~> (m \in ran \/ ctr = "exited")
    /\ \A d \in Seconds : d \in wake ~> (d \in ran \/ ctr = "exited")
=============================================================================
