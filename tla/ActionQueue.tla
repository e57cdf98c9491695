----------------------------- MODULE ActionQueue ----------------------------
(***************************************************************************)
(* What the lifecycle lane promises the operator: project actions run one  *)
(* at a time on the whole host, each at most once, and an action that must *)
(* run alone (create, destroy) starts only when nothing runs.              *)
(* LifecycleLane is shown to implement this.                               *)
(***************************************************************************)
CONSTANT Ops        \* the start, stop and update requests

VARIABLES
    status,     \* per op: new, queued, running, ended
    alone       \* a create or destroy is running

queue == <<status, alone>>

NothingRuns == ~alone /\ \A o \in Ops : status[o] # "running"

QueueInit ==
    /\ status = [o \in Ops |-> "new"]
    /\ alone = FALSE

Move(o, from, to) ==
    /\ status[o] = from
    /\ status' = [status EXCEPT ![o] = to]
    /\ UNCHANGED alone

Enqueue(o) == Move(o, "new", "queued")
Begin(o)   == NothingRuns /\ Move(o, "queued", "running")
End(o)     == Move(o, "running", "ended")

(* An op may end without its turn: killed, or unable to open its log.      *)
Drop(o) == Move(o, "queued", "ended")

BeginAlone == NothingRuns /\ alone' = TRUE /\ UNCHANGED status
EndAlone   == alone /\ alone' = FALSE /\ UNCHANGED status

QueueNext ==
    \/ \E o \in Ops : Enqueue(o) \/ Begin(o) \/ End(o) \/ Drop(o)
    \/ BeginAlone \/ EndAlone

QueueSpec == QueueInit /\ [][QueueNext]_queue
=============================================================================
