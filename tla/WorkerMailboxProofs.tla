------------------------- MODULE WorkerMailboxProofs -------------------------
(***************************************************************************)
(* Proofs about WorkerMailbox, for any number of messages, any clock and   *)
(* whatever becomes of the container: as long as the supervisor's `message`*)
(* commands run one after the other, no message is lost or passed over,    *)
(* and the resolver never answers "waiting" over one.                      *)
(***************************************************************************)
EXTENDS WorkerMailbox, WellFoundedInduction, TLAPS

(* What the variables hold, and no file is named for a later second.       *)
Sending == {"open", "write"}
LoopSteps == {"boot", "task", "mark", "poll", "pick", "clear", "prompt",
              "run", "rmmsg", "dead"}
MailTyped ==
    /\ now \in Nat /\ polled \in 0..now /\ at \in LoopSteps
    /\ wake \subseteq Seconds
    /\ Unread \subseteq (0..now) \X Nat
    /\ \A n \in Unread : inbox[n] \in Msgs \cup Seconds \cup {Empty}
    /\ post \in [Msgs -> [pc : {"new", "sent"} \cup Sending,
                          path : (0..now) \X {0}]]

(* One command at a time sends, under a name that is not taken; a file     *)
(* that holds a message is the one its command wrote, and one that is a    *)
(* message's by its name holds it or is being written.  A message that was *)
(* sent stays there until claude has been run with it.                     *)
OneSends ==
    /\ \A m, o \in Msgs : post[m].pc \in Sending /\ post[o].pc \in Sending
                             => m = o
    /\ \A m, o \in Msgs : post[m].pc \in Sending /\ post[o].pc = "sent"
                             => post[o].path[1] <= post[m].path[1]
    /\ \A m \in Msgs : /\ post[m].pc = "open" => post[m].path \notin Unread
                       /\ post[m].pc = "write" => /\ post[m].path \in Unread
                                                  /\ inbox[post[m].path] = Empty

FilesTell ==
    \A n \in Unread :
        /\ inbox[n] \in Msgs =>
              post[inbox[n]].pc = "sent" /\ post[inbox[n]].path = n
        /\ n[2] = 0 /\ inbox[n] \notin Msgs =>
              \E m \in Msgs : post[m].pc = "write" /\ post[m].path = n

Kept ==
    \A m \in Msgs : post[m].pc = "sent" =>
        m \in ran \/ (post[m].path \in Unread /\ inbox[post[m].path] = m)

(* The loop's file stays while it works on it, and holds what claude was   *)
(* given; nothing older that is a message came in since it was picked.     *)
Working ==
    /\ at \in {"clear", "prompt", "run", "rmmsg"} => cur \in Unread
    /\ at \in {"run", "rmmsg"} /\ given # Empty => inbox[cur] = given
    /\ at = "rmmsg" => given \in ran \cup {Nothing, Empty}
    /\ at = "rmmsg" /\ ~term => given # Empty
    /\ at \in {"prompt", "run"} => "WAITING" \notin sentinel

OldestFirst ==
    at \in {"clear", "prompt", "run"} /\ cur[2] = 0 =>
        \A m \in Msgs : post[m].pc # "new" /\ m \notin ran
                           => ~Before(post[m].path, cur)

MailInv == /\ MailTyped /\ OneSends /\ FilesTell /\ Kept
           /\ Working /\ OldestFirst

(* What the resolver still owes an answer for was sent; once it has found  *)
(* the inbox empty, all of it has been run.                                *)
ReadInv ==
    /\ rd \in [pc : {"idle", "status", "inbox", "waiting", "wakes", "done?",
                    "waiting?"},
              verdict : {"none", "working", "waiting", "parked", "done",
                         "failed"},
              owed : SUBSET (Msgs \cup Seconds)]
    /\ \A m \in rd.owed \cap Msgs : post[m].pc = "sent"
    /\ rd.pc \in {"waiting", "wakes"} => rd.owed \cap Msgs \subseteq ran
-----------------------------------------------------------------------------
(* Files                                                                   *)

(* A set of natural numbers that is not empty has a least element.         *)
LEMMA NatMin ==
    ASSUME NEW S \in SUBSET Nat, S # {}
    PROVE  \E x \in S : \A y \in S : x <= y
<1> DEFINE R == {ss \in Nat \X Nat : ss[1] < ss[2]}
<1>1. IsWellFoundedOn(R, Nat)
  BY NatLessThanWellFounded DEF OpToRel
<1> HIDE DEF R
<1>2. PICK x \in S : \A y \in S : <<y, x>> \notin R
  BY <1>1, WFMin
<1>3. \A y \in S : y \in Nat /\ x \in Nat /\ ~(y < x)
  BY <1>2 DEF R
<1> QED BY <1>3

(* `ls` has a first name to offer when the inbox is not empty.             *)
LEMMA OldestIs ==
    ASSUME Unread \in SUBSET (Nat \X Nat), Unread # {}
    PROVE  /\ Oldest \in Unread
           /\ \A m \in Unread : ~Before(m, Oldest)
<1> DEFINE Firsts == {n[1] : n \in Unread}
<1>1. PICK s \in Firsts : \A t \in Firsts : s <= t
  <2>1. Firsts \in SUBSET Nat /\ Firsts # {}
    OBVIOUS
  <2> QED BY <2>1, NatMin
<1> DEFINE Seconds2 == {n[2] : n \in {k \in Unread : k[1] = s}}
<1>2. PICK d \in Seconds2 : \A e \in Seconds2 : d <= e
  <2>1. Seconds2 \in SUBSET Nat /\ Seconds2 # {}
    BY <1>1
  <2> QED BY <2>1, NatMin
<1>3. PICK n \in Unread : n[1] = s /\ n[2] = d
  BY <1>2
<1>4. \A m \in Unread : s <= m[1] /\ (m[1] = s => d <= m[2])
  BY <1>1, <1>2
<1>5. \A m \in Unread \ {n} : Before(n, m)
  <2> SUFFICES ASSUME NEW m \in Unread \ {n} PROVE Before(n, m)
    OBVIOUS
  <2>1. /\ m = <<m[1], m[2]>> /\ n = <<n[1], n[2]>>
        /\ m[1] \in Nat /\ m[2] \in Nat /\ n[1] \in Nat /\ n[2] \in Nat
    OBVIOUS
  <2>2. m[1] # n[1] \/ m[2] # n[2]
    BY <2>1
  <2>3. n[1] <= m[1] /\ (m[1] = n[1] => n[2] <= m[2])
    BY <1>3, <1>4
  <2> QED BY <2>1, <2>2, <2>3 DEF Before
<1>6. /\ Oldest \in Unread
      /\ \A m \in Unread \ {Oldest} : Before(Oldest, m)
  BY <1>5 DEF Oldest
<1>7. ASSUME NEW m \in Unread
      PROVE  ~Before(m, Oldest)
  <2>1. /\ m[1] \in Nat /\ m[2] \in Nat
        /\ Oldest[1] \in Nat /\ Oldest[2] \in Nat
    BY <1>6
  <2>2. CASE m = Oldest
    BY <2>1, <2>2 DEF Before
  <2>3. CASE m # Oldest
    BY <2>1, <2>3, <1>6 DEF Before
  <2> QED BY <2>2, <2>3
<1> QED BY <1>6, <1>7

(* A due time is a second, and never a message.                            *)
LEMMA DueTimes ==
    \A d \in Seconds : d \in Nat /\ d # 0 /\ d \notin Msgs
<1> SUFFICES ASSUME NEW d \in Seconds
             PROVE  d \in Nat /\ d # 0 /\ d \notin Msgs
  OBVIOUS
<1>1. d \in Nat /\ d # 0
  BY DEF Seconds
<1> QED BY <1>1, MailboxAssumption

(* A file that is put there is there, and the others stay as they are.     *)
LEMMA PutTells ==
    ASSUME NEW n, NEW text, Put(n, text)
    PROVE  /\ Unread' = Unread \cup {n}
           /\ inbox'[n] = text
           /\ \A m \in Unread \ {n} : inbox'[m] = inbox[m]
BY DEF Put, Unread

-----------------------------------------------------------------------------
(* What leaves the files, the commands and the loop's place alone keeps    *)
(* the invariant.                                                          *)
LEMMA IdleKeeps ==
    ASSUME MailInv,
           inbox' = inbox, post' = post, ran \subseteq ran', cur' = cur,
           given' = given,
           now' = now \/ now' = now + 1, polled' = polled,
           wake' \subseteq Seconds,
           \/ at' \in {"boot", "dead", "poll", "task"}
           \/ /\ at' = at
              /\ "WAITING" \in sentinel' => "WAITING" \in sentinel
              /\ term => term'
    PROVE  MailInv'
<1> USE DEF MailInv
<1>1. MailTyped'
  BY DEF MailTyped, LoopSteps, Unread
<1>2. OneSends'
  BY DEF OneSends, Unread
<1>3. FilesTell' /\ Kept'
  BY DEF FilesTell, Kept, Unread
<1>4. Working'
  BY DEF Working, Unread
<1>5. OldestFirst'
  BY DEF OldestFirst, Before
<1> QED BY <1>1, <1>2, <1>3, <1>4, <1>5

-----------------------------------------------------------------------------
(* The invariant holds in every state as long as `message` commands do not *)
(* overlap.                                                                *)
THEOREM MailInvariant == ~Overlap => (Spec => []MailInv)
<1> SUFFICES ASSUME ~Overlap PROVE Spec => []MailInv
  OBVIOUS
<1> USE MailboxAssumption
<1>1. Init => MailInv
  BY DEF Init, MailInv, MailTyped, OneSends, FilesTell, Kept, Working,
         OldestFirst, Unread, Sending, LoopSteps, NoName, Nothing
<1>2. MailInv /\ [Next]_vars => MailInv'
  <2> SUFFICES ASSUME MailInv, [Next]_vars PROVE MailInv'
    OBVIOUS
  <2>0. MailTyped /\ OneSends /\ FilesTell /\ Kept /\ Working /\ OldestFirst
    BY DEF MailInv
  <2>1. ASSUME Tick
        PROVE  MailInv'
    BY <2>0, <2>1, IdleKeeps DEF Tick, entry, box, hist, MailTyped
  <2>2. ASSUME Boot
        PROVE  MailInv'
    <3>1. UNCHANGED <<inbox, post, ran, now, wake>> /\ at' = "task"
          /\ polled' = 0
      BY <2>2 DEF Boot, Step, box, hist
    <3>2. MailTyped' /\ OneSends' /\ FilesTell' /\ Kept'
      BY <2>0, <3>1 DEF MailTyped, LoopSteps, OneSends, FilesTell, Kept, Unread
    <3>3. Working' /\ OldestFirst'
      BY <3>1 DEF Working, OldestFirst
    <3> QED BY <3>2, <3>3 DEF MailInv
  <2>3. ASSUME ClaudeEnds
        PROVE  MailInv'
    <3>1. /\ UNCHANGED <<inbox, post, now, wake, polled, cur, given, term>>
          /\ ran' = ran \cup ({given} \ {Nothing, Empty})
          /\ at \in {"task", "run"}
          /\ given # Empty \/ term
          /\ at' = IF at = "task" THEN "mark" ELSE "rmmsg"
      BY <2>3 DEF ClaudeEnds, box, InClaude
    <3>2. MailTyped' /\ OneSends' /\ FilesTell' /\ Kept'
      BY <2>0, <3>1 DEF MailTyped, LoopSteps, OneSends, FilesTell, Kept, Unread
    <3>3. Working' /\ OldestFirst'
      BY <2>0, <2>3, <3>1
         DEF Working, OldestFirst, Unread, ClaudeEnds, InClaude
    <3> QED BY <3>2, <3>3 DEF MailInv
  <2>4. ASSUME ClaudeFails \/ Mark \/ Trap \/ Kill \/ Restart \/ Respawn
        PROVE  MailInv'
    BY <2>0, <2>4, IdleKeeps
       DEF ClaudeFails, Mark, Trap, Kill, Restart, Respawn, Step, box, hist,
           MailTyped
  <2>5. ASSUME Poll
        PROVE  MailInv'
    <3>1. UNCHANGED <<inbox, post, ran, now, wake>> /\ at' = "pick"
          /\ polled' = now
      BY <2>5 DEF Poll, Step, box, hist
    <3>2. MailTyped' /\ OneSends' /\ FilesTell' /\ Kept'
      BY <2>0, <3>1 DEF MailTyped, LoopSteps, OneSends, FilesTell, Kept, Unread
    <3>3. Working' /\ OldestFirst'
      BY <3>1 DEF Working, OldestFirst
    <3> QED BY <3>2, <3>3 DEF MailInv
  <2>6. ASSUME MoveWake
        PROVE  MailInv'
    <3>1. PICK d \in Due : Put(<<polled, d>>, d) /\ wake' = wake \ {d}
      BY <2>6 DEF MoveWake
    <3>2. /\ UNCHANGED <<now, polled, post, ran>> /\ at' = "pick"
          /\ d \in Seconds
      BY <2>0, <2>6, <3>1 DEF MoveWake, Step, hist, MailTyped, Due
    <3>3. d \in Nat /\ d # 0 /\ d \notin Msgs
      BY <3>2, DueTimes
    <3>4. /\ Unread' = Unread \cup {<<polled, d>>}
          /\ inbox'[<<polled, d>>] = d
          /\ \A m \in Unread \ {<<polled, d>>} : inbox'[m] = inbox[m]
      BY <3>1, PutTells
    <3>5. MailTyped'
      BY <2>0, <3>1, <3>2, <3>3, <3>4 DEF MailTyped, LoopSteps
    <3>6. \A m \in Msgs : post[m].path # <<polled, d>>
      BY <2>0, <3>3 DEF MailTyped
    <3>7. OneSends' /\ Kept'
      BY <2>0, <3>2, <3>4, <3>6 DEF OneSends, Kept
    <3>8. FilesTell'
      BY <2>0, <3>2, <3>4, <3>6, <3>3 DEF FilesTell
    <3>9. Working' /\ OldestFirst'
      BY <3>2 DEF Working, OldestFirst
    <3> QED BY <3>5, <3>7, <3>8, <3>9 DEF MailInv
  <2>7. ASSUME Pick
        PROVE  MailInv'
    <3>1. UNCHANGED <<inbox, post, ran, now, wake, polled>>
      BY <2>7 DEF Pick, Step, box, hist
    <3>2. /\ at' \in {"clear", "poll"}
          /\ at' = "clear" => Unread # {} /\ cur' = Oldest
      BY <2>7 DEF Pick, Step
    <3>3. MailTyped' /\ OneSends' /\ FilesTell' /\ Kept'
      BY <2>0, <3>1, <3>2
         DEF MailTyped, LoopSteps, OneSends, FilesTell, Kept, Unread
    <3>4. at' = "clear" => /\ cur' \in Unread
                           /\ \A m \in Unread : ~Before(m, cur')
      BY <2>0, <3>2, OldestIs DEF MailTyped
    <3>5. Working'
      BY <3>1, <3>2, <3>4 DEF Working, Unread
    <3>6. OldestFirst'
      <4> SUFFICES ASSUME at' = "clear", cur'[2] = 0,
                          NEW m \in Msgs, post[m].pc # "new", m \notin ran
                   PROVE  ~Before(post[m].path, cur')
        BY <3>1, <3>2 DEF OldestFirst, Before
      <4>1. CASE post[m].path \in Unread
        BY <3>4, <4>1
      <4>2. CASE post[m].path \notin Unread
        <5>1. post[m].pc = "open"
          BY <2>0, <4>2 DEF Kept, OneSends, MailTyped, Sending
        <5>2. PICK o \in Msgs : post[o].pc \in {"write", "sent"}
                                /\ post[o].path = cur'
          BY <2>0, <3>4 DEF FilesTell
        <5>3. post[o].path[1] <= post[m].path[1]
          BY <2>0, <5>1, <5>2 DEF OneSends, Sending
        <5> QED
          BY <2>0, <5>2, <5>3 DEF Before, MailTyped
      <4> QED BY <4>1, <4>2
    <3> QED BY <3>3, <3>5, <3>6 DEF MailInv
  <2>8. ASSUME Clear
        PROVE  MailInv'
    <3>1. /\ UNCHANGED <<inbox, post, ran, now, wake, polled, cur>>
          /\ at = "clear" /\ at' = "prompt" /\ "WAITING" \notin sentinel'
      BY <2>8 DEF Clear, Step, box, hist
    <3>2. MailTyped' /\ OneSends' /\ FilesTell' /\ Kept'
      BY <2>0, <3>1 DEF MailTyped, LoopSteps, OneSends, FilesTell, Kept, Unread
    <3>3. Working' /\ OldestFirst'
      BY <2>0, <3>1 DEF Working, OldestFirst, Unread
    <3> QED BY <3>2, <3>3 DEF MailInv
  <2>9. ASSUME Prompt
        PROVE  MailInv'
    <3>1. /\ UNCHANGED <<inbox, post, ran, now, wake, polled, cur, sentinel>>
          /\ at = "prompt" /\ at' = "run" /\ given' = inbox[cur]
      BY <2>9 DEF Prompt, Step, box, hist
    <3>2. MailTyped' /\ OneSends' /\ FilesTell' /\ Kept'
      BY <2>0, <3>1 DEF MailTyped, LoopSteps, OneSends, FilesTell, Kept, Unread
    <3>3. Working' /\ OldestFirst'
      BY <2>0, <3>1 DEF Working, OldestFirst, Unread
    <3> QED BY <3>2, <3>3 DEF MailInv
  <2>10. ASSUME RemoveMsg
         PROVE  MailInv'
    <3>1. /\ UNCHANGED <<post, ran, now, wake, polled>>
          /\ at = "rmmsg" /\ at' = "mark" /\ ~term /\ inbox' = Take(cur)
      BY <2>10 DEF RemoveMsg, Step, hist
    <3>2. /\ Unread' = Unread \ {cur}
          /\ \A n \in Unread' : inbox'[n] = inbox[n]
      BY <3>1 DEF Take, Unread
    <3>3. /\ given # Empty /\ inbox[cur] = given
          /\ given \in ran \cup {Nothing}
      BY <2>0, <3>1 DEF Working
    <3>4. MailTyped'
      BY <2>0, <3>1, <3>2 DEF MailTyped, LoopSteps
    <3>5. OneSends' /\ FilesTell'
      BY <2>0, <3>1, <3>2, <3>3 DEF OneSends, FilesTell
    <3>6. Kept'
      BY <2>0, <3>1, <3>2, <3>3 DEF Kept, Nothing
    <3>7. Working' /\ OldestFirst'
      BY <3>1 DEF Working, OldestFirst
    <3> QED BY <3>4, <3>5, <3>6, <3>7 DEF MailInv
  <2>11. ASSUME AgentSchedules
         PROVE  MailInv'
    BY <2>0, <2>11, IdleKeeps
       DEF AgentSchedules, entry, MailTyped
  <2>12. ASSUME Stop
         PROVE  MailInv'
    BY <2>0, <2>12, IdleKeeps DEF Stop, box, hist, MailTyped
  <2>13. ASSUME NEW m \in Msgs, PostProbe(m)
         PROVE  MailInv'
    <3>1. /\ UNCHANGED <<inbox, ran, now, wake, at, term, sentinel, polled,
                         cur, given>>
          /\ post[m].pc = "new" /\ <<now, 0>> \notin Unread
          /\ post' = [post EXCEPT ![m] = [pc |-> "open", path |-> <<now, 0>>]]
          /\ \A o \in Msgs : post[o].pc \in {"new", "sent"}
      BY <2>13 DEF PostProbe, PostStep, entry, hist
    <3>2. MailTyped'
      BY <2>0, <3>1 DEF MailTyped, Sending, Unread
    <3>3. OneSends'
      BY <2>0, <3>1 DEF OneSends, MailTyped, Sending, Unread
    <3>4. FilesTell' /\ Kept'
      BY <2>0, <3>1 DEF FilesTell, Kept, MailTyped, Unread
    <3>5. Working'
      BY <2>0, <3>1 DEF Working, Unread
    <3>6. OldestFirst'
      <4>1. at \in {"clear", "prompt", "run"} =>
               cur[1] \in 0..now /\ ~(now < cur[1])
        BY <2>0 DEF Working, MailTyped
      <4> QED BY <2>0, <3>1, <4>1 DEF OldestFirst, MailTyped, Before
    <3> QED BY <3>2, <3>3, <3>4, <3>5, <3>6 DEF MailInv
  <2>14. ASSUME NEW m \in Msgs, PostOpen(m)
         PROVE  MailInv'
    <3> DEFINE f == post[m].path
    <3>1. /\ UNCHANGED <<ran, now, wake, at, term, sentinel, polled, cur,
                         given>>
          /\ post[m].pc = "open" /\ f \notin Unread
          /\ post' = [post EXCEPT ![m] = [pc |-> "write", path |-> f]]
          /\ f \in (0..now) \X {0}
      BY <2>0, <2>14 DEF PostOpen, PostStep, entry, hist, OneSends, MailTyped
    <3>2. /\ Unread' = Unread \cup {f} /\ inbox'[f] = Empty
          /\ \A n \in Unread : inbox'[n] = inbox[n]
      BY <2>14, <3>1, PutTells DEF PostOpen
    <3>3. MailTyped'
      BY <2>0, <3>1, <3>2 DEF MailTyped, Sending
    <3>4. OneSends' /\ Kept'
      BY <2>0, <3>1, <3>2 DEF OneSends, Kept, MailTyped, Sending
    <3>5. FilesTell'
      BY <2>0, <3>1, <3>2 DEF FilesTell, MailTyped
    <3>6. Working'
      BY <2>0, <3>1, <3>2 DEF Working
    <3>7. OldestFirst'
      BY <2>0, <3>1, <3>2 DEF OldestFirst, MailTyped, Before
    <3> QED BY <3>3, <3>4, <3>5, <3>6, <3>7 DEF MailInv
  <2>15. ASSUME NEW m \in Msgs, PostWrite(m)
         PROVE  MailInv'
    <3> DEFINE f == post[m].path
    <3>1. /\ UNCHANGED <<ran, now, wake, at, term, sentinel, polled, cur,
                         given>>
          /\ post[m].pc = "write" /\ f \in Unread /\ inbox[f] = Empty
          /\ post' = [post EXCEPT ![m] = [pc |-> "sent", path |-> f]]
          /\ Put(f, m)
      BY <2>0, <2>15 DEF PostWrite, PostStep, entry, hist, OneSends
    <3>2. /\ Unread' = Unread /\ inbox'[f] = m
          /\ \A n \in Unread \ {f} : inbox'[n] = inbox[n]
      BY <3>1, PutTells
    <3>3. MailTyped'
      BY <2>0, <3>1, <3>2 DEF MailTyped, Sending
    <3>4. OneSends' /\ Kept'
      BY <2>0, <3>1, <3>2 DEF OneSends, Kept, MailTyped, Sending
    <3>5. FilesTell'
      BY <2>0, <3>1, <3>2 DEF FilesTell, MailTyped, OneSends, Sending
    <3>6. Working'
      BY <2>0, <3>1, <3>2 DEF Working
    <3>7. OldestFirst'
      BY <2>0, <3>1, <3>2 DEF OldestFirst, MailTyped, Before
    <3> QED BY <3>3, <3>4, <3>5, <3>6, <3>7 DEF MailInv
  <2>16. ASSUME Resolve \/ UNCHANGED vars
         PROVE  MailInv'
    <3>1. UNCHANGED <<now, entry, box, post, hist>>
      BY <2>16
         DEF Resolve, ReadStart, ReadStatus, ReadInbox, ReadWaiting,
             ReadWakes, ReadDone, ReadExitWaiting, ReadStep, Return, vars,
             entry, box, hist
    <3> QED BY <2>0, <3>1, IdleKeeps DEF entry, box, hist, MailTyped
  <2> QED
    BY <2>1, <2>2, <2>3, <2>4, <2>5, <2>6, <2>7, <2>8, <2>9, <2>10, <2>11,
       <2>12, <2>13, <2>14, <2>15, <2>16 DEF Next, Entrypoint, Post
<1> QED BY <1>1, <1>2, PTL DEF Spec

(* A message whose command has returned stays in the inbox until claude    *)
(* has been run with it, none overtakes an older one, and WAITING is down  *)
(* while the loop works on one: for any number of messages, whatever       *)
(* becomes of the container, if `message` commands do not overlap.         *)
THEOREM MessagesKept == ~Overlap => (Spec => []NoMessageLost)
<1>1. MailInv => NoMessageLost
  <2> SUFFICES ASSUME MailInv PROVE NoMessageLost
    OBVIOUS
  <2>0. MailTyped /\ FilesTell /\ Kept /\ Working /\ OldestFirst
    BY DEF MailInv
  <2>1. ASSUME NEW m \in Msgs, post[m].pc = "sent"
        PROVE  m \in ran \/ \E n \in Unread : inbox[n] = m
    BY <2>0, <2>1 DEF Kept
  <2>2. at = "run" => "WAITING" \notin sentinel
    BY <2>0 DEF Working
  <2>3. ASSUME at = "run", given \in Msgs,
               NEW m \in Msgs, post[m].pc = "sent", m \notin ran
        PROVE  ~Before(post[m].path, post[given].path)
    <3>1. cur \in Unread /\ inbox[cur] = given
      BY <2>0, <2>3, MailboxAssumption DEF Working
    <3>2. post[given].path = cur /\ cur[2] = 0
      BY <2>0, <2>3, <3>1 DEF FilesTell, MailTyped
    <3> QED BY <2>0, <2>3, <3>2 DEF OldestFirst
  <2> QED BY <2>1, <2>2, <2>3 DEF NoMessageLost
<1> QED BY <1>1, MailInvariant, PTL

(* `wait` right after `message` does not return early: once the resolver   *)
(* has found the inbox of a running worker empty, every message sent       *)
(* before it began has been run, and stays run.                            *)
THEOREM ReadHolds == ~Overlap => (Spec => []ReadInv)
<1> SUFFICES ASSUME ~Overlap PROVE Spec => []ReadInv
  OBVIOUS
<1>1. Init => ReadInv
  BY DEF Init, ReadInv
<1>2. MailInv /\ ReadInv /\ [Next]_vars => ReadInv'
  <2> SUFFICES ASSUME MailInv, ReadInv, [Next]_vars PROVE ReadInv'
    OBVIOUS
  <2>0. MailTyped /\ Kept
    BY DEF MailInv
  <2>1. ASSUME Tick \/ Boot \/ ClaudeFails \/ Mark \/ Poll \/ MoveWake \/ Pick
               \/ Clear \/ Prompt \/ RemoveMsg \/ AgentSchedules
               \/ Stop \/ Trap \/ Kill \/ Restart \/ UNCHANGED vars
        PROVE  ReadInv'
    <3>1. UNCHANGED <<post, rd, ran>>
      BY <2>1
         DEF Tick, Boot, ClaudeFails, Mark, Poll, MoveWake, Pick, Clear,
             Prompt, RemoveMsg, AgentSchedules, Stop, Trap, Kill, Restart,
             hist, vars
    <3> QED BY <3>1 DEF ReadInv
  <2>2. ASSUME ClaudeEnds
        PROVE  ReadInv'
    BY <2>2 DEF ClaudeEnds, ReadInv
  <2>3. ASSUME Respawn
        PROVE  ReadInv'
    <3>1. UNCHANGED <<post, ran>> /\ rd' = [rd EXCEPT !.owed = @ \ Seconds]
      BY <2>3 DEF Respawn, hist
    <3>2. /\ rd'.owed = rd.owed \ Seconds /\ rd'.pc = rd.pc
          /\ rd' \in [pc : {rd.pc}, verdict : {rd.verdict},
                     owed : SUBSET rd.owed]
      BY <3>1 DEF ReadInv
    <3> QED BY <3>1, <3>2 DEF ReadInv
  <2>4. ASSUME NEW m \in Msgs, Post(m)
        PROVE  ReadInv'
    BY <2>0, <2>4
       DEF Post, PostProbe, PostOpen, PostWrite, PostStep, hist, ReadInv,
           MailTyped, Sending
  <2>5. ASSUME Resolve
        PROVE  ReadInv'
    <3>1. UNCHANGED <<post, ran>>
      BY <2>5
         DEF Resolve, ReadStart, ReadStatus, ReadInbox, ReadWaiting,
             ReadWakes, ReadDone, ReadExitWaiting, ReadStep, Return, hist
    <3>2. CASE ReadInbox
      <4>1. \/ Unread = {} /\ rd' = [rd EXCEPT !.pc = "waiting"]
            \/ rd' = [pc |-> "idle", verdict |-> "working", owed |-> {}]
        BY <3>2 DEF ReadInbox, ReadStep, Return
      <4>2. Unread = {} => \A m \in rd.owed \cap Msgs : m \in ran
        BY <2>0 DEF Kept, ReadInv
      <4> QED BY <3>1, <4>1, <4>2 DEF ReadInv
    <3>3. CASE ReadStart
      <4>1. Pending \subseteq Msgs \cup Seconds
        BY <2>0 DEF Pending, MailTyped
      <4>2. \A m \in Pending \cap Msgs : post[m].pc = "sent"
        <5>1. wake \cap Msgs = {}
          BY <2>0, DueTimes DEF MailTyped
        <5> QED BY <5>1 DEF Pending
      <4>3. rd' = [pc |-> "status", verdict |-> "none", owed |-> Pending]
        BY <3>3 DEF ReadStart
      <4> QED BY <3>1, <4>1, <4>2, <4>3 DEF ReadInv
    <3>4. CASE ReadStatus \/ ReadWaiting \/ ReadWakes \/ ReadDone
               \/ ReadExitWaiting
      BY <3>1, <3>4
         DEF ReadStatus, ReadWaiting, ReadWakes, ReadDone, ReadExitWaiting,
             ReadStep, Return, ReadInv
    <3> QED BY <2>5, <3>2, <3>3, <3>4 DEF Resolve
  <2> QED
    BY <2>1, <2>2, <2>3, <2>4, <2>5 DEF Next, Entrypoint
<1> QED BY <1>1, <1>2, MailInvariant, PTL DEF Spec

(* A running worker reads as waiting only once it has run every message    *)
(* that was sent before the read began.                                    *)
THEOREM MessagesBarWaiting == ~Overlap => (Spec => MessageBarsWaiting)
<1>1. ReadInv => (rd.pc = "wakes" /\ rd'.verdict = "waiting"
                    => rd.owed \cap Msgs \subseteq ran)
  BY DEF ReadInv
<1> QED BY <1>1, ReadHolds, PTL DEF MessageBarsWaiting

=============================================================================
