---------------------------- MODULE WorkerLedger ----------------------------
(***************************************************************************)
(* What one worker name promises the project, seen from outside: a ledger  *)
(* entry that is absent, live, down or a tombstone, and a list of accepted *)
(* cycles that is only ever appended to while the worker is live.  A       *)
(* tombstone is for ever and says whether anything was accepted.           *)
(* WorkerRegistry is shown to implement this for one command at a time.    *)
(***************************************************************************)
EXTENDS Sequences

CONSTANT Slugs      \* the slugs cycles can be accepted under

VARIABLE ledger     \* [st |-> state, cycles |-> accepted slugs, in order]

Tombstones == {"destroyed_pre_accept", "destroyed_post_accept"}
NoEntry    == [st |-> "none", cycles |-> << >>]

LedgerInit == ledger = NoEntry

Spawn ==
    /\ ledger.st \in {"none", "down"}
    /\ ledger' = [ledger EXCEPT !.st = "live"]

(* A spawn that could not start its container takes the entry back.        *)
Unspawn ==
    /\ ledger.st = "live"
    /\ \/ ledger.cycles = << >> /\ ledger' = NoEntry
       \/ ledger' = [ledger EXCEPT !.st = "down"]

Shutdown ==
    /\ ledger.st = "live"
    /\ ledger' = [ledger EXCEPT !.st = "down"]

Accept ==
    /\ ledger.st = "live"
    /\ \E s \in Slugs :
          /\ \A i \in DOMAIN ledger.cycles : ledger.cycles[i] # s
          /\ ledger' = [ledger EXCEPT !.cycles = Append(@, s)]

Destroy ==
    /\ ledger.st \notin Tombstones
    /\ ledger' = [ledger EXCEPT !.st =
                    IF ledger.cycles = << >> THEN "destroyed_pre_accept"
                                             ELSE "destroyed_post_accept"]

LedgerNext == Spawn \/ Unspawn \/ Shutdown \/ Accept \/ Destroy

LedgerSpec == LedgerInit /\ [][LedgerNext]_ledger
=============================================================================
