-------------------------- MODULE ConsumptionStore --------------------------
(***************************************************************************)
(* The ConsumptionStore protocol of sink.py with its two implementations   *)
(* in state.py.  claim() either records a capability id that was not       *)
(* recorded before, or raises; a store is shared by the sinks configured   *)
(* with it.  A SQLiteConsumptionStore keeps its rows when its process ends *)
(* and may raise without recording anything when the database stays locked *)
(* for the connection's 30 seconds; an InMemoryConsumptionStore forgets.   *)
(***************************************************************************)
CONSTANTS
    Stores,
    Durable         \* the stores that are SQLite files

ASSUME StoreAssumption == Durable \subseteq Stores

VARIABLE claims     \* per store, the capability ids that have been claimed

ClaimsInit == claims = [st \in Stores |-> {}]

Claimed(st, cap) == cap \in claims[st]

(* The fault: the claim is recorded without a look at earlier ones. *)
ClaimOver(st, cap) == claims' = [claims EXCEPT ![st] = @ \cup {cap}]

Claim(st, cap) ==
    /\ ~Claimed(st, cap)
    /\ claims' = [claims EXCEPT ![st] = @ \cup {cap}]

(* ReplayDetected, or "database is locked".  The fault: a claim that is    *)
(* there already makes the caller wait for it.                             *)
ClaimBlocks(st, cap) ==
    /\ ~Claimed(st, cap) /\ st \in Durable
    /\ UNCHANGED claims

ClaimRaises(st, cap) ==
    /\ Claimed(st, cap) \/ st \in Durable
    /\ UNCHANGED claims

(* A new store object: over the same file, or empty. *)
Reopen(lost) ==
    claims' = [st \in Stores |-> IF st \in lost \ Durable THEN {} ELSE claims[st]]
=============================================================================
