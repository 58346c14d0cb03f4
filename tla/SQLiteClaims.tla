---------------------------- MODULE SQLiteClaims ----------------------------
(***************************************************************************)
(* SQLiteConsumptionStore.claim (state.py:153-168) as concurrent calls on  *)
(* one database file, each on a connection of its own.  BEGIN IMMEDIATE    *)
(* takes the file's single write lock or waits for it, for 30 seconds at   *)
(* most; INSERT meets the primary key; COMMIT makes the row durable; an    *)
(* IntegrityError rolls back.  Any other error leaves through the finally  *)
(* clause, where close() drops the open transaction.  A process may die at *)
(* any step, with all its calls: SQLite then drops its lock and its        *)
(* uncommitted row, and keeps every committed one.                         *)
(***************************************************************************)
EXTENDS Naturals, CallModel

VARIABLES
    rows,           \* the committed rows of table consumed, which is_claimed reads
    uncommitted,    \* the row the open transaction has inserted
    writer,         \* the call whose transaction holds the write lock, or None
    at,             \* the statement each call is at
    arg,            \* the capability id it was given
    wins            \* history: how many claims of a capability returned normally

claimVars == <<rows, uncommitted, writer, at, arg, wins>>

ClaimInit ==
    /\ rows = {}
    /\ uncommitted = {}
    /\ writer = None
    /\ at = [k \in Calls |-> "idle"]
    /\ arg = [k \in Calls |-> None]
    /\ wins = [cap \in Capabilities |-> 0]

Goto(k, statement) == at' = [at EXCEPT ![k] = statement] /\ UNCHANGED arg

Leave(k) == at' = [at EXCEPT ![k] = "idle"] /\ arg' = [arg EXCEPT ![k] = None]

Connect(k, cap) ==
    /\ at[k] = "idle"
    /\ arg' = [arg EXCEPT ![k] = cap]
    /\ at' = [at EXCEPT ![k] = "begin"]
    /\ UNCHANGED <<rows, uncommitted, writer, wins>>

BeginImmediate(k) ==
    /\ at[k] = "begin"
    /\ writer = None
    /\ writer' = k
    /\ Goto(k, "insert")
    /\ UNCHANGED <<rows, uncommitted, wins>>

(* "database is locked": the connection's timeout has run out.  The fault: *)
(* there is no timeout.                                                    *)
WaitForever(k) == FALSE /\ UNCHANGED claimVars

BusyTimeout(k) ==
    /\ at[k] = "begin"
    /\ writer # None
    /\ Leave(k)
    /\ UNCHANGED <<rows, uncommitted, writer, wins>>

(* The fault: a table without the primary key. *)
InsertAgain(k) ==
    /\ at[k] = "insert"
    /\ Goto(k, "commit")
    /\ uncommitted' = uncommitted \cup {arg[k]}
    /\ UNCHANGED <<rows, writer, wins>>

(* INSERT: the row joins the open transaction, or meets the primary key.   *)
Insert(k) ==
    /\ at[k] = "insert"
    /\ \/ /\ arg[k] \notin rows \cup uncommitted
          /\ uncommitted' = uncommitted \cup {arg[k]}
          /\ Goto(k, "commit")
       \/ /\ arg[k] \in rows \cup uncommitted
          /\ Goto(k, "rollback")
          /\ UNCHANGED uncommitted
    /\ UNCHANGED <<rows, writer, wins>>

(* ROLLBACK, or close() with a transaction open: its row and its lock go.  *)
DropTransaction == writer' = None /\ uncommitted' = {}

(* The fault: the loser returns without ROLLBACK and without close. *)
NoRollback(k) ==
    /\ at[k] = "rollback"
    /\ Leave(k)
    /\ UNCHANGED <<rows, uncommitted, writer, wins>>

Rollback(k) ==
    /\ at[k] = "rollback"
    /\ DropTransaction
    /\ Leave(k)
    /\ UNCHANGED <<rows, wins>>

(* The fault: the wrong value in the key column. *)
CommitWrongKey(k) ==
    /\ at[k] = "commit"
    /\ rows' = rows \cup {k}
    /\ DropTransaction
    /\ Goto(k, "return")
    /\ UNCHANGED wins

(* COMMIT makes the transaction's row durable, and visible to readers.     *)
Commit(k) ==
    /\ at[k] = "commit"
    /\ rows' = rows \cup uncommitted
    /\ DropTransaction
    /\ Goto(k, "return")
    /\ UNCHANGED wins

Return(k) ==
    /\ at[k] = "return"
    /\ wins' = [wins EXCEPT ![arg[k]] = @ + 1]
    /\ Leave(k)
    /\ UNCHANGED <<rows, uncommitted, writer>>

(* INSERT or COMMIT fails otherwise (disk full, I/O): nothing is kept.     *)
StatementFails(k) ==
    /\ at[k] \in {"insert", "commit"}
    /\ DropTransaction
    /\ Leave(k)
    /\ UNCHANGED <<rows, wins>>

(* A process dies with its calls; what its transaction had inserted goes.  *)
Die(p) ==
    /\ \/ writer \in CallsOf(p) /\ DropTransaction
       \/ writer \notin CallsOf(p) /\ UNCHANGED <<writer, uncommitted>>
    /\ at' = [k \in Calls |-> IF k \in CallsOf(p) THEN "idle" ELSE at[k]]
    /\ arg' = [k \in Calls |-> IF k \in CallsOf(p) THEN None ELSE arg[k]]
    /\ UNCHANGED <<rows, wins>>

(* The steps of a claim that is under way, up to its return. *)
ClaimStep(k) ==
    \/ BeginImmediate(k) \/ BusyTimeout(k)
    \/ Insert(k) \/ Rollback(k) \/ Commit(k) \/ StatementFails(k)

ClaimNext ==
    \/ \E k \in Calls :
          \/ \E cap \in Capabilities : Connect(k, cap)
          \/ ClaimStep(k) \/ Return(k)
    \/ \E p \in Processes : Die(p)

ClaimSpec == ClaimInit /\ [][ClaimNext]_claimVars

-----------------------------------------------------------------------------
ClaimTypeOK ==
    /\ rows \subseteq Capabilities
    /\ uncommitted \subseteq Capabilities
    /\ writer \in Calls \cup {None}
    /\ at \in [Calls -> {"idle", "begin", "insert", "commit", "rollback", "return"}]
    /\ arg \in [Calls -> Capabilities \cup {None}]
    /\ wins \in [Capabilities -> Nat]

(* A claim is won once: however many connections race and whichever of     *)
(* their processes die at whichever step, at most one claim of a           *)
(* capability returns normally, now and for all later calls, and its row   *)
(* is on disk by then (state.py:156-166).                                  *)
WonOnce ==
    \A cap \in Capabilities :
        /\ wins[cap] <= 1
        /\ wins[cap] = 1 => cap \in rows
        /\ wins[cap] = 1 => \A k \in Calls : ~(arg[k] = cap /\ at[k] \in {"commit", "return"})

(* No transaction is left behind: a loser that rolls back, a failing       *)
(* statement and a process that dies inside its transaction give back the  *)
(* write lock and take their uncommitted row with them (state.py:162-168). *)
NoOrphanedLock ==
    /\ writer # None => at[writer] \in {"insert", "commit", "rollback"}
    /\ writer = None => uncommitted = {}
=============================================================================
