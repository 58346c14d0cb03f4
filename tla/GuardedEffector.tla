---------------------------- MODULE GuardedEffector ----------------------------
(***************************************************************************)
(* GuardedEffector (effectors.py) with its concurrent _commit calls, each  *)
(* through a handle from bind_for_sink, so that the marker is right;       *)
(* direct_effect and a call with another marker raise and change nothing.  *)
(* Effectors share nothing; there is one in each process.                  *)
(* The list of records, the lock and fail_next live in the process.        *)
(* fail_next is read and reset under the lock, but whoever wants the next  *)
(* commit to fail sets it without.                                         *)
(***************************************************************************)
EXTENDS Naturals, Sequences, FiniteSets, CallModel

CONSTANT MaxInjections  \* bound: how often fail_next is set

ASSUME InjectionAssumption == MaxInjections \in Nat

VARIABLES
    mutex,          \* per process, the call inside `with self._lock`
    failNext,
    records,
    step,           \* the statement each call of _commit is at
    given,          \* the act it was given, known by its capability
    ordinal,        \* its len(self._records)
    injections,     \* history: how often fail_next was set
    failures        \* history: how many commits raised the injected error

effectorVars ==
    <<mutex, failNext, records, step, given, ordinal, injections, failures>>

EffectorInit ==
    /\ mutex = [p \in Processes |-> None]
    /\ failNext = [p \in Processes |-> FALSE]
    /\ records = [p \in Processes |-> <<>>]
    /\ step = [k \in Calls |-> "out"]
    /\ given = [k \in Calls |-> None]
    /\ ordinal = [k \in Calls |-> 0]
    /\ injections = 0 /\ failures = 0

To(k, s) == step' = [step EXCEPT ![k] = s]

Out(k) ==
    /\ step' = [step EXCEPT ![k] = "out"]
    /\ mutex' = [mutex EXCEPT ![ProcessOf[k]] = None]
    /\ given' = [given EXCEPT ![k] = None]
    /\ ordinal' = [ordinal EXCEPT ![k] = 0]

EnterCommit(k, cap) ==
    /\ step[k] = "out"
    /\ given' = [given EXCEPT ![k] = cap]
    /\ To(k, "lock")
    /\ UNCHANGED <<mutex, failNext, records, ordinal, injections, failures>>

(* The fault: commits of one effector overlap. *)
EnterUnlocked(k) ==
    /\ step[k] = "lock"
    /\ mutex' = [mutex EXCEPT ![ProcessOf[k]] = k]
    /\ To(k, "test")
    /\ UNCHANGED <<failNext, records, given, ordinal, injections, failures>>

AcquireMutex(k) ==
    /\ step[k] = "lock"
    /\ mutex[ProcessOf[k]] = None
    /\ mutex' = [mutex EXCEPT ![ProcessOf[k]] = k]
    /\ To(k, "test")
    /\ UNCHANGED <<failNext, records, given, ordinal, injections, failures>>

TestFailNext(k) ==
    /\ step[k] = "test"
    /\ To(k, IF failNext[ProcessOf[k]] THEN "fail" ELSE "count")
    /\ UNCHANGED <<mutex, failNext, records, given, ordinal, injections, failures>>

(* The fault: the flag stays set. *)
FailAgain(k) ==
    /\ step[k] = "fail"
    /\ failures' = failures + 1
    /\ Out(k)
    /\ UNCHANGED <<failNext, records, injections>>

(* The flag is reset, OSError leaves the with block. *)
FailCommit(k) ==
    /\ step[k] = "fail"
    /\ failNext' = [failNext EXCEPT ![ProcessOf[k]] = FALSE]
    /\ failures' = failures + 1
    /\ Out(k)
    /\ UNCHANGED <<records, injections>>

CountRecords(k) ==
    /\ step[k] = "count"
    /\ ordinal' = [ordinal EXCEPT ![k] = Len(records[ProcessOf[k]])]
    /\ To(k, "append")
    /\ UNCHANGED <<mutex, failNext, records, given, injections, failures>>

AppendRecord(k) ==
    /\ step[k] = "append"
    /\ records' = [records EXCEPT ![ProcessOf[k]] =
                      Append(@, [cap |-> given[k], ordinal |-> ordinal[k]])]
    /\ To(k, "release")
    /\ UNCHANGED <<mutex, failNext, given, ordinal, injections, failures>>

ReleaseMutex(k) ==
    /\ step[k] = "release"
    /\ Out(k)
    /\ UNCHANGED <<failNext, records, injections, failures>>

SetFailNext(p) ==
    /\ injections < MaxInjections
    /\ failNext' = [failNext EXCEPT ![p] = TRUE]
    /\ injections' = injections + 1
    /\ UNCHANGED <<mutex, records, step, given, ordinal, failures>>

(* The process is gone; the next one makes a new effector. *)
EffectorLost(p) ==
    /\ mutex' = [mutex EXCEPT ![p] = None]
    /\ failNext' = [failNext EXCEPT ![p] = FALSE]
    /\ records' = [records EXCEPT ![p] = <<>>]
    /\ step' = [k \in Calls |-> IF k \in CallsOf(p) THEN "out" ELSE step[k]]
    /\ given' = [k \in Calls |-> IF k \in CallsOf(p) THEN None ELSE given[k]]
    /\ ordinal' = [k \in Calls |-> IF k \in CallsOf(p) THEN 0 ELSE ordinal[k]]
    /\ UNCHANGED <<injections, failures>>

-----------------------------------------------------------------------------
EffectorTypeOK ==
    /\ mutex \in [Processes -> Calls \cup {None}]
    /\ failNext \in [Processes -> BOOLEAN]
    /\ step \in [Calls -> {"out", "lock", "test", "fail", "count", "append", "release"}]
    /\ given \in [Calls -> Capabilities \cup {None}]
    /\ ordinal \in [Calls -> Nat]
    /\ injections \in 0 .. MaxInjections /\ failures \in Nat

(* The ordinal in a record's reference is the record's own place, so no    *)
(* two effects of a process share a reference, although the list is        *)
(* measured and extended in different statements (effectors.py:55-65).     *)
ReferencesUnique ==
    \A p \in Processes : \A i \in DOMAIN records[p] : records[p][i].ordinal = i - 1

(* One injected failure fails at most one commit, whichever call runs into *)
(* it, and commits fail for no other reason, although the flag is set      *)
(* without the lock it is read and reset under (effectors.py:55-58).       *)
FailuresInjected ==
    LET pending == {p \in Processes :
                       failNext[p] \/ \E k \in CallsOf(p) : step[k] = "fail"}
    IN  failures + Cardinality(pending) <= injections
=============================================================================
