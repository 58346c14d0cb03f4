-------------------------- MODULE EffectPathProofs --------------------------
(***************************************************************************)
(* For any number of calls, processes and capabilities: a claim is won     *)
(* once, no transaction is left behind, and references are unique,         *)
(* wherever processes die.                                                 *)
(***************************************************************************)
EXTENDS EffectPath, FiniteSetTheorems, TLAPS

(* Why a claim is won once, as an inductive invariant of the transaction.  *)
InTransaction == {"insert", "commit", "rollback"}

WriterInside == \A k \in Calls : at[k] \in InTransaction <=> writer = k

ArgGiven == \A k \in Calls : at[k] # "idle" => arg[k] \in Capabilities

CommitsFresh == \A k \in Calls : at[k] = "commit" => arg[k] \notin rows

(* What the open transaction has inserted is the row of the call that is   *)
(* about to commit it.                                                     *)
OneRowOpen ==
    /\ \A k \in Calls : at[k] = "commit" => uncommitted = {arg[k]}
    /\ (\A k \in Calls : at[k] # "commit") => uncommitted = {}

(* A row whose claim has not returned yet belongs to one call. *)
ReturnsOnce ==
    \A k \in Calls : at[k] = "return" =>
        /\ arg[k] \in rows
        /\ wins[arg[k]] = 0
        /\ \A l \in Calls \ {k} : at[l] = "return" => arg[l] # arg[k]

WinsRecorded == \A cap \in Capabilities : wins[cap] <= 1 /\ (wins[cap] = 1 => cap \in rows)

ClaimInv ==
    /\ ClaimTypeOK
    /\ WriterInside
    /\ ArgGiven
    /\ CommitsFresh
    /\ OneRowOpen
    /\ ReturnsOnce
    /\ WinsRecorded

LEMMA ClaimInvInit == ClaimInit => ClaimInv
  BY CallAssumption
  DEF ClaimInit, ClaimInv, ClaimTypeOK, WriterInside, InTransaction, ArgGiven, CommitsFresh,
      OneRowOpen, ReturnsOnce, WinsRecorded

LEMMA ClaimInvImplies == ClaimInv => WonOnce /\ NoOrphanedLock
  <1> SUFFICES ASSUME ClaimInv PROVE WonOnce /\ NoOrphanedLock
    BY DEF ClaimInv
  <1>1. WonOnce
    BY DEF ClaimInv, ClaimTypeOK, WinsRecorded, ReturnsOnce, CommitsFresh, WonOnce
  <1>2. NoOrphanedLock
    BY CallAssumption
    DEF ClaimInv, ClaimTypeOK, WriterInside, InTransaction, OneRowOpen, NoOrphanedLock
  <1> QED
    BY <1>1, <1>2

(* The steps of one call, each with what it changes. *)
LEMMA CallKeepsClaimInv ==
    ASSUME ClaimInv, NEW k \in Calls,
           ClaimStep(k) \/ Return(k) \/ \E cap \in Capabilities : Connect(k, cap)
    PROVE  ClaimInv'
  <1> USE CallAssumption DEF ClaimInv, ClaimTypeOK, WriterInside, InTransaction, ArgGiven,
          CommitsFresh, OneRowOpen, ReturnsOnce, WinsRecorded
  <1>1. CASE \E cap \in Capabilities : Connect(k, cap)
    BY <1>1 DEF Connect
  <1>2. CASE BeginImmediate(k)
    BY <1>2 DEF BeginImmediate, Goto
  <1>3. CASE BusyTimeout(k)
    BY <1>3 DEF BusyTimeout, Leave
  <1>4. CASE Insert(k)
    BY <1>4 DEF Insert, Goto
  <1>5. CASE Rollback(k)
    BY <1>5 DEF Rollback, DropTransaction, Leave
  <1>6. CASE Commit(k)
    BY <1>6 DEF Commit, DropTransaction, Goto
  <1>7. CASE StatementFails(k)
    BY <1>7 DEF StatementFails, DropTransaction, Leave
  <1>8. CASE Return(k)
    BY <1>8 DEF Return, Leave
  <1> QED
    BY <1>1, <1>2, <1>3, <1>4, <1>5, <1>6, <1>7, <1>8 DEF ClaimStep

LEMMA DeathKeepsClaimInv ==
    ASSUME ClaimInv, NEW p \in Processes, Die(p)
    PROVE  ClaimInv'
  BY CallAssumption
  DEF Die, DropTransaction, CallsOf, ClaimInv, ClaimTypeOK, WriterInside, InTransaction, ArgGiven,
      CommitsFresh, OneRowOpen, ReturnsOnce, WinsRecorded

LEMMA ClaimInvInductive == ClaimInv /\ [ClaimNext]_claimVars => ClaimInv'
  <1> SUFFICES ASSUME ClaimInv, [ClaimNext]_claimVars PROVE ClaimInv'
    OBVIOUS
  <1>1. CASE \E k \in Calls :
                ClaimStep(k) \/ Return(k) \/ \E cap \in Capabilities : Connect(k, cap)
    BY <1>1, CallKeepsClaimInv
  <1>2. CASE \E p \in Processes : Die(p)
    BY <1>2, DeathKeepsClaimInv
  <1>3. CASE UNCHANGED claimVars
    BY <1>3
    DEF claimVars, ClaimInv, ClaimTypeOK, WriterInside, InTransaction, ArgGiven,
        CommitsFresh, OneRowOpen, ReturnsOnce, WinsRecorded
  <1> QED
    BY <1>1, <1>2, <1>3 DEF ClaimNext

(* The whole path does to the database only what claims do to it. *)
LEMMA PathMakesClaims == PathSpec => ClaimSpec
  <1>1. PathInit => ClaimInit
    BY DEF PathInit
  <1>2. [PathNext]_pathVars => [ClaimNext]_claimVars
    <2> SUFFICES ASSUME [PathNext]_pathVars PROVE [ClaimNext]_claimVars
      OBVIOUS
    <2>1. ASSUME NEW k \in Calls, PathStep(k)
          PROVE  ClaimStep(k) \/ Return(k) \/ UNCHANGED claimVars
      BY <2>1 DEF PathStep, ClaimPath, CommitPath, EffectPathStep
    <2>2. ASSUME NEW k \in Calls, NEW cap \in Capabilities, BeginPath(k, cap)
          PROVE  Connect(k, cap)
      BY <2>2 DEF BeginPath
    <2>3. CASE InjectFailure
      BY <2>3 DEF InjectFailure
    <2>4. ASSUME NEW p \in Processes, Crash(p)
          PROVE  Die(p)
      BY <2>4 DEF Crash
    <2>5. CASE UNCHANGED pathVars
      BY <2>5 DEF pathVars
    <2> QED
      BY <2>1, <2>2, <2>3, <2>4, <2>5 DEF PathNext, ClaimNext
  <1> QED
    BY <1>1, <1>2, PTL DEF PathSpec, PathSafety, ClaimSpec

(* A claim is won once, for any number of calls on any number of           *)
(* connections and processes (state.py:156-166).                           *)
THEOREM WonOnceCorrect == PathSpec => []WonOnce
  BY PathMakesClaims, ClaimInvInit, ClaimInvInductive, ClaimInvImplies, PTL DEF ClaimSpec

(* No write lock and no uncommitted row is left behind (state.py:162-168). *)
THEOREM NoOrphanedLockCorrect == PathSpec => []NoOrphanedLock
  BY PathMakesClaims, ClaimInvInit, ClaimInvInductive, ClaimInvImplies, PTL DEF ClaimSpec

(* The table, the lock and the calls are well typed (state.py:140-168).    *)
THEOREM ClaimTypeCorrect == PathSpec => []ClaimTypeOK
  <1>1. ClaimInv => ClaimTypeOK
    BY DEF ClaimInv
  <1> QED
    BY <1>1, PathMakesClaims, ClaimInvInit, ClaimInvInductive, PTL DEF ClaimSpec
-----------------------------------------------------------------------------
(* The effector.  A call past the lock is the one that holds it, so what   *)
(* it measured is still the length of the list when it appends.            *)
RecordsTyped ==
    records \in [Processes -> Seq([cap : Capabilities \cup {None}, ordinal : Nat])]

InsideAlone == \A k \in Calls : step[k] \notin {"out", "lock"} => mutex[ProcessOf[k]] = k

Measured ==
    \A k \in Calls : step[k] = "append" => ordinal[k] = Len(records[ProcessOf[k]])

EffectorInv ==
    /\ EffectorTypeOK
    /\ RecordsTyped
    /\ InsideAlone
    /\ Measured
    /\ ReferencesUnique

(* What a call does to the effector, from its entry on. *)
EffectorStep(k) ==
    \/ \E cap \in Capabilities \cup {None} : EnterCommit(k, cap)
    \/ AcquireMutex(k) \/ TestFailNext(k) \/ FailCommit(k)
    \/ CountRecords(k) \/ AppendRecord(k) \/ ReleaseMutex(k)

EffectorNext ==
    \/ \E k \in Calls : EffectorStep(k)
    \/ \E p \in Processes : SetFailNext(p) \/ EffectorLost(p)

LEMMA EffectorInvInit == EffectorInit => EffectorInv
  BY CallAssumption, InjectionAssumption
  DEF EffectorInit, EffectorInv, EffectorTypeOK, RecordsTyped, InsideAlone, Measured,
      ReferencesUnique

(* What the effector's steps keep, one part of the invariant at a time. *)
LEMMA TypeKept ==
    ASSUME EffectorTypeOK, RecordsTyped, [EffectorNext]_effectorVars
    PROVE  EffectorTypeOK'
  <1> USE CallAssumption, InjectionAssumption DEF EffectorTypeOK
  <1>1. ASSUME NEW k \in Calls, EffectorStep(k) PROVE EffectorTypeOK'
    <2>1. ProcessOf[k] \in Processes /\ Len(records[ProcessOf[k]]) \in Nat
      BY DEF RecordsTyped
    <2>2. CASE \E cap \in Capabilities \cup {None} : EnterCommit(k, cap)
      BY <2>2 DEF EnterCommit, To
    <2>3. CASE AcquireMutex(k)
      BY <2>3 DEF AcquireMutex, To
    <2>4. CASE TestFailNext(k)
      BY <2>4 DEF TestFailNext, To
    <2>5. CASE FailCommit(k)
      BY <2>5 DEF FailCommit, Out
    <2>6. CASE CountRecords(k)
      BY <2>1, <2>6 DEF CountRecords, To
    <2>7. CASE AppendRecord(k)
      BY <2>7 DEF AppendRecord, To
    <2>8. CASE ReleaseMutex(k)
      BY <2>8 DEF ReleaseMutex, Out
    <2> QED
      BY <1>1, <2>2, <2>3, <2>4, <2>5, <2>6, <2>7, <2>8 DEF EffectorStep
  <1>2. ASSUME NEW p \in Processes, SetFailNext(p) PROVE EffectorTypeOK'
    BY <1>2 DEF SetFailNext
  <1>3. ASSUME NEW p \in Processes, EffectorLost(p) PROVE EffectorTypeOK'
    BY <1>3 DEF EffectorLost, CallsOf
  <1>4. CASE UNCHANGED effectorVars
    BY <1>4 DEF effectorVars
  <1> QED
    BY <1>1, <1>2, <1>3, <1>4 DEF EffectorNext

LEMMA AloneKept ==
    ASSUME EffectorTypeOK, InsideAlone, [EffectorNext]_effectorVars
    PROVE  InsideAlone'
  <1> USE CallAssumption DEF EffectorTypeOK, InsideAlone
  <1>1. ASSUME NEW k \in Calls, EffectorStep(k) PROVE InsideAlone'
    <2>1. CASE \E cap \in Capabilities \cup {None} : EnterCommit(k, cap)
      BY <2>1 DEF EnterCommit, To
    <2>2. CASE AcquireMutex(k)
      BY <2>2 DEF AcquireMutex, To
    <2>3. CASE TestFailNext(k) \/ CountRecords(k) \/ AppendRecord(k)
      BY <2>3 DEF TestFailNext, CountRecords, AppendRecord, To
    <2>4. CASE FailCommit(k) \/ ReleaseMutex(k)
      BY <2>4 DEF FailCommit, ReleaseMutex, Out
    <2> QED
      BY <1>1, <2>1, <2>2, <2>3, <2>4 DEF EffectorStep
  <1>2. ASSUME NEW p \in Processes, SetFailNext(p) PROVE InsideAlone'
    BY <1>2 DEF SetFailNext
  <1>3. ASSUME NEW p \in Processes, EffectorLost(p) PROVE InsideAlone'
    BY <1>3 DEF EffectorLost, CallsOf
  <1>4. CASE UNCHANGED effectorVars
    BY <1>4 DEF effectorVars
  <1> QED
    BY <1>1, <1>2, <1>3, <1>4 DEF EffectorNext

(* An append is the only step of a call that touches the list. *)
LEMMA AppendKeeps ==
    ASSUME EffectorInv, NEW k \in Calls, AppendRecord(k)
    PROVE  RecordsTyped' /\ Measured' /\ ReferencesUnique'
  <1> DEFINE p == ProcessOf[k]
             r == [cap |-> given[k], ordinal |-> ordinal[k]]
             R == [cap : Capabilities \cup {None}, ordinal : Nat]
  <1>1. /\ p \in Processes
        /\ r \in R /\ r.ordinal = Len(records[p])
        /\ records \in [Processes -> Seq(R)]
    BY CallAssumption DEF AppendRecord, EffectorInv, EffectorTypeOK, RecordsTyped, Measured
  <1>2. records' = [records EXCEPT ![p] = Append(@, r)]
    BY DEF AppendRecord
  <1> HIDE DEF p, r, R
  <1>3. records' \in [Processes -> Seq(R)]
    BY <1>1, <1>2
  <1>4. Measured'
    BY CallAssumption, <1>1, <1>2
    DEF AppendRecord, To, EffectorInv, EffectorTypeOK, InsideAlone, Measured, p
  <1>5. ReferencesUnique'
    <2> SUFFICES ASSUME NEW q \in Processes, NEW i \in DOMAIN records'[q]
                 PROVE  records'[q][i].ordinal = i - 1
      BY DEF ReferencesUnique
    <2>1. i \in DOMAIN records[q] => records[q][i].ordinal = i - 1
      BY DEF EffectorInv, ReferencesUnique
    <2>2. CASE q = p
      <3>1. /\ records[p] \in Seq(R)
            /\ records'[q] = Append(records[p], r)
        BY <1>1, <1>2, <2>2
      <3> QED
        BY <1>1, <2>1, <2>2, <3>1
    <2>3. CASE q # p
      BY <1>1, <1>2, <2>1, <2>3
    <2> QED
      BY <2>2, <2>3
  <1> QED
    BY <1>3, <1>4, <1>5 DEF RecordsTyped, R

LEMMA RecordsKept ==
    ASSUME EffectorInv, [EffectorNext]_effectorVars
    PROVE  RecordsTyped' /\ Measured' /\ ReferencesUnique'
  <1> USE CallAssumption
      DEF EffectorInv, EffectorTypeOK, RecordsTyped, Measured, ReferencesUnique
  <1>1. ASSUME NEW k \in Calls, EffectorStep(k)
        PROVE  RecordsTyped' /\ Measured' /\ ReferencesUnique'
    <2>1. CASE \E cap \in Capabilities \cup {None} : EnterCommit(k, cap)
      BY <2>1 DEF EnterCommit, To
    <2>2. CASE AcquireMutex(k)
      BY <2>2 DEF AcquireMutex, To
    <2>3. CASE TestFailNext(k)
      BY <2>3 DEF TestFailNext, To
    <2>4. CASE CountRecords(k)
      BY <2>4 DEF CountRecords, To
    <2>5. CASE AppendRecord(k)
      BY <2>5, AppendKeeps
    <2>6. CASE FailCommit(k) \/ ReleaseMutex(k)
      BY <2>6 DEF FailCommit, ReleaseMutex, Out
    <2> QED
      BY <1>1, <2>1, <2>2, <2>3, <2>4, <2>5, <2>6 DEF EffectorStep
  <1>2. ASSUME NEW p \in Processes, SetFailNext(p)
        PROVE  RecordsTyped' /\ Measured' /\ ReferencesUnique'
    BY <1>2 DEF SetFailNext
  <1>3. ASSUME NEW p \in Processes, EffectorLost(p)
        PROVE  RecordsTyped' /\ Measured' /\ ReferencesUnique'
    <2>1. records' = [records EXCEPT ![p] = <<>>]
      BY <1>3 DEF EffectorLost
    <2>2. ASSUME NEW R, records \in [Processes -> Seq(R)]
          PROVE  records' \in [Processes -> Seq(R)]
      BY <2>1, <2>2
    <2>3. Measured'
      BY <1>3 DEF EffectorLost, CallsOf
    <2>4. ASSUME NEW q \in Processes, NEW i \in DOMAIN records'[q]
          PROVE  records'[q][i].ordinal = i - 1
      <3>1. q # p
        BY <2>1
      <3>2. records'[q] = records[q]
        BY <2>1, <3>1
      <3> QED
        BY <3>2
    <2> QED
      BY <2>2, <2>3, <2>4
  <1>4. CASE UNCHANGED effectorVars
    BY <1>4 DEF effectorVars
  <1> QED
    BY <1>1, <1>2, <1>3, <1>4 DEF EffectorNext

LEMMA EffectorInvInductive == EffectorInv /\ [EffectorNext]_effectorVars => EffectorInv'
  <1> SUFFICES ASSUME EffectorInv, [EffectorNext]_effectorVars PROVE EffectorInv'
    OBVIOUS
  <1>1. EffectorTypeOK'
    BY TypeKept DEF EffectorInv
  <1>2. InsideAlone'
    BY AloneKept DEF EffectorInv
  <1>3. RecordsTyped' /\ Measured' /\ ReferencesUnique'
    BY RecordsKept
  <1> QED
    BY <1>1, <1>2, <1>3 DEF EffectorInv

(* The path drives the effector only through these steps. *)
LEMMA PathDrivesEffector ==
    ClaimTypeOK /\ [PathNext]_pathVars => [EffectorNext]_effectorVars
  <1> SUFFICES ASSUME ClaimTypeOK, [PathNext]_pathVars PROVE [EffectorNext]_effectorVars
    OBVIOUS
  <1>1. ASSUME NEW k \in Calls, PathStep(k)
        PROVE  EffectorStep(k) \/ UNCHANGED effectorVars
    BY <1>1
    DEF PathStep, ClaimPath, CommitPath, EffectPathStep, EffectorStep, ClaimTypeOK
  <1>2. ASSUME NEW k \in Calls, NEW cap \in Capabilities, BeginPath(k, cap)
        PROVE  UNCHANGED effectorVars
    BY <1>2 DEF BeginPath
  <1>3. CASE InjectFailure
    BY <1>3 DEF InjectFailure, EffectorNext
  <1>4. ASSUME NEW p \in Processes, Crash(p) PROVE EffectorLost(p)
    BY <1>4 DEF Crash
  <1>5. CASE UNCHANGED pathVars
    BY <1>5 DEF pathVars
  <1> QED
    BY <1>1, <1>2, <1>3, <1>4, <1>5 DEF PathNext, EffectorNext

LEMMA EffectorInvCorrect == PathSpec => []EffectorInv
  <1>1. PathInit => EffectorInit
    BY DEF PathInit
  <1> QED
    BY <1>1, ClaimTypeCorrect, EffectorInvInit, EffectorInvInductive, PathDrivesEffector, PTL
    DEF PathSpec, PathSafety

(* No two effects of a process share a reference, for any number of        *)
(* concurrent commits, failures and crashes (effectors.py:55-65).          *)
THEOREM ReferencesUniqueCorrect == PathSpec => []ReferencesUnique
  <1>1. EffectorInv => ReferencesUnique
    BY DEF EffectorInv
  <1> QED
    BY <1>1, EffectorInvCorrect, PTL
-----------------------------------------------------------------------------
(* The refinement of CapabilityLife.  A call owes the effect of a row it   *)
(* has committed until it has appended the record, and nobody else does.   *)
Returning(k) == at[k] = "return"

Giving(k) == step[k] \notin {"out", "release"}

PresentedFirst ==
    /\ rows \subseteq presented
    /\ \A k \in Calls : at[k] # "idle" => arg[k] \in presented

OneThingAtATime == \A k \in Calls : at[k] = "idle" \/ step[k] = "out"

OwedOnce ==
    \A k \in Calls : Giving(k) =>
        /\ given[k] \in rows
        /\ \A l \in Calls : Returning(l) => arg[l] # given[k]
        /\ \A l \in Calls \ {k} : Giving(l) => given[l] # given[k]

PathInv == PresentedFirst /\ OneThingAtATime /\ OwedOnce
Held ==
    {arg[k] : k \in {c \in Calls : at[c] = "return"}}
        \cup {given[k] : k \in {c \in Calls : step[c] \notin {"out", "release"}}}

LEMMA HeldIsOwed ==
    \A x : x \in Held <=> \E k \in Calls : \/ Returning(k) /\ x = arg[k]
                                           \/ Giving(k) /\ x = given[k]
  BY DEF Held, Returning, Giving

(* No call owes what it did not owe before. *)
Unburdened ==
    \A k \in Calls :
        /\ at'[k] = "return" => Returning(k) /\ arg'[k] = arg[k]
        /\ step'[k] \notin {"out", "release"} => Giving(k) /\ given'[k] = given[k]

LEMMA UnburdenedIsVoid ==
    ASSUME OwedOnce, Unburdened, UNCHANGED <<presented, rows, log>>
    PROVE  OwedOnce' /\ PathLife!LifeNext
  <1>1. OwedOnce'
    BY DEF OwedOnce, Unburdened, Returning, Giving
  <1>2. Held' \subseteq Held
    BY DEF Held, Unburdened, Returning, Giving
  <1>3. PathLife!Void
    BY <1>2 DEF PathLife!Void, Held
  <1> QED
    BY <1>1, <1>3 DEF PathLife!LifeNext

LEMMA BeginPathLives ==
    ASSUME ClaimInv, PathInv, NEW k \in Calls, NEW cap \in Capabilities, BeginPath(k, cap)
    PROVE  PathInv' /\ PathLife!LifeNext
  <1>1. /\ at[k] = "idle" /\ step[k] = "out"
        /\ at' = [at EXCEPT ![k] = "begin"] /\ arg' = [arg EXCEPT ![k] = cap]
        /\ presented' = presented \cup {cap}
        /\ UNCHANGED <<rows, step, given, log>>
        /\ DOMAIN at = Calls /\ DOMAIN arg = Calls
    BY DEF BeginPath, Connect, effectorVars, ClaimInv, ClaimTypeOK
  <1>2. /\ \A l \in Calls : at'[l] = "return" <=> at[l] = "return"
        /\ \A l \in Calls : at[l] = "return" => arg'[l] = arg[l]
    BY <1>1
  <1>3. Held' = Held
    BY <1>1, <1>2 DEF Held
  <1>4. PresentedFirst' /\ OneThingAtATime'
    BY <1>1 DEF PathInv, PresentedFirst, OneThingAtATime
  <1>5. OwedOnce'
    BY <1>1, <1>2 DEF PathInv, OwedOnce, Returning, Giving
  <1>6. CASE cap \in presented
    <2>1. presented' = presented
      BY <1>1, <1>6
    <2> QED
      BY <1>1, <1>3, <1>4, <1>5, <2>1 DEF PathInv, PathLife!LifeNext, PathLife!Void, Held
  <1>7. CASE cap \notin presented
    <2>1. cap \in presented' \ presented
      BY <1>1, <1>7
    <2>2. presented' \ rows' = (presented \ rows) \cup {cap}
      BY <1>1, <1>7 DEF PathInv, PresentedFirst
    <2>3. PathLife!Issue
      BY <1>1, <1>3, <2>1, <2>2 DEF PathLife!Issue, Held
    <2> QED
      BY <1>4, <1>5, <2>3 DEF PathInv, PathLife!LifeNext
  <1> QED
    BY <1>6, <1>7

(* Up to its COMMIT a claim owes nothing, and when it fails it never will. *)
LEMMA ClaimingLives ==
    ASSUME ClaimInv, PathInv, NEW k \in Calls, ClaimPath(k), ~Commit(k)
    PROVE  PathInv' /\ PathLife!LifeNext
  <1>1. /\ at[k] \notin {"idle", "return"} /\ at'[k] # "return"
        /\ at'[k] # "idle" => arg'[k] = arg[k]
        /\ \A l \in Calls \ {k} : at'[l] = at[l] /\ arg'[l] = arg[l]
        /\ UNCHANGED rows
    BY DEF ClaimPath, ClaimStep, BeginImmediate, BusyTimeout, Insert, Rollback, StatementFails,
           Goto, Leave, ClaimInv, ClaimTypeOK
  <1>2. UNCHANGED <<step, given, presented, log>>
    BY DEF ClaimPath, effectorVars
  <1>3. PresentedFirst' /\ OneThingAtATime'
    BY <1>1, <1>2 DEF PathInv, PresentedFirst, OneThingAtATime
  <1>4. Unburdened
    BY <1>1, <1>2 DEF Unburdened, Returning, Giving
  <1> QED
    BY <1>1, <1>2, <1>3, <1>4, UnburdenedIsVoid DEF PathInv

(* COMMIT consumes the capability. *)
LEMMA CommitLives ==
    ASSUME ClaimInv, PathInv, NEW k \in Calls, ClaimPath(k), Commit(k)
    PROVE  PathInv' /\ PathLife!LifeNext
  <1> DEFINE cap == arg[k]
  <1>1. /\ at[k] = "commit" /\ at' = [at EXCEPT ![k] = "return"]
        /\ rows' = rows \cup {cap}
        /\ DOMAIN at = Calls
        /\ UNCHANGED <<arg, step, given, presented, log>>
    BY DEF ClaimPath, Commit, Goto, effectorVars, ClaimInv, ClaimTypeOK, OneRowOpen
  <1>2. cap \in presented /\ cap \notin rows /\ step[k] = "out"
    BY <1>1 DEF PathInv, PresentedFirst, OneThingAtATime, ClaimInv, CommitsFresh
  <1>3. PresentedFirst' /\ OneThingAtATime'
    BY <1>1, <1>2 DEF PathInv, PresentedFirst, OneThingAtATime
  <1>4. OwedOnce'
    BY <1>1, <1>2 DEF PathInv, OwedOnce, Returning, Giving
  <1>5. {l \in Calls : at'[l] = "return"} = {l \in Calls : at[l] = "return"} \cup {k}
    BY <1>1
  <1>6. Held' = Held \cup {cap}
    BY <1>1, <1>5 DEF Held
  <1>7. cap \in presented \ rows /\ presented' \ rows' = (presented \ rows) \ {cap}
    BY <1>1, <1>2
  <1>8. PathLife!Consume
    BY <1>1, <1>6, <1>7 DEF PathLife!Consume, Held
  <1> QED
    BY <1>3, <1>4, <1>8 DEF PathInv, PathLife!LifeNext

(* The handle is called with what the claim was for. *)
LEMMA CommitPathLives ==
    ASSUME ClaimInv, EffectorInv, PathInv, NEW k \in Calls, CommitPath(k)
    PROVE  PathInv' /\ PathLife!LifeNext
  <1> DEFINE cap == arg[k]
  <1>1. /\ at[k] = "return" /\ step[k] = "out"
        /\ at'[k] = "idle" /\ step'[k] = "lock" /\ given'[k] = cap
        /\ \A l \in Calls \ {k} : /\ at'[l] = at[l] /\ arg'[l] = arg[l]
                                  /\ step'[l] = step[l] /\ given'[l] = given[l]
        /\ UNCHANGED <<rows, presented, log>>
    BY DEF CommitPath, Return, EnterCommit, Leave, To, ClaimInv, ClaimTypeOK,
           EffectorInv, EffectorTypeOK
  <1>2. PresentedFirst' /\ OneThingAtATime'
    BY <1>1 DEF PathInv, PresentedFirst, OneThingAtATime
  <1>3. cap \in rows /\ \A l \in Calls \ {k} : Returning(l) => arg[l] # cap
    BY <1>1 DEF ClaimInv, ReturnsOnce, Returning
  <1>4. OwedOnce'
    BY <1>1, <1>3 DEF PathInv, OwedOnce, Returning, Giving
  <1>5. Held' \subseteq Held
    BY <1>1 DEF Held
  <1>6. PathLife!Void
    BY <1>1, <1>5 DEF PathLife!Void, Held
  <1> QED
    BY <1>2, <1>4, <1>6 DEF PathInv, PathLife!LifeNext

LEMMA CommittingLives ==
    ASSUME ClaimInv, EffectorInv, PathInv, NEW k \in Calls,
           \/ AcquireMutex(k) \/ TestFailNext(k) \/ FailCommit(k)
           \/ CountRecords(k) \/ ReleaseMutex(k),
           UNCHANGED <<claimVars, presented, log>>
    PROVE  PathInv' /\ PathLife!LifeNext
  <1>1. /\ step[k] # "out"
        /\ step'[k] \notin {"out", "release"} => Giving(k) /\ given'[k] = given[k]
        /\ \A l \in Calls \ {k} : step'[l] = step[l] /\ given'[l] = given[l]
    BY DEF AcquireMutex, TestFailNext, FailCommit, CountRecords, ReleaseMutex, To, Out, Giving,
           EffectorInv, EffectorTypeOK
  <1>2. UNCHANGED <<rows, at, arg, presented, log>>
    BY DEF claimVars
  <1>3. PresentedFirst' /\ OneThingAtATime'
    BY <1>1, <1>2 DEF PathInv, PresentedFirst, OneThingAtATime
  <1>4. Unburdened
    BY <1>1, <1>2 DEF Unburdened, Returning, Giving
  <1> QED
    BY <1>2, <1>3, <1>4, UnburdenedIsVoid DEF PathInv

(* The append is the effect. *)
LEMMA AppendLives ==
    ASSUME ClaimInv, EffectorInv, PathInv, NEW k \in Calls, AppendRecord(k),
           log' = [log EXCEPT ![ProcessOf[k]] = Append(@, given[k])],
           UNCHANGED <<claimVars, presented>>
    PROVE  PathInv' /\ PathLife!LifeNext
  <1> DEFINE cap == given[k]
  <1>1. /\ step[k] = "append" /\ step'[k] = "release"
        /\ \A l \in Calls \ {k} : step'[l] = step[l]
        /\ UNCHANGED <<given, rows, at, arg, presented>>
    BY DEF AppendRecord, To, claimVars, EffectorInv, EffectorTypeOK
  <1>2. PresentedFirst' /\ OneThingAtATime'
    BY <1>1 DEF PathInv, PresentedFirst, OneThingAtATime
  <1>3. OwedOnce'
    BY <1>1 DEF PathInv, OwedOnce, Returning, Giving
  <1>4. /\ \A l \in Calls : at[l] = "return" => arg[l] # cap
        /\ \A l \in Calls \ {k} : step[l] \notin {"out", "release"} => given[l] # cap
    BY <1>1 DEF PathInv, OwedOnce, Returning, Giving
  <1>5. cap \in Held /\ Held' = Held \ {cap}
    BY <1>1, <1>4 DEF Held
  <1>6. ProcessOf[k] \in Processes
    BY CallAssumption
  <1>7. PathLife!TakeEffect
    BY <1>1, <1>5, <1>6 DEF PathLife!TakeEffect, Held
  <1> QED
    BY <1>2, <1>3, <1>7 DEF PathInv, PathLife!LifeNext

LEMMA CrashLives ==
    ASSUME ClaimInv, EffectorInv, PathInv, NEW p \in Processes, Crash(p)
    PROVE  PathInv' /\ PathLife!LifeNext
  <1>1. /\ \A k \in Calls : at'[k] \in {"idle", at[k]} /\ step'[k] \in {"out", step[k]}
        /\ \A k \in Calls : at'[k] # "idle" => arg'[k] = arg[k]
        /\ \A k \in Calls : step'[k] # "out" => given'[k] = given[k]
        /\ UNCHANGED <<rows, presented, log>>
    BY DEF Crash, Die, EffectorLost, CallsOf, ClaimInv, ClaimTypeOK
  <1>2. PresentedFirst' /\ OneThingAtATime'
    BY <1>1 DEF PathInv, PresentedFirst, OneThingAtATime
  <1>3. Unburdened
    BY <1>1 DEF Unburdened, Returning, Giving
  <1> QED
    BY <1>1, <1>2, <1>3, UnburdenedIsVoid DEF PathInv

LEMMA PathNextLives ==
    ClaimInv /\ EffectorInv /\ PathInv /\ [PathNext]_pathVars => PathInv' /\ PathLife!LifeNext
  <1> SUFFICES ASSUME ClaimInv, EffectorInv, PathInv, [PathNext]_pathVars
               PROVE  PathInv' /\ PathLife!LifeNext
    OBVIOUS
  <1>1. ASSUME UNCHANGED <<rows, at, arg, step, given, presented, log>>
        PROVE  PathInv' /\ PathLife!LifeNext
    <2>1. Unburdened
      BY <1>1 DEF Unburdened, Returning, Giving
    <2>2. PresentedFirst' /\ OneThingAtATime'
      BY <1>1 DEF PathInv, PresentedFirst, OneThingAtATime
    <2> QED
      BY <1>1, <2>1, <2>2, UnburdenedIsVoid DEF PathInv
  <1>2. ASSUME NEW k \in Calls, PathStep(k)
        PROVE  PathInv' /\ PathLife!LifeNext
    BY <1>2, ClaimingLives, CommitLives, CommitPathLives, CommittingLives, AppendLives
    DEF PathStep, EffectPathStep
  <1>3. ASSUME NEW k \in Calls, NEW cap \in Capabilities, BeginPath(k, cap)
        PROVE  PathInv' /\ PathLife!LifeNext
    BY <1>3, BeginPathLives
  <1>4. CASE InjectFailure
    BY <1>1, <1>4 DEF InjectFailure, SetFailNext, claimVars
  <1>5. ASSUME NEW p \in Processes, Crash(p)
        PROVE  PathInv' /\ PathLife!LifeNext
    BY <1>5, CrashLives
  <1>6. CASE UNCHANGED pathVars
    BY <1>1, <1>6 DEF pathVars, claimVars, effectorVars
  <1> QED
    BY <1>2, <1>3, <1>4, <1>5, <1>6 DEF PathNext

LEMMA PathInitLives == PathInit => PathInv /\ PathLife!LifeInit
  BY DEF PathInit, ClaimInit, EffectorInit, PathInv, PresentedFirst, OneThingAtATime, OwedOnce,
         Returning, Giving, PathLife!LifeInit

LEMMA ClaimInvCorrect == PathSpec => []ClaimInv
  BY PathMakesClaims, ClaimInvInit, ClaimInvInductive, PTL DEF ClaimSpec

(* Statement by statement, for any number of calls in any number of        *)
(* processes that die anywhere, the path does to capabilities only what    *)
(* CapabilityLife allows: no effect before its row is on disk, none twice, *)
(* none regained after a crash (sink.py:142-158, state.py:153-168).        *)
THEOREM PathImplementsLifeCorrect == PathSpec => PathImplementsLife
  <1>1. PathSpec => PathLife!LifeSpec
    BY PathInitLives, PathNextLives, ClaimInvCorrect, EffectorInvCorrect, PTL
    DEF PathSpec, PathSafety, PathLife!LifeSpec
  <1> QED
    BY <1>1 DEF PathImplementsLife
-----------------------------------------------------------------------------
(* The processes where an injected failure is still to come. *)
Pending == {p \in Processes : failNext[p] \/ \E k \in CallsOf(p) : step[k] = "fail"}

FailuresCounted == IsFiniteSet(Pending) /\ failures + Cardinality(Pending) <= injections

LEMMA PendingShrinks ==
    ASSUME FailuresCounted, EffectorTypeOK, Pending' \subseteq Pending,
           UNCHANGED <<injections, failures>>
    PROVE  FailuresCounted'
  <1>1. /\ IsFiniteSet(Pending') /\ Cardinality(Pending') <= Cardinality(Pending)
        /\ Cardinality(Pending') \in Nat /\ Cardinality(Pending) \in Nat
    BY FS_Subset, FS_CardinalityType DEF FailuresCounted
  <1> QED
    BY <1>1 DEF FailuresCounted, EffectorTypeOK

LEMMA InjectionCounted ==
    ASSUME FailuresCounted, EffectorTypeOK, NEW p \in Processes, SetFailNext(p)
    PROVE  FailuresCounted'
  <1>1. Pending' = Pending \cup {p}
    BY DEF SetFailNext, Pending, EffectorTypeOK
  <1>2. IsFiniteSet(Pending) /\ Cardinality(Pending) \in Nat
    BY FS_CardinalityType DEF FailuresCounted
  <1>3. /\ IsFiniteSet(Pending') /\ Cardinality(Pending') \in Nat
        /\ Cardinality(Pending') <= Cardinality(Pending) + 1
    <2> DEFINE more == Pending \cup {p}
    <2>1. IsFiniteSet(more) /\ Cardinality(more) <= Cardinality(Pending) + 1
      BY <1>2, FS_AddElement
    <2>2. Cardinality(more) \in Nat
      BY <2>1, FS_CardinalityType
    <2> QED
      BY <1>1, <2>1, <2>2
  <1>4. injections' = injections + 1 /\ failures' = failures
    BY DEF SetFailNext
  <1> QED
    BY <1>2, <1>3, <1>4 DEF FailuresCounted, EffectorTypeOK

(* The call that fails is alone in its process, so nobody else is left     *)
(* with the failure it took.                                               *)
LEMMA FailureCounted ==
    ASSUME FailuresCounted, EffectorTypeOK, InsideAlone, NEW k \in Calls, FailCommit(k)
    PROVE  FailuresCounted'
  <1> DEFINE p == ProcessOf[k]
  <1>1. /\ p \in Processes /\ step[k] = "fail" /\ step' = [step EXCEPT ![k] = "out"]
        /\ failNext' = [failNext EXCEPT ![p] = FALSE]
        /\ failures' = failures + 1 /\ injections' = injections
    BY CallAssumption DEF FailCommit, Out
  <1>2. \A l \in CallsOf(p) : step[l] = "fail" => l = k
    BY <1>1 DEF InsideAlone, CallsOf
  <1>3. p \in Pending
    BY <1>1 DEF Pending, CallsOf
  <1>4. ~failNext'[p] /\ \A l \in CallsOf(p) : step'[l] # "fail"
    BY <1>1, <1>2 DEF EffectorTypeOK, CallsOf
  <1>5. \A q \in Processes \ {p} : \/ q \in Pending
                                   \/ ~failNext'[q] /\ \A l \in CallsOf(q) : step'[l] # "fail"
    BY <1>1 DEF EffectorTypeOK, CallsOf, Pending
  <1>6. Pending' \subseteq Pending \ {p}
    BY <1>4, <1>5 DEF Pending, CallsOf
  <1>7. IsFiniteSet(Pending) /\ Cardinality(Pending) \in Nat
    BY FS_CardinalityType DEF FailuresCounted
  <1>8. /\ IsFiniteSet(Pending \ {p}) /\ Cardinality(Pending \ {p}) = Cardinality(Pending) - 1
    BY <1>3, <1>7, FS_RemoveElement
  <1>9. /\ IsFiniteSet(Pending') /\ Cardinality(Pending') \in Nat
        /\ Cardinality(Pending') <= Cardinality(Pending \ {p})
    BY <1>6, <1>8, FS_Subset, FS_CardinalityType
  <1> QED
    BY <1>1, <1>7, <1>8, <1>9 DEF FailuresCounted, EffectorTypeOK

LEMMA FailuresCountedKept ==
    EffectorInv /\ FailuresCounted /\ [EffectorNext]_effectorVars => FailuresCounted'
  <1> SUFFICES ASSUME EffectorInv, FailuresCounted, [EffectorNext]_effectorVars
               PROVE  FailuresCounted'
    OBVIOUS
  <1> USE DEF EffectorInv
  <1>1. ASSUME UNCHANGED <<failNext, injections, failures>>,
               \A k \in Calls : step'[k] = "fail" => step[k] = "fail" \/ failNext[ProcessOf[k]]
        PROVE  FailuresCounted'
    <2>1. Pending' \subseteq Pending
      BY <1>1 DEF Pending, CallsOf
    <2> QED
      BY <1>1, <2>1, PendingShrinks
  <1>2. ASSUME NEW k \in Calls, EffectorStep(k) PROVE FailuresCounted'
    <2>1. CASE FailCommit(k)
      BY <2>1, FailureCounted
    <2>2. CASE ~FailCommit(k)
      BY <1>1, <1>2, <2>2
      DEF EffectorStep, EnterCommit, AcquireMutex, TestFailNext, CountRecords, AppendRecord,
          ReleaseMutex, To, Out, EffectorTypeOK
    <2> QED
      BY <2>1, <2>2
  <1>3. ASSUME NEW p \in Processes, SetFailNext(p) PROVE FailuresCounted'
    BY <1>3, InjectionCounted
  <1>4. ASSUME NEW p \in Processes, EffectorLost(p) PROVE FailuresCounted'
    <2>1. Pending' \subseteq Pending
      BY <1>4 DEF EffectorLost, EffectorTypeOK, Pending, CallsOf
    <2> QED
      BY <1>4, <2>1, PendingShrinks DEF EffectorLost
  <1>5. CASE UNCHANGED effectorVars
    BY <1>1, <1>5 DEF effectorVars
  <1> QED
    BY <1>2, <1>3, <1>4, <1>5 DEF EffectorNext

(* One injected failure fails at most one commit, for any number of calls  *)
(* and processes, although the flag is set without the lock it is read and *)
(* reset under (effectors.py:55-58).                                       *)
THEOREM FailuresInjectedCorrect == PathSpec => []FailuresInjected
  <1>1. PathInit => FailuresCounted
    <2> SUFFICES ASSUME PathInit PROVE FailuresCounted
      OBVIOUS
    <2>1. Pending = {}
      BY DEF PathInit, EffectorInit, Pending, CallsOf
    <2> QED
      BY <2>1, FS_EmptySet DEF PathInit, EffectorInit, FailuresCounted
  <1>2. FailuresCounted => FailuresInjected
    BY DEF FailuresCounted, Pending, FailuresInjected
  <1> QED
    BY <1>1, <1>2, EffectorInvCorrect, ClaimTypeCorrect, PathDrivesEffector, FailuresCountedKept,
       PTL DEF PathSpec, PathSafety
=============================================================================
