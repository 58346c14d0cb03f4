----------------------------- MODULE LockedState -----------------------------
(***************************************************************************)
(* ProtectedState as threads run it (state.py): each method takes the      *)
(* RLock, works through its statements, and releases the lock on every way *)
(* out of the with block.  A Python thread may be suspended between any    *)
(* two of these steps.  The module implements the one-step methods of      *)
(* ProtectedState, whose variables it extends with the lock and, for every *)
(* thread, where it stands and what it holds in locals.                    *)
(***************************************************************************)
EXTENDS ProtectedState

CONSTANT Threads

(* A free lock has no owner: None is no thread. *)
ASSUME ThreadAssumption == Absent \notin Threads

VARIABLES
    lock,       \* the thread that holds the RLock, or Absent
    pc,         \* the statement each thread is about to run
    request,    \* the arguments of its call
    local       \* its locals: the transition it builds or finds, or the copy it reads

lockedVars == <<stateVars, lock, pc, request, local>>

Requests ==
    {[op |-> "authorize", cand |-> c, cost |-> k, digest |-> Digest(c, p)] :
        c \in Candidates, k \in Costs, p \in Payloads}
        \cup [op : {"configure"}, source : Sources, config : Configurations]
        \cup [op : {"snapshot"}, source : Sources]

(* verify_transition and get_transition, asked about one of ids. *)
Lookups(ids) ==
    [op : {"verify"}, transition_id : ids, cand : Candidates]
        \cup [op : {"get"}, transition_id : ids]

LockedInit ==
    /\ StateInit
    /\ lock = Absent
    /\ pc = [t \in Threads |-> "idle"]
    /\ request = [t \in Threads |-> Absent]
    /\ local = [t \in Threads |-> Absent]

Goto(t, step) == pc' = [pc EXCEPT ![t] = step]

(* A grant has begun to be written and is not yet complete. *)
InFlight == {t \in Threads : pc[t] \in {"charge", "reserve", "record"}}

(* The ids a caller can have: of a recorded transition, of one that is     *)
(* being recorded (from an earlier process that granted the same), or of   *)
(* none.                                                                   *)
KnownIds == transitions \cup {local[t] : t \in InFlight} \cup {Absent}

-----------------------------------------------------------------------------
(* A caller enters a method; a cost that is not positive raises before the *)
(* lock is touched, so such a call changes nothing.                        *)
Call(t, r) ==
    /\ pc[t] = "idle"
    /\ r.op = "authorize" => r.cost > 0
    /\ request' = [request EXCEPT ![t] = r]
    /\ Goto(t, "wait")
    /\ UNCHANGED <<stateVars, lock, local>>

(* The faults: snapshot, or the two lookups, read without the lock. *)
AcquireUnlessLookup(t) ==
    /\ pc[t] = "wait"
    /\ lock = Absent \/ request[t].op \in {"verify", "get"}
    /\ lock' = IF request[t].op \in {"verify", "get"} THEN lock ELSE t
    /\ Goto(t, request[t].op)
    /\ UNCHANGED <<stateVars, request, local>>

AcquireUnlessSnapshot(t) ==
    /\ pc[t] = "wait"
    /\ lock = Absent \/ request[t].op = "snapshot"
    /\ lock' = IF request[t].op = "snapshot" THEN lock ELSE t
    /\ Goto(t, request[t].op)
    /\ UNCHANGED <<stateVars, request, local>>

Acquire(t) ==
    /\ pc[t] = "wait"
    /\ lock = Absent
    /\ lock' = t
    /\ Goto(t, request[t].op)
    /\ UNCHANGED <<stateVars, request, local>>

(* The end of the with block, reached by return and by raise alike. *)
Release(t) ==
    /\ pc[t] = "release"
    /\ lock' = Absent
    /\ Goto(t, "idle")
    /\ request' = [request EXCEPT ![t] = Absent]
    /\ local' = [local EXCEPT ![t] = Absent]
    /\ UNCHANGED stateVars

-----------------------------------------------------------------------------
(* transition_for_authorization, statement by statement.  The faults: the  *)
(* checks are made under the lock and the rest without it; a refusal       *)
(* leaves without releasing the lock.                                      *)
CheckThenAct(t) ==
    /\ pc[t] = "authorize"
    /\ Goto(t, IF CanReserve(request[t].cand, request[t].cost) THEN "read" ELSE "release")
    /\ lock' = Absent
    /\ UNCHANGED <<stateVars, request, local>>

CheckKeepsLock(t) ==
    /\ pc[t] = "authorize"
    /\ Goto(t, IF CanReserve(request[t].cand, request[t].cost) THEN "read" ELSE "idle")
    /\ UNCHANGED <<stateVars, lock, request, local>>

Check(t) ==
    /\ pc[t] = "authorize"
    /\ Goto(t, IF CanReserve(request[t].cand, request[t].cost) THEN "read" ELSE "release")
    /\ UNCHANGED <<stateVars, lock, request, local>>

ReadBefore(t) ==
    /\ pc[t] = "read"
    /\ local' = [local EXCEPT ![t] =
                    TransitionCore(request[t].cand, request[t].cost, request[t].digest)]
    /\ Goto(t, "write")
    /\ UNCHANGED <<stateVars, lock, request>>

WriteVersion(t) ==
    /\ pc[t] = "write"
    /\ sources' = [sources EXCEPT ![local[t].source].version = local[t].after_version]
    /\ granted' = [granted EXCEPT ![local[t].source] = @ \cup {local[t]}]
    /\ Goto(t, "charge")
    /\ UNCHANGED <<nonces, transitions, configured, lock, request, local>>

WriteQuota(t) ==
    /\ pc[t] = "charge"
    /\ sources' = [sources EXCEPT ![local[t].source].quota = local[t].quota_after,
                                  ![local[t].source].budget = local[t].budget_after]
    /\ Goto(t, "reserve")
    /\ UNCHANGED <<nonces, transitions, configured, granted, lock, request, local>>

(* The fault: the nonce map is given the candidate's digest, not the id. *)
WriteDigest(t) ==
    /\ pc[t] = "reserve"
    /\ nonces' = [nonces EXCEPT ![local[t].nonce] = local[t].candidate_digest]
    /\ Goto(t, "record")
    /\ UNCHANGED <<sources, transitions, configured, granted, lock, request, local>>

WriteNonce(t) ==
    /\ pc[t] = "reserve"
    /\ nonces' = [nonces EXCEPT ![local[t].nonce] = local[t]]
    /\ Goto(t, "record")
    /\ UNCHANGED <<sources, transitions, configured, granted, lock, request, local>>

WriteTransition(t) ==
    /\ pc[t] = "record"
    /\ transitions' = transitions \cup {local[t]}
    /\ Goto(t, "release")
    /\ UNCHANGED <<sources, nonces, configured, granted, lock, request, local>>

(* configure_source replaces the SourceState object in one store. *)
Configure(t) ==
    /\ pc[t] = "configure"
    /\ ConfigureSource(request[t].source, request[t].config)
    /\ Goto(t, "release")
    /\ UNCHANGED <<lock, request, local>>

(* snapshot copies version, then quota and budget. *)
SnapshotVersion(t) ==
    /\ pc[t] = "snapshot"
    /\ local' = [local EXCEPT ![t] =
                    [Fresh(0, 0) EXCEPT !.version = sources[request[t].source].version]]
    /\ Goto(t, "copy")
    /\ UNCHANGED <<stateVars, lock, request>>

SnapshotQuota(t) ==
    /\ pc[t] = "copy"
    /\ local' = [local EXCEPT ![t].quota = sources[request[t].source].quota,
                              ![t].budget = sources[request[t].source].budget]
    /\ Goto(t, "release")
    /\ UNCHANGED <<stateVars, lock, request>>

(* self._transitions.get, with which both lookups start. *)
Find(t) ==
    /\ pc[t] \in {"verify", "get"}
    /\ local' = [local EXCEPT ![t] =
                    IF request[t].transition_id \in transitions
                    THEN request[t].transition_id ELSE Absent]
    /\ Goto(t, IF pc[t] = "verify" THEN "judge" ELSE "release")
    /\ UNCHANGED <<stateVars, lock, request>>

(* The rest of verify_transition, its second look at shared state (the     *)
(* nonce map) included; it answers True when it still holds a transition   *)
(* at the end.                                                             *)
Judge(t) ==
    /\ pc[t] = "judge"
    /\ local' = [local EXCEPT ![t] =
                    IF local[t] # Absent /\ TransitionVerified(local[t], request[t].cand)
                    THEN local[t] ELSE Absent]
    /\ Goto(t, "release")
    /\ UNCHANGED <<stateVars, lock, request>>

-----------------------------------------------------------------------------
Step(t) ==
    \/ Check(t) \/ ReadBefore(t)
    \/ WriteVersion(t) \/ WriteQuota(t) \/ WriteNonce(t) \/ WriteTransition(t)
    \/ Configure(t)
    \/ SnapshotVersion(t) \/ SnapshotQuota(t)
    \/ Find(t) \/ Judge(t)
    \/ Release(t)

LockedNext ==
    \E t \in Threads :
        \/ \E r \in Requests \cup Lookups(KnownIds) : Call(t, r)
        \/ Acquire(t)
        \/ Step(t)

(* A thread that holds the lock is scheduled again; nothing is assumed of  *)
(* which waiting thread gets a free lock.                                  *)
LockedSpec ==
    LockedInit /\ [][LockedNext]_lockedVars /\ \A t \in Threads : WF_lockedVars(Step(t))

-----------------------------------------------------------------------------
LockedTypeOK ==
    /\ StateTypeOK
    /\ lock \in Threads \cup {Absent}
    /\ pc \in [Threads -> {"idle", "wait", "authorize", "read", "write", "charge", "reserve",
                           "record", "configure", "snapshot", "copy", "verify", "get", "judge",
                           "release"}]
    /\ request \in [Threads -> Requests \cup Lookups(TransitionIds \cup {Absent}) \cup {Absent}]
    /\ local \in [Threads -> TransitionIds \cup SourceStates \cup {Absent}]

(* A grant takes effect for all readers at its first write: from there on  *)
(* to the last one, the lock holder's remaining writes count as done.      *)
Atomic ==
    INSTANCE ProtectedState WITH
        sources <- [s \in Sources |->
                       IF \E t \in InFlight : local[t].source = s
                       THEN After(local[CHOOSE t \in InFlight : local[t].source = s])
                       ELSE sources[s]],
        nonces <- [n \in Nonces |->
                       IF \E t \in InFlight : local[t].nonce = n
                       THEN local[CHOOSE t \in InFlight : local[t].nonce = n]
                       ELSE nonces[n]],
        transitions <- transitions \cup {local[t] : t \in InFlight}

(* The threads never interleave to anything the one-step methods could not *)
(* do: no update is lost, no nonce is granted twice, no quota is spent     *)
(* below zero, whoever is suspended wherever (state.py:53-91).             *)
ImplementsProtectedState == Atomic!StateSpec

(* snapshot() never returns a torn copy: the version it read and the quota *)
(* it read belong together, one unit of quota per version since the source *)
(* was configured (state.py:107-110 against 88).                           *)
SnapshotNotTorn ==
    \A t \in Threads :
        pc[t] = "release" /\ request[t].op = "snapshot" =>
            local[t].quota + local[t].version = configured[request[t].source].quota

(* The lookups answer for the state they return into: a transition that is *)
(* verified is one the one-step method verifies at that moment, and none   *)
(* that it would verify is denied, although the record and the nonce map   *)
(* are written one after the other and read one after the other            *)
(* (state.py:93-105, 112-114 against 89-90).                               *)
LookupsCurrent ==
    \A t \in Threads :
        pc[t] = "release" /\ request[t].op \in {"verify", "get"} =>
            LET id == request[t].transition_id
            IN  /\ local[t] \in {id, Absent}
                /\ local[t] # Absent <=>
                      /\ id \in transitions
                      /\ request[t].op = "verify" => TransitionVerified(id, request[t].cand)

(* The lock is always given back, after a refused request as well as after *)
(* a granted one, so a waiting authorizer is never locked out for good     *)
(* (state.py:53-60, the raises inside the with block).                     *)
LockIsReleased == \A t \in Threads : lock = t ~> lock # t
=============================================================================
