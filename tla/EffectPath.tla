------------------------------ MODULE EffectPath ------------------------------
(***************************************************************************)
(* The lower half of effectuate (sink.py:142-158), statement by statement, *)
(* in several processes that share one SQLite file: a verified call claims *)
(* its capability in the file and then commits the effect on the effector  *)
(* of its process.  Processes die, with their locks and lists, and start   *)
(* again; what is in the file and what took effect outside remains.        *)
(***************************************************************************)
EXTENDS SQLiteClaims, GuardedEffector

VARIABLES
    presented,          \* history: the capabilities calls came with
    log                 \* history: per process, what took effect outside

pathVars == <<claimVars, effectorVars, presented, log>>

PathInit ==
    /\ ClaimInit /\ EffectorInit
    /\ presented = {}
    /\ log = [p \in Processes |-> <<>>]

(* A call that passed verify. *)
BeginPath(k, cap) ==
    /\ step[k] = "out"
    /\ Connect(k, cap)
    /\ presented' = presented \cup {cap}
    /\ UNCHANGED <<effectorVars, log>>

ClaimPath(k) ==
    /\ ClaimStep(k)
    /\ UNCHANGED <<effectorVars, presented, log>>

(* claim returned, the effect handle is called.                            *)
(* The fault: the handle is called also when claim raised ReplayDetected.  *)
CommitOnReplay(k) ==
    /\ Return(k) \/ Rollback(k)
    /\ EnterCommit(k, arg[k])
    /\ UNCHANGED <<presented, log>>

CommitPath(k) ==
    /\ Return(k)
    /\ EnterCommit(k, arg[k])
    /\ UNCHANGED <<presented, log>>

EffectPathStep(k) ==
    \/ /\ \/ AcquireMutex(k) \/ TestFailNext(k) \/ FailCommit(k)
          \/ CountRecords(k) \/ ReleaseMutex(k)
       /\ UNCHANGED <<claimVars, presented, log>>
    \/ /\ AppendRecord(k)
       /\ log' = [log EXCEPT ![ProcessOf[k]] = Append(@, given[k])]
       /\ UNCHANGED <<claimVars, presented>>

InjectFailure ==
    /\ \E p \in Processes : SetFailNext(p)
    /\ UNCHANGED <<claimVars, presented, log>>

Crash(p) ==
    /\ Die(p)
    /\ EffectorLost(p)
    /\ UNCHANGED <<presented, log>>

PathStep(k) == ClaimPath(k) \/ CommitPath(k) \/ EffectPathStep(k)

PathNext ==
    \/ \E k \in Calls : PathStep(k) \/ \E cap \in Capabilities : BeginPath(k, cap)
    \/ InjectFailure
    \/ \E p \in Processes : Crash(p)

PathSafety == PathInit /\ [][PathNext]_pathVars

(* SQLite gives a waiting call either the lock or an error in bounded      *)
(* time; a thread that can run is scheduled.                               *)
PathSpec == PathSafety /\ \A k \in Calls : WF_pathVars(PathStep(k))

-----------------------------------------------------------------------------
(* The life of a capability, as the file and the calls tell it.            *)
PathLife ==
    INSTANCE CapabilityLife WITH
        Channels <- Processes,
        issued <- presented,
        available <- presented \ rows,
        held <- {arg[k] : k \in {c \in Calls : at[c] = "return"}}
                \cup {given[k] : k \in {c \in Calls : step[c] \notin {"out", "release"}}}

(* Statement by statement, with processes dying anywhere, the path does to *)
(* capabilities only what CapabilityLife allows: no effect before its row  *)
(* is on disk, none twice in whichever processes, and none regained after  *)
(* a crash between row and effect (sink.py:142-158, state.py:153-168).     *)
PathImplementsLife == PathLife!LifeSpec

(* Every call returns or raises, also when the database stays locked and   *)
(* when the effector fails.                                                *)
PathsReturn == \A k \in Calls : at[k] # "idle" \/ step[k] # "out" ~> at[k] = "idle" /\ step[k] = "out"
=============================================================================
