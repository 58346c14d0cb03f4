--------------------------- MODULE ProtectedState ---------------------------
(***************************************************************************)
(* ProtectedState (state.py): nonces, quota, budget and version per        *)
(* source, and the transitions that changed them.  Every method runs under *)
(* one RLock, so here each is one step; LockedState shows that the locked  *)
(* code does implement these steps.                                        *)
(*                                                                         *)
(* sources, nonces and transitions are the three dicts of the class.  A    *)
(* transition_id is the hash of the transition's core, so the core itself  *)
(* stands for it, and the dict from id to transition is the set of cores.  *)
(* configured and granted are history: what the source was last configured *)
(* with, and the transitions granted to it since.                          *)
(***************************************************************************)
EXTENDS FinalityModels

CONSTANTS
    DefaultQuota, DefaultBudget,
    Configurations,     \* the [quota, budget] pairs configure_source is given
    Costs               \* the cost arguments callers pass

ASSUME QuotaAssumption ==
    /\ DefaultQuota \in Int
    /\ DefaultBudget \in Int
    /\ Configurations \subseteq [quota : Int, budget : Int]
    /\ Costs \subseteq Int

VARIABLES sources, nonces, transitions, configured, granted

stateVars == <<sources, nonces, transitions, configured, granted>>

SourceStates == [version : Nat, quota : Int, budget : Int]

Fresh(quota, budget) == [version |-> 0, quota |-> quota, budget |-> budget]

-----------------------------------------------------------------------------
(* __init__; _get_source inserts the default SourceState at first use,     *)
(* which no caller can tell from its having been there all along.          *)
NewSources == [s \in Sources |-> Fresh(DefaultQuota, DefaultBudget)]

NewConfigured == [s \in Sources |-> [quota |-> DefaultQuota, budget |-> DefaultBudget]]

StateInit ==
    /\ sources = NewSources
    /\ nonces = [n \in Nonces |-> Absent]
    /\ transitions = {}
    /\ configured = NewConfigured
    /\ granted = [s \in Sources |-> {}]

(* A new process makes a new ProtectedState: the class keeps nothing on    *)
(* disk.                                                                   *)
StateLost ==
    /\ sources' = NewSources
    /\ nonces' = [n \in Nonces |-> Absent]
    /\ transitions' = {}
    /\ configured' = NewConfigured
    /\ granted' = [s \in Sources |-> {}]

(* configure_source: a new SourceState, version 0 again; the nonces and    *)
(* the transitions of the source stay.                                     *)
(* The fault: the spent nonces of the source go with its old state.        *)
ConfigureForgetsNonces(s, q) ==
    /\ sources' = [sources EXCEPT ![s] = Fresh(q.quota, q.budget)]
    /\ configured' = [configured EXCEPT ![s] = q]
    /\ granted' = [granted EXCEPT ![s] = {}]
    /\ nonces' = [n \in Nonces |->
          IF nonces[n] # Absent /\ nonces[n].source = s THEN Absent ELSE nonces[n]]
    /\ UNCHANGED transitions

ConfigureSource(s, q) ==
    /\ sources' = [sources EXCEPT ![s] = Fresh(q.quota, q.budget)]
    /\ configured' = [configured EXCEPT ![s] = q]
    /\ granted' = [granted EXCEPT ![s] = {}]
    /\ UNCHANGED <<nonces, transitions>>

(* transition_for_authorization raises unless this holds.  Before it, what *)
(* it would be with a check forgotten (the nonce, the budget) or off by    *)
(* one (the quota).                                                        *)
CanReserveAnyNonce(c, cost) ==
    /\ cost > 0
    /\ sources[Act[c].source].quota >= 1
    /\ sources[Act[c].source].budget >= cost

CanReserveUnpaid(c, cost) ==
    /\ cost > 0
    /\ nonces[Act[c].nonce] = Absent
    /\ sources[Act[c].source].quota >= 1

CanReserveLastTwice(c, cost) ==
    /\ cost > 0
    /\ nonces[Act[c].nonce] = Absent
    /\ sources[Act[c].source].quota >= 0
    /\ sources[Act[c].source].budget >= cost

CanReserve(c, cost) ==
    /\ cost > 0
    /\ nonces[Act[c].nonce] = Absent
    /\ sources[Act[c].source].quota >= 1
    /\ sources[Act[c].source].budget >= cost

TransitionCore(c, cost, digest) ==
    LET before == sources[Act[c].source]
    IN  [nonce            |-> Act[c].nonce,
         source           |-> Act[c].source,
         before_version   |-> before.version,
         after_version    |-> before.version + 1,
         quota_before     |-> before.quota,
         quota_after      |-> before.quota - 1,
         budget_before    |-> before.budget,
         budget_after     |-> before.budget - cost,
         candidate_digest |-> digest]

(* What a grant leaves of the source; before it, with the quota, the       *)
(* budget or the version not taken from the transition.                    *)
AfterFreeOfQuota(t) ==
    [version |-> t.after_version, quota |-> t.quota_before, budget |-> t.budget_after]

AfterFlatCharge(t) ==
    [version |-> t.after_version, quota |-> t.quota_after, budget |-> t.budget_before - 1]

AfterSameVersion(t) ==
    [version |-> t.before_version, quota |-> t.quota_after, budget |-> t.budget_after]

After(t) ==
    [version |-> t.after_version, quota |-> t.quota_after, budget |-> t.budget_after]

(* The fault: the nonce map is given the candidate's digest, not the id.   *)
TransitionUnderDigest(c, cost, digest) ==
    LET t == TransitionCore(c, cost, digest)
    IN  /\ CanReserve(c, cost)
        /\ sources' = [sources EXCEPT ![t.source] = After(t)]
        /\ nonces' = [nonces EXCEPT ![t.nonce] = digest]
        /\ transitions' = transitions \cup {t}
        /\ granted' = [granted EXCEPT ![t.source] = @ \cup {t}]
        /\ UNCHANGED configured

TransitionForAuthorization(c, cost, digest) ==
    LET t == TransitionCore(c, cost, digest)
    IN  /\ CanReserve(c, cost)
        /\ sources' = [sources EXCEPT ![t.source] = After(t)]
        /\ nonces' = [nonces EXCEPT ![t.nonce] = t]
        /\ transitions' = transitions \cup {t}
        /\ granted' = [granted EXCEPT ![t.source] = @ \cup {t}]
        /\ UNCHANGED configured

(* verify_transition(transition_id, candidate); policy_epoch is a field of *)
(* the candidate named by the digest, so it needs no field of its own.     *)
TransitionVerified(t, c) ==
    /\ t \in transitions
    /\ t.nonce = Act[c].nonce
    /\ t.source = Act[c].source
    /\ Act[t.candidate_digest.act].policy_epoch = Act[c].policy_epoch
    /\ t.after_version = t.before_version + 1
    /\ t.quota_after = t.quota_before - 1
    /\ t.budget_after < t.budget_before
    /\ nonces[Act[c].nonce] = t

StateNext ==
    \/ \E c \in Candidates, cost \in Costs, p \in Payloads :
          TransitionForAuthorization(c, cost, Digest(c, p))
    \/ \E s \in Sources, q \in Configurations : ConfigureSource(s, q)

StateSpec == StateInit /\ [][StateNext]_stateVars

-----------------------------------------------------------------------------
StateTypeOK ==
    /\ sources \in [Sources -> SourceStates]
    /\ nonces \in [Nonces -> TransitionIds \cup {Absent}]
    /\ transitions \in SUBSET TransitionIds
    /\ configured \in [Sources -> [quota : Int, budget : Int]]
    /\ granted \in [Sources -> SUBSET TransitionIds]

(* A nonce is spent at most once: two recorded transitions never carry the *)
(* same nonce, whichever candidate, cost or source asked for it, and the   *)
(* nonce map points at exactly that transition (state.py:54, 89-90).       *)
NonceSpentOnce ==
    \A n \in Nonces :
        {t \in transitions : t.nonce = n} = {nonces[n]} \ {Absent}

(* Quota is conserved: what is left of a source plus what was granted      *)
(* since it was last configured is what it was configured with, so no      *)
(* grant is free and none is charged twice (state.py:57-62, 88).           *)
QuotaConserved ==
    \A s \in Sources :
        sources[s].quota + Cardinality(granted[s]) = configured[s].quota

Spent(s) == FoldFunction(LAMBDA a, b : a + b, 0,
                         [t \in granted[s] |-> t.budget_before - t.budget_after])

(* Budget is conserved likewise, each grant charged what its transition    *)
(* says: costs differ, so a before-value read too early or a charge that   *)
(* is not the transition's shows here and not in the quota                 *)
(* (state.py:59-62, 88).                                                   *)
BudgetConserved ==
    \A s \in Sources : sources[s].budget + Spent(s) = configured[s].budget

(* The transitions granted to a source since it was configured form one    *)
(* chain: their before-versions are 0..n-1 with no gap and no repetition,  *)
(* which is what "monotonic state" means for a verifier of the history.    *)
VersionChain ==
    \A s \in Sources :
        /\ {t.before_version : t \in granted[s]} = 0 .. (sources[s].version - 1)
        /\ Cardinality(granted[s]) = sources[s].version

(* A source is never driven below zero by grants: it only ever stands      *)
(* negative if it was configured so (state.py:57-60).                      *)
NoOverdraft ==
    \A s \in Sources :
        granted[s] # {} => sources[s].quota >= 0 /\ sources[s].budget >= 0
=============================================================================
