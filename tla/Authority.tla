------------------------------ MODULE Authority ------------------------------
(***************************************************************************)
(* ProtectedAuthority.authorize (authority.py).  It holds no lock of its   *)
(* own, so any number of authorizer threads interleave between its calls:  *)
(*                                                                         *)
(*   begin    clock, descriptor, policy          authority.py:40-44        *)
(*   reserve  protected-state transition         authority.py:48           *)
(*   commit   evidence signed and committed      authority.py:50-76        *)
(*   issue    capability built and returned      authority.py:78-112       *)
(***************************************************************************)
EXTENDS ProtectedState, EvidenceStore, Workload

CONSTANTS
    Authorizers,        \* threads inside authorize
    CapabilityTTL

ASSUME AuthorityAssumption == CapabilityTTL \in Nat

VARIABLES
    authCall,           \* each authorizer's call: its step and its locals
    issued              \* every capability handed out

authorityVars == <<authCall, issued>>

Idle == [at |-> "idle"]

AuthStates ==
    [at : {"reserve"}, cand : Candidates, cost : Costs, now : Nat, descriptor : Descriptors]
        \cup [at : {"commit"}, cand : Candidates, now : Nat, descriptor : Descriptors,
              transition : TransitionIds]
        \cup [at : {"issue"}, cand : Candidates, now : Nat, descriptor : Descriptors,
              transition : TransitionIds, evidence : EvidenceRecords]

AuthorityInit ==
    /\ authCall = [a \in Authorizers |-> Idle]
    /\ issued = {}

Return(a) == authCall' = [authCall EXCEPT ![a] = Idle]

Min2(m, n) == IF m < n THEN m ELSE n

EvidenceCore(call) ==
    [descriptor_digest |-> call.descriptor,
     candidate_digest  |-> DigestNow(call.cand),
     transition_id     |-> call.transition,
     policy_epoch      |-> Act[call.cand].policy_epoch,
     decision          |-> "ALLOW",
     committed_at      |-> call.now]

(* The fault: the two digests are swapped. *)
CapabilityCoreSwapped(call) ==
    [candidate_digest  |-> call.descriptor,
     descriptor_digest |-> DigestNow(call.cand),
     sink_id           |-> Act[call.cand].sink_id,
     boundary_id       |-> Act[call.cand].boundary_id,
     nonce             |-> Act[call.cand].nonce,
     scope             |-> Act[call.cand].scope,
     policy_epoch      |-> Act[call.cand].policy_epoch,
     evidence_id       |-> call.evidence,
     transition_id     |-> call.transition,
     issued_at         |-> call.now,
     expires_at        |-> Min2(StaleAt(call.cand), call.now + CapabilityTTL)]

CapabilityCore(call) ==
    [candidate_digest  |-> DigestNow(call.cand),
     descriptor_digest |-> call.descriptor,
     sink_id           |-> Act[call.cand].sink_id,
     boundary_id       |-> Act[call.cand].boundary_id,
     nonce             |-> Act[call.cand].nonce,
     scope             |-> Act[call.cand].scope,
     policy_epoch      |-> Act[call.cand].policy_epoch,
     evidence_id       |-> call.evidence,
     transition_id     |-> call.transition,
     issued_at         |-> call.now,
     expires_at        |-> Min2(StaleAt(call.cand), call.now + CapabilityTTL)]

-----------------------------------------------------------------------------
BeginAuthorize(a, c, cost) ==
    /\ authCall[a] = Idle
    /\ Allowed(c, clock)
    /\ authCall' = [authCall EXCEPT ![a] =
          [at         |-> "reserve",
           cand       |-> c,
           cost       |-> cost,
           now        |-> clock,
           descriptor |-> Hcad(c, payload[c], Act[c].sink_id, Act[c].boundary_id)]]
    /\ UNCHANGED <<stateVars, evidence, issued>>

(* ValidationDenied by the policy: nothing has been touched yet. *)
RefuseAuthorize(a, c) ==
    /\ authCall[a] = Idle
    /\ ~Allowed(c, clock)
    /\ UNCHANGED <<stateVars, evidence, authorityVars>>

ReserveTransition(a) ==
    LET call == authCall[a]
        t == TransitionCore(call.cand, call.cost, DigestNow(call.cand))
    IN  /\ call.at = "reserve"
        /\ TransitionForAuthorization(call.cand, call.cost, DigestNow(call.cand))
        /\ authCall' = [authCall EXCEPT ![a] =
              [at |-> "commit", cand |-> call.cand, now |-> call.now,
               descriptor |-> call.descriptor, transition |-> t]]
        /\ UNCHANGED <<evidence, issued>>

(* ReplayDetected, quota_exhausted, budget_exhausted or a cost <= 0. *)
RefuseTransition(a) ==
    /\ authCall[a].at = "reserve"
    /\ ~CanReserve(authCall[a].cand, authCall[a].cost)
    /\ Return(a)
    /\ UNCHANGED <<stateVars, evidence, issued>>

CommitEvidence(a) ==
    LET call == authCall[a]
        e == EvidenceCore(call)
    IN  /\ call.at = "commit"
        /\ CommitRecord(e)
        /\ authCall' = [authCall EXCEPT ![a] =
              [at |-> "issue", cand |-> call.cand, now |-> call.now,
               descriptor |-> call.descriptor, transition |-> call.transition,
               evidence |-> e]]
        /\ UNCHANGED <<stateVars, issued>>

(* EvidenceError, from a failing store: the reserved nonce stays burned.   *)
(* The fault: the error is swallowed and the capability issued all the     *)
(* same.                                                                   *)
IgnoreEvidenceError(a) ==
    /\ authCall[a].at = "commit"
    /\ CommitRaises(EvidenceCore(authCall[a]))
    /\ authCall' = [authCall EXCEPT ![a] =
          [at |-> "issue", cand |-> @.cand, now |-> @.now, descriptor |-> @.descriptor,
           transition |-> @.transition, evidence |-> EvidenceCore(@)]]
    /\ UNCHANGED <<stateVars, issued>>

FailEvidence(a) ==
    /\ authCall[a].at = "commit"
    /\ CommitRaises(EvidenceCore(authCall[a]))
    /\ Return(a)
    /\ UNCHANGED <<stateVars, issued>>

IssueCapability(a) ==
    /\ authCall[a].at = "issue"
    /\ issued' = issued \cup {CapabilityCore(authCall[a])}
    /\ Return(a)
    /\ UNCHANGED <<stateVars, evidence>>

AuthorizeStep(a) ==
    \/ ReserveTransition(a) \/ RefuseTransition(a)
    \/ CommitEvidence(a) \/ FailEvidence(a)
    \/ IssueCapability(a)

AuthorityNext ==
    \E a \in Authorizers :
        \/ \E c \in Candidates, cost \in Costs : BeginAuthorize(a, c, cost)
        \/ \E c \in Candidates : RefuseAuthorize(a, c)
        \/ AuthorizeStep(a)
=============================================================================
