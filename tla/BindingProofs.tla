---------------------------- MODULE BindingProofs ----------------------------
(***************************************************************************)
(* What is authorized is what takes effect: for any candidates, payloads,  *)
(* contexts, threads and restarts, every capability is the one the         *)
(* authority made for the candidate it names, and a call carries it with   *)
(* that candidate to a sink that answers to the names in both.  A payload  *)
(* that the workload still writes (Aliased) escapes this, and only that.   *)
(***************************************************************************)
EXTENDS FinalityProofs, PortableVerifier

(* What the authority makes for candidate c (state.py:63-88,               *)
(* authority.py:54-76, 78-109).                                            *)
TransitionFor(t, c) ==
    /\ t.nonce = Act[c].nonce
    /\ t.source = Act[c].source
    /\ t.candidate_digest.act = c
    /\ t.after_version = t.before_version + 1
    /\ t.quota_after = t.quota_before - 1
    /\ t.budget_after < t.budget_before
    /\ c \notin Aliased => t.candidate_digest = DigestNow(c)

DescriptorFor(d, c) ==
    c \notin Aliased => d = Hcad(c, payload[c], Act[c].sink_id, Act[c].boundary_id)

EvidenceFor(e, t, d, c) ==
    /\ e.transition_id = t
    /\ e.descriptor_digest = d
    /\ e.policy_epoch = Act[c].policy_epoch
    /\ c \notin Aliased => e.candidate_digest = DigestNow(c)

CapabilityFor(cap, c) ==
    /\ cap.sink_id = Act[c].sink_id /\ cap.boundary_id = Act[c].boundary_id
    /\ cap.nonce = Act[c].nonce /\ cap.scope = Act[c].scope
    /\ cap.policy_epoch = Act[c].policy_epoch
    /\ Allowed(c, cap.issued_at)
    /\ cap.expires_at = Min2(StaleAt(c), cap.issued_at + CapabilityTTL)
    /\ TransitionFor(cap.transition_id, c)
    /\ EvidenceFor(cap.evidence_id, cap.transition_id, cap.descriptor_digest, c)
    /\ DescriptorFor(cap.descriptor_digest, c)
    /\ c \notin Aliased => cap.candidate_digest = DigestNow(c)

(* The locals of an authorize call, whichever step it has reached.         *)
FaithfulCall(k) ==
    /\ k.at # "idle" => Allowed(k.cand, k.now) /\ DescriptorFor(k.descriptor, k.cand)
    /\ k.at \in {"commit", "issue"} => TransitionFor(k.transition, k.cand)
    /\ k.at = "issue" => EvidenceFor(k.evidence, k.transition, k.descriptor, k.cand)

AuthorizersFaithful == \A a \in Authorizers : FaithfulCall(authCall[a])

CapabilitiesFaithful == \A cap \in issued : CapabilityFor(cap, cap.candidate_digest.act)

Authorized == AuthorizersFaithful /\ CapabilitiesFaithful

(* A call past its first checks, and an effect, has the candidate of its   *)
(* capability, at a sink that both of them name.                           *)
CallsBound ==
    \A t \in Callers : call[t].at # "idle" =>
        /\ call[t].cap.candidate_digest.act = call[t].cand
        /\ BindingsMatch(call[t].sink, call[t].cand, call[t].cap)

EffectsBound ==
    \A o \in Occurrences :
        LET e == EffectAt(o)
        IN  /\ e.candidate_digest.act = e.cap.candidate_digest.act
            /\ BindingsMatch(e.sink, e.candidate_digest.act, e.cap)
            /\ e.candidate_digest.act \notin Aliased =>
                  e.candidate_digest = e.cap.candidate_digest

Binding == Authorized /\ CallsBound /\ EffectsBound

(* The presenter whom the act of a capability names signed for it, for the *)
(* sink that checks it, and dated the proof within the freshness of now.   *)
ProvenFor(s, cap, now) ==
    \E proof \in proofs :
        /\ proof.capability_id = cap
        /\ proof.candidate_digest = cap.candidate_digest
        /\ proof.sink_id = Context[s].sink_id
        /\ proof.boundary_id = Context[s].boundary_id
        /\ proof.nonce = cap.nonce
        /\ proof.presenter = Act[cap.candidate_digest.act].presenter
        /\ proof.presenter \in RegisteredKeys
        /\ ProofFresh(proof, now)

CallsProven ==
    \A t \in Callers :
        call[t].at # "idle" /\ call[t].sink \in Strict =>
            ProvenFor(call[t].sink, call[t].cap, call[t].now)

EffectsProven ==
    \A o \in Occurrences :
        EffectAt(o).sink \in Strict =>
            ProvenFor(EffectAt(o).sink, EffectAt(o).cap, EffectAt(o).verified_at)

Proven == CallsProven /\ EffectsProven

-----------------------------------------------------------------------------
(* All of this depends on the state through the payloads that nobody       *)
(* writes, so a step that writes no other payload keeps it.                *)
PayloadsKept == \A c \in Candidates \ Aliased : payload'[c] = payload[c]

LEMMA FaithfulKept ==
    ASSUME PayloadsKept, NEW c \in Candidates
    PROVE  /\ \A t : TransitionFor(t, c) => TransitionFor(t, c)'
           /\ \A d : DescriptorFor(d, c) => DescriptorFor(d, c)'
           /\ \A e, t, d : EvidenceFor(e, t, d, c) => EvidenceFor(e, t, d, c)'
           /\ \A cap : CapabilityFor(cap, c) => CapabilityFor(cap, c)'
  <1>1. c \notin Aliased => payload'[c] = payload[c]
    BY DEF PayloadsKept
  <1>2. c \notin Aliased => DigestNow(c)' = DigestNow(c)
    BY <1>1 DEF DigestNow
  <1>3. \A t : TransitionFor(t, c) => TransitionFor(t, c)'
    BY <1>2 DEF TransitionFor
  <1>4. \A d : DescriptorFor(d, c) => DescriptorFor(d, c)'
    BY <1>1 DEF DescriptorFor
  <1>5. \A e, t, d : EvidenceFor(e, t, d, c) => EvidenceFor(e, t, d, c)'
    BY <1>2 DEF EvidenceFor
  <1>6. \A cap : CapabilityFor(cap, c) => CapabilityFor(cap, c)'
    BY <1>2, <1>3, <1>4, <1>5 DEF CapabilityFor
  <1> QED
    BY <1>3, <1>4, <1>5, <1>6

LEMMA FaithfulCallKept ==
    ASSUME PayloadsKept, NEW k, k.at # "idle" => k.cand \in Candidates, FaithfulCall(k)
    PROVE  FaithfulCall(k)'
  BY FaithfulKept DEF FaithfulCall

LEMMA CapabilityActs ==
    ASSUME TypeOK, NEW cap \in issued
    PROVE  cap.candidate_digest.act \in Candidates
  <1>1. cap.candidate_digest \in Digests
    BY DEF TypeOK, Capabilities
  <1> QED
    BY <1>1 DEF Digests, Digest

(* A step that makes nothing keeps what was made. *)
LEMMA NothingMade ==
    ASSUME TypeOK, Authorized, PayloadsKept, UNCHANGED issued,
           \A a \in Authorizers : authCall'[a] = authCall[a] \/ authCall'[a].at = "idle"
    PROVE  Authorized'
  <1>1. \A a \in Authorizers : FaithfulCall(authCall[a])'
    <2> SUFFICES ASSUME NEW a \in Authorizers PROVE FaithfulCall(authCall[a])'
      OBVIOUS
    <2>1. CASE authCall'[a] = authCall[a]
      <3>1. FaithfulCall(authCall[a])
        BY DEF Authorized, AuthorizersFaithful
      <3>2. authCall[a].at # "idle" => authCall[a].cand \in Candidates
        BY AuthCallTypes
      <3>3. PICK k : k = authCall[a]
        OBVIOUS
      <3>4. FaithfulCall(k)'
        BY <3>1, <3>2, <3>3, FaithfulCallKept
      <3> QED
        BY <2>1, <3>3, <3>4
    <2>2. CASE authCall'[a].at = "idle"
      BY <2>2 DEF FaithfulCall
    <2> QED
      BY <2>1, <2>2
  <1>2. \A cap \in issued : CapabilityFor(cap, cap.candidate_digest.act)'
    BY FaithfulKept, CapabilityActs DEF Authorized, CapabilitiesFaithful
  <1> QED
    BY <1>1, <1>2 DEF Authorized, AuthorizersFaithful, CapabilitiesFaithful

(* A step of one authorizer, which has only its own new locals to answer   *)
(* for.                                                                    *)
LEMMA AuthorizerMoves ==
    ASSUME TypeOK, Authorized, NEW a \in Authorizers, UNCHANGED <<issued, payload>>,
           \A b \in Authorizers \ {a} : authCall'[b] = authCall[b],
           FaithfulCall(authCall[a])'
    PROVE  Authorized'
  <1>1. PayloadsKept
    BY DEF PayloadsKept
  <1>2. ASSUME NEW b \in Authorizers
        PROVE  FaithfulCall(authCall[b])'
    <2>1. CASE b = a
      BY <2>1
    <2>2. CASE b # a
      <3>1. FaithfulCall(authCall[b])
        BY DEF Authorized, AuthorizersFaithful
      <3>2. authCall[b].at # "idle" => authCall[b].cand \in Candidates
        BY AuthCallTypes
      <3>3. PICK k : k = authCall[b]
        OBVIOUS
      <3>4. FaithfulCall(k)'
        BY <1>1, <3>1, <3>2, <3>3, FaithfulCallKept
      <3> QED
        BY <2>2, <3>3, <3>4
    <2> QED
      BY <2>1, <2>2
  <1>3. \A cap \in issued : CapabilityFor(cap, cap.candidate_digest.act)'
    BY <1>1, FaithfulKept, CapabilityActs DEF Authorized, CapabilitiesFaithful
  <1> QED
    BY <1>2, <1>3 DEF Authorized, AuthorizersFaithful, CapabilitiesFaithful

(* begin: what the policy allowed, with the descriptor of the candidate.   *)
LEMMA BeginKeepsAuthorized ==
    ASSUME TypeOK, Authorized, UNCHANGED payload,
           NEW a \in Authorizers, NEW c \in Candidates, NEW cost \in Costs,
           BeginAuthorize(a, c, cost)
    PROVE  Authorized'
  <1>1. /\ Allowed(c, clock)
        /\ authCall'[a].at = "reserve" /\ authCall'[a].cand = c
        /\ authCall'[a].now = clock
        /\ authCall'[a].descriptor = Hcad(c, payload[c], Act[c].sink_id, Act[c].boundary_id)
        /\ \A b \in Authorizers \ {a} : authCall'[b] = authCall[b]
        /\ UNCHANGED issued
    BY BeginFacts
  <1>2. FaithfulCall(authCall[a])'
    BY <1>1 DEF FaithfulCall, DescriptorFor
  <1> QED
    BY <1>1, <1>2, AuthorizerMoves

(* reserve: the transition is the one for the candidate.                   *)
LEMMA ReserveMakesTransition ==
    ASSUME TypeOK, NEW a \in Authorizers, ReserveTransition(a)
    PROVE  /\ authCall[a].at = "reserve" /\ authCall'[a].at = "commit"
           /\ authCall'[a].cand = authCall[a].cand
           /\ authCall'[a].now = authCall[a].now
           /\ authCall'[a].descriptor = authCall[a].descriptor
           /\ TransitionFor(authCall'[a].transition, authCall[a].cand)
           /\ \A b \in Authorizers \ {a} : authCall'[b] = authCall[b]
  <1> DEFINE k == authCall[a]
             t == TransitionCore(k.cand, k.cost, DigestNow(k.cand))
  <1>1. /\ k.at = "reserve" /\ k.cost > 0
        /\ authCall' = [authCall EXCEPT ![a] =
             [at |-> "commit", cand |-> k.cand, now |-> k.now, descriptor |-> k.descriptor,
              transition |-> t]]
    BY DEF ReserveTransition, TransitionForAuthorization, CanReserve
  <1>2. k.cand \in Candidates /\ k.cost \in Int
    BY <1>1, AuthCallTypes, QuotaAssumption
  <1>3. sources[Act[k.cand].source] \in SourceStates
    BY <1>2, CandidateTypes DEF TypeOK, StateTypeOK
  <1>4. TransitionFor(t, k.cand)
    <2> DEFINE before == sources[Act[k.cand].source]
               paid == k.cost
    <2>1. /\ before.version \in Nat /\ before.quota \in Int /\ before.budget \in Int
          /\ paid \in Int /\ paid > 0
      BY <1>1, <1>2, <1>3 DEF SourceStates
    <2>2. /\ t.nonce = Act[k.cand].nonce /\ t.source = Act[k.cand].source
          /\ t.before_version = before.version /\ t.after_version = before.version + 1
          /\ t.quota_before = before.quota /\ t.quota_after = before.quota - 1
          /\ t.budget_before = before.budget /\ t.budget_after = before.budget - paid
          /\ t.candidate_digest = DigestNow(k.cand)
      BY DEF TransitionCore
    <2>3. DigestNow(k.cand).act = k.cand
      BY DEF DigestNow, Digest
    <2> HIDE DEF before, paid, t
    <2> QED
      BY <2>1, <2>2, <2>3 DEF TransitionFor
  <1> HIDE DEF t
  <1>5. /\ authCall'[a].at = "commit" /\ authCall'[a].cand = k.cand
        /\ authCall'[a].now = k.now /\ authCall'[a].descriptor = k.descriptor
        /\ authCall'[a].transition = t
        /\ \A b \in Authorizers \ {a} : authCall'[b] = authCall[b]
    BY <1>1 DEF TypeOK
  <1> QED
    BY <1>1, <1>4, <1>5

LEMMA ReserveKeepsAuthorized ==
    ASSUME TypeOK, Authorized, UNCHANGED payload, NEW a \in Authorizers, ReserveTransition(a)
    PROVE  Authorized'
  <1>1. /\ authCall[a].at = "reserve" /\ authCall'[a].at = "commit"
        /\ authCall'[a].cand = authCall[a].cand
        /\ authCall'[a].now = authCall[a].now
        /\ authCall'[a].descriptor = authCall[a].descriptor
        /\ TransitionFor(authCall'[a].transition, authCall[a].cand)
        /\ \A b \in Authorizers \ {a} : authCall'[b] = authCall[b]
        /\ UNCHANGED issued
    BY ReserveMakesTransition DEF ReserveTransition
  <1>2. authCall[a].cand \in Candidates /\ PayloadsKept
    BY <1>1, AuthCallTypes DEF PayloadsKept
  <1>3. /\ Allowed(authCall[a].cand, authCall[a].now)
        /\ DescriptorFor(authCall[a].descriptor, authCall[a].cand)
    BY <1>1 DEF Authorized, AuthorizersFaithful, FaithfulCall
  <1>4. PICK c, d, t :
           /\ c = authCall[a].cand /\ d = authCall[a].descriptor
           /\ t = authCall'[a].transition
           /\ c \in Candidates
    BY <1>2
  <1>5. DescriptorFor(d, c)' /\ TransitionFor(t, c)'
    BY <1>1, <1>2, <1>3, <1>4, FaithfulKept
  <1>6. FaithfulCall(authCall[a])'
    BY <1>1, <1>3, <1>4, <1>5 DEF FaithfulCall
  <1> QED
    BY <1>1, <1>6, AuthorizerMoves

(* commit: the evidence names the transition, the descriptor and the       *)
(* digest of the candidate.                                                *)
LEMMA CommitKeepsAuthorized ==
    ASSUME TypeOK, Authorized, UNCHANGED payload, NEW a \in Authorizers, CommitEvidence(a)
    PROVE  Authorized'
  <1>1. /\ authCall[a].at = "commit" /\ authCall'[a].at = "issue"
        /\ authCall'[a].cand = authCall[a].cand
        /\ authCall'[a].now = authCall[a].now
        /\ authCall'[a].descriptor = authCall[a].descriptor
        /\ authCall'[a].transition = authCall[a].transition
        /\ authCall'[a].evidence = EvidenceCore(authCall[a])
        /\ \A b \in Authorizers \ {a} : authCall'[b] = authCall[b]
        /\ UNCHANGED issued
    BY CommitFacts
  <1>2. authCall[a].cand \in Candidates /\ PayloadsKept
    BY <1>1, AuthCallTypes DEF PayloadsKept
  <1>3. PICK c, d, t, e :
           /\ c = authCall[a].cand /\ d = authCall[a].descriptor
           /\ t = authCall[a].transition /\ e = EvidenceCore(authCall[a])
           /\ c \in Candidates
    BY <1>2
  <1>4. Allowed(c, authCall[a].now) /\ DescriptorFor(d, c) /\ TransitionFor(t, c)
    BY <1>1, <1>3 DEF Authorized, AuthorizersFaithful, FaithfulCall
  <1>5. EvidenceFor(e, t, d, c)
    BY <1>3 DEF EvidenceFor, EvidenceCore
  <1>6. DescriptorFor(d, c)' /\ TransitionFor(t, c)' /\ EvidenceFor(e, t, d, c)'
    BY <1>2, <1>3, <1>4, <1>5, FaithfulKept
  <1>7. FaithfulCall(authCall[a])'
    BY <1>1, <1>3, <1>4, <1>6 DEF FaithfulCall
  <1> QED
    BY <1>1, <1>7, AuthorizerMoves

(* issue: the capability copies what the call holds.                       *)
LEMMA IssueKeepsAuthorized ==
    ASSUME TypeOK, Authorized, UNCHANGED payload, NEW a \in Authorizers, IssueCapability(a)
    PROVE  Authorized'
  <1> DEFINE k == authCall[a]
             new == CapabilityCore(k)
  <1>1. /\ k.at = "issue" /\ authCall'[a].at = "idle"
        /\ issued' = issued \cup {new}
        /\ \A b \in Authorizers \ {a} : authCall'[b] = authCall[b]
    BY IssueFacts
  <1>2. k.cand \in Candidates /\ PayloadsKept
    BY <1>1, AuthCallTypes DEF PayloadsKept
  <1>3. /\ Allowed(k.cand, k.now) /\ DescriptorFor(k.descriptor, k.cand)
        /\ TransitionFor(k.transition, k.cand)
        /\ EvidenceFor(k.evidence, k.transition, k.descriptor, k.cand)
    BY <1>1 DEF Authorized, AuthorizersFaithful, FaithfulCall
  <1>4. CapabilityFor(new, k.cand) /\ new.candidate_digest.act = k.cand
    BY <1>3 DEF CapabilityFor, CapabilityCore, DigestNow, Digest
  <1>5. PICK c, cap : c = k.cand /\ cap = new /\ c \in Candidates
    BY <1>2
  <1>6. CapabilityFor(cap, c)'
    BY <1>2, <1>4, <1>5, FaithfulKept
  <1> HIDE DEF new, k
  <1>7. \A old \in issued : CapabilityFor(old, old.candidate_digest.act)'
    BY <1>2, FaithfulKept, CapabilityActs DEF Authorized, CapabilitiesFaithful
  <1>8. \A old \in issued' : CapabilityFor(old, old.candidate_digest.act)'
    BY <1>1, <1>4, <1>5, <1>6, <1>7
  <1>9. AuthorizersFaithful'
    <2> SUFFICES ASSUME NEW b \in Authorizers PROVE FaithfulCall(authCall[b])'
      BY DEF AuthorizersFaithful
    <2>1. CASE b = a
      BY <1>1, <2>1 DEF FaithfulCall
    <2>2. CASE b # a
      <3>1. FaithfulCall(authCall[b])
        BY DEF Authorized, AuthorizersFaithful
      <3>2. authCall[b].at # "idle" => authCall[b].cand \in Candidates
        BY AuthCallTypes
      <3>3. PICK j : j = authCall[b]
        OBVIOUS
      <3>4. FaithfulCall(j)'
        BY <1>2, <3>1, <3>2, <3>3, FaithfulCallKept
      <3> QED
        BY <1>1, <2>2, <3>3, <3>4
    <2> QED
      BY <2>1, <2>2
  <1> QED
    BY <1>8, <1>9 DEF Authorized, CapabilitiesFaithful

LEMMA NextKeepsAuthorized == TypeOK /\ Authorized /\ [Next]_vars => Authorized'
  <1> SUFFICES ASSUME TypeOK, Authorized, [Next]_vars PROVE Authorized'
    OBVIOUS
  <1>1. CASE Authorize
    <2>1. UNCHANGED payload /\ PayloadsKept
      BY <1>1 DEF Authorize, workloadVars, PayloadsKept
    <2>2. PICK a \in Authorizers :
              \/ \E c \in Candidates, cost \in Costs : BeginAuthorize(a, c, cost)
              \/ \E c \in Candidates : RefuseAuthorize(a, c)
              \/ AuthorizeStep(a)
      BY <1>1 DEF Authorize, AuthorityNext
    <2>3. ASSUME NEW c \in Candidates, RefuseAuthorize(a, c)
          PROVE  Authorized'
      BY <2>1, <2>3, NothingMade DEF RefuseAuthorize, authorityVars
    <2>4. CASE RefuseTransition(a) \/ FailEvidence(a)
      <3>1. \A b \in Authorizers : authCall'[b] = authCall[b] \/ authCall'[b].at = "idle"
        BY <2>4, ReturnFacts
      <3> QED
        BY <2>1, <2>4, <3>1, ReturnFacts, NothingMade
    <2> QED
      BY <2>1, <2>2, <2>3, <2>4, BeginKeepsAuthorized, ReserveKeepsAuthorized,
         CommitKeepsAuthorized, IssueKeepsAuthorized DEF AuthorizeStep
  <1>2. CASE Effectuate \/ MakeProof \/ Reconfigure \/ UNCHANGED vars
    BY <1>2, NothingMade
    DEF Effectuate, MakeProof, Reconfigure, vars, workloadVars, authorityVars, PayloadsKept
  <1>3. CASE Environment
    <2>1. PayloadsKept
      BY <1>3 DEF Environment, Tick, MutatePayload, PayloadsKept, TypeOK, WorkloadTypeOK
    <2> QED
      BY <1>3, <2>1, NothingMade DEF Environment, authorityVars
  <1>4. CASE Restart
    BY <1>4, NothingMade DEF Restart, Tick, Idle, PayloadsKept
  <1> QED
    BY <1>1, <1>2, <1>3, <1>4 DEF Next

LEMMA AuthorizedInit == Init => Authorized
  BY DEF Init, AuthorityInit, Idle, Authorized, AuthorizersFaithful, FaithfulCall,
         CapabilitiesFaithful

-----------------------------------------------------------------------------
(* Calls and effects.  After its first checks a call never changes its     *)
(* capability, candidate or sink, and its effect takes all three along.    *)
LEMMA BoundInit == Init => CallsBound /\ EffectsBound
  BY DEF Init, SinkInit, NoCall, CallsBound, EffectsBound, Occurrences

LEMMA CallsStayBound ==
    ASSUME CallsBound, EffectsBound, UNCHANGED effects,
           \A t \in Callers : call'[t].at # "idle" =>
               /\ call[t].at # "idle"
               /\ call'[t].cap = call[t].cap
               /\ call'[t].cand = call[t].cand
               /\ call'[t].sink = call[t].sink
    PROVE  CallsBound' /\ EffectsBound'
  <1>1. /\ Occurrences' = Occurrences
        /\ \A o \in Occurrences : EffectAt(o)' = EffectAt(o)
    BY SameEffects
  <1>2. CallsBound'
    BY DEF CallsBound
  <1>3. EffectsBound'
    BY <1>1 DEF EffectsBound
  <1> QED
    BY <1>2, <1>3

LEMMA CommitStaysBound ==
    ASSUME TypeOK, Provenance, Authorized, CallsBound, EffectsBound,
           NEW t \in Callers, CommitEffect(t)
    PROVE  CallsBound' /\ EffectsBound'
  <1>1. PICK new :
           /\ Occurrences' = Occurrences \cup {new}
           /\ EffectAt(new)'.cap = call[t].cap
           /\ EffectAt(new)'.sink = call[t].sink
           /\ EffectAt(new)'.candidate_digest = DigestNow(call[t].cand)
           /\ \A o \in Occurrences : EffectAt(o)' = EffectAt(o) /\ o # new
    BY OneMoreEffect
  <1>2. call[t].at # "idle" /\ EffectuateStep(t)
    BY DEF CommitEffect, EffectuateStep
  <1>3. CallsBound'
    BY <1>2, StepKeepsCall DEF CallsBound
  <1>4. /\ call[t].cap \in issued
        /\ call[t].cap.candidate_digest.act = call[t].cand
        /\ BindingsMatch(call[t].sink, call[t].cand, call[t].cap)
    BY <1>2 DEF Provenance, OnlyIssuedUsed, CallsBound
  <1>5. call[t].cand \notin Aliased => call[t].cap.candidate_digest = DigestNow(call[t].cand)
    BY <1>4 DEF Authorized, CapabilitiesFaithful, CapabilityFor
  <1>6. DigestNow(call[t].cand).act = call[t].cand
    BY DEF DigestNow, Digest
  <1>7. EffectsBound'
    BY <1>1, <1>4, <1>5, <1>6 DEF EffectsBound
  <1> QED
    BY <1>3, <1>7

LEMMA EffectuateStaysBound ==
    ASSUME TypeOK, Provenance, Authorized, CallsBound, EffectsBound, Effectuate
    PROVE  CallsBound' /\ EffectsBound'
  <1>1. PICK t \in Callers : Present(t) \/ EffectuateStep(t)
    BY DEF Effectuate
  <1>2. ASSUME NEW s \in Sinks, NEW c \in Candidates, NEW cap \in issued, NEW proof,
               BeginEffectuate(t, s, c, cap, proof)
        PROVE  CallsBound' /\ EffectsBound'
    <2>1. /\ call'[t].cap = cap /\ call'[t].cand = c /\ call'[t].sink = s
          /\ \A u \in Callers \ {t} : call'[u] = call[u]
          /\ UNCHANGED effects
      BY <1>2 DEF BeginEffectuate, TypeOK
    <2>2. BindingsMatch(s, c, cap) /\ cap.candidate_digest.act = c
      BY <1>2 DEF BeginEffectuate, LocallyVerified, DigestNow, Digest
    <2>3. CallsBound'
      BY <2>1, <2>2 DEF CallsBound
    <2>4. EffectsBound'
      BY <2>1, SameEffects DEF EffectsBound
    <2> QED
      BY <2>3, <2>4
  <1>3. ASSUME NEW s \in Sinks, NEW c \in Candidates, NEW cap \in issued, NEW proof,
               RefuseEffectuate(t, s, c, cap, proof)
        PROVE  CallsBound' /\ EffectsBound'
    BY <1>3, CallsStayBound DEF RefuseEffectuate, sinkVars
  <1>4. CASE EffectuateStep(t)
    <2>1. CASE CommitEffect(t)
      BY <2>1, CommitStaysBound
    <2>2. CASE ~CommitEffect(t)
      <3>1. UNCHANGED effects
        BY <1>4, <2>2
        DEF EffectuateStep, VerifyEvidence, VerifyTransition, ClaimCapability, RefuseClaim,
            FailEffect, IssueReceipt, FailReceipt
      <3> QED
        BY <1>4, <3>1, StepKeepsCall, CallsStayBound
    <2> QED
      BY <2>1, <2>2
  <1> QED
    BY <1>1, <1>2, <1>3, <1>4 DEF Present

LEMMA NextStaysBound ==
    TypeOK /\ Provenance /\ Authorized /\ CallsBound /\ EffectsBound /\ [Next]_vars
        => CallsBound' /\ EffectsBound'
  <1> SUFFICES ASSUME TypeOK, Provenance, Authorized, CallsBound, EffectsBound, [Next]_vars
               PROVE  CallsBound' /\ EffectsBound'
    OBVIOUS
  <1>1. CASE Authorize \/ MakeProof \/ Reconfigure \/ Environment \/ UNCHANGED vars
    BY <1>1, CallsStayBound
    DEF Authorize, MakeProof, Reconfigure, Environment, vars, sinkVars
  <1>2. CASE Restart
    BY <1>2, CallsStayBound DEF Restart, NoCall
  <1> QED
    BY <1>1, <1>2, EffectuateStaysBound DEF Next

(* Every capability is what the authority made for its candidate, and      *)
(* every call and effect has the candidate of its capability at a sink     *)
(* both name, whatever the workload writes (authority.py:40-112,           *)
(* sink.py:65-104, 150-153).                                               *)
THEOREM BindingCorrect == Spec => []Binding
  <1>1. Init => TypeOK /\ Custody /\ Provenance /\ Binding
    <2>1. Init => Provenance
      BY IssuanceInit DEF Provenance, Init, SinkInit, NoCall, OnlyIssuedUsed, Occurrences
    <2> QED
      BY <2>1, InitTyped, CustodyInit, AuthorizedInit, BoundInit DEF Binding
  <1>2. TypeOK /\ Provenance /\ Binding /\ [Next]_vars => Binding'
    BY NextKeepsAuthorized, NextStaysBound DEF Binding
  <1> QED
    BY <1>1, <1>2, TypeCorrect, ProvenanceCorrect, PTL DEF Spec

(* Exact-act binding: where the workload keeps no reference into a payload *)
(* (the run that lets it shows what happens otherwise), what takes effect  *)
(* is the act the capability was issued for, payload included, at the sink *)
(* and with the effect class that the act names (sink.py:65-113).          *)
THEOREM ExactActBindingCorrect ==
    ASSUME Aliased = {}
    PROVE  Spec => []ExactActBinding
  <1>1. Binding => ExactActBinding
    <2> SUFFICES ASSUME Binding, NEW o \in Occurrences
                 PROVE  LET e == EffectAt(o)
                        IN  /\ e.candidate_digest = e.cap.candidate_digest
                            /\ Act[e.candidate_digest.act].sink_id = Context[e.sink].sink_id
                            /\ Act[e.candidate_digest.act].effect_class
                                 = Context[e.sink].effect_class
      BY DEF ExactActBinding
    <2> DEFINE e == EffectAt(o)
               c == e.candidate_digest.act
    <2>1. e.candidate_digest = e.cap.candidate_digest /\ BindingsMatch(e.sink, c, e.cap)
      BY DEF Binding, EffectsBound
    <2>2. /\ {Act[c].sink_id, e.cap.sink_id} = {Context[e.sink].sink_id}
          /\ Act[c].effect_class = Context[e.sink].effect_class
      BY <2>1 DEF BindingsMatch
    <2> QED
      BY <2>1, <2>2
  <1> QED
    BY <1>1, BindingCorrect, PTL

-----------------------------------------------------------------------------
(* What the authority committed, the sink finds.                           *)
LEMMA RecentIsVerified ==
    ASSUME TypeOK, Provenance, Authorized, NEW cap \in issued, NEW c \in Candidates,
           Recent(cap), cap.candidate_digest.act = c
    PROVE  /\ TransitionVerified(cap.transition_id, c)
           /\ c \notin Aliased =>
                 EvidenceVerified(cap, Hcad(c, payload[c], Act[c].sink_id, Act[c].boundary_id))
  <1>1. CapabilityFor(cap, c)
    BY DEF Authorized, CapabilitiesFaithful
  <1>2. /\ Committed(cap.evidence_id) /\ cap.transition_id \in transitions
        /\ \A t \in transitions : nonces[t.nonce] = t
    BY NonceFacts DEF TypeOK, Provenance, Issuance, CapabilitiesBacked
  <1>3. TransitionVerified(cap.transition_id, c)
    <2>1. TransitionFor(cap.transition_id, c)
      BY <1>1 DEF CapabilityFor
    <2> QED
      BY <1>2, <2>1 DEF TransitionFor, TransitionVerified
  <1>4. ASSUME c \notin Aliased
        PROVE  EvidenceVerified(cap, Hcad(c, payload[c], Act[c].sink_id, Act[c].boundary_id))
    <2>1. /\ EvidenceFor(cap.evidence_id, cap.transition_id, cap.descriptor_digest, c)
          /\ cap.descriptor_digest = Hcad(c, payload[c], Act[c].sink_id, Act[c].boundary_id)
          /\ cap.candidate_digest = DigestNow(c) /\ cap.policy_epoch = Act[c].policy_epoch
      BY <1>1, <1>4 DEF CapabilityFor, DescriptorFor
    <2>2. cap.evidence_id.decision = "ALLOW"
      BY CommittedAtTypes DEF TypeOK, EvidenceRecords
    <2> QED
      BY <1>2, <1>4, <2>1, <2>2 DEF EvidenceVerified, EvidenceFor
  <1> QED
    BY <1>3, <1>4

LEMMA GenuineCallVerified ==
    ASSUME TypeOK, Provenance, Binding, NEW t \in Callers, call[t].at # "idle",
           Recent(call[t].cap), call[t].cand \notin Aliased
    PROVE  /\ EvidenceVerified(call[t].cap, LocalDescriptor(call[t]))
           /\ TransitionVerified(call[t].cap.transition_id, call[t].cand)
  <1> DEFINE c == call[t].cand
             s == call[t].sink
             cap == call[t].cap
  <1>1. c \in Candidates /\ cap \in issued
    BY CallTypes DEF CallStates, Provenance, OnlyIssuedUsed
  <1>2. cap.candidate_digest.act = c /\ BindingsMatch(s, c, cap)
    BY DEF Binding, CallsBound
  <1>3. /\ {Act[c].sink_id, cap.sink_id} = {Context[s].sink_id}
        /\ {Act[c].boundary_id, cap.boundary_id} = {Context[s].boundary_id}
    BY <1>2 DEF BindingsMatch
  <1>4. Act[c].sink_id = Context[s].sink_id /\ Act[c].boundary_id = Context[s].boundary_id
    BY <1>3
  <1>5. LocalDescriptor(call[t]) = Hcad(c, payload[c], Act[c].sink_id, Act[c].boundary_id)
    BY <1>4 DEF LocalDescriptor
  <1>6. /\ TransitionVerified(cap.transition_id, c)
        /\ EvidenceVerified(cap, Hcad(c, payload[c], Act[c].sink_id, Act[c].boundary_id))
    BY <1>1, <1>2, RecentIsVerified DEF Binding
  <1> QED
    BY <1>5, <1>6

(* A call that passed the sink's own checks with a capability of the       *)
(* running process, and with a candidate nobody writes to, is never        *)
(* refused for missing evidence or an unknown transition, however other    *)
(* calls, authorizations and reconfigurations interleave with it           *)
(* (authority.py:48-78, sink.py:111-134).                                  *)
THEOREM GenuineNeverRefusedCorrect == Spec => GenuineNeverRefused
  <1> DEFINE NotRefused ==
                \A t \in Callers :
                  /\ call[t].at \in {"evidence", "transition"}
                  /\ call[t].cap.issued_at >= boot
                  /\ call[t].cand \notin Aliased
                  /\ boot' = boot
                  => call'[t].at # "idle"
  <1>1. TypeOK /\ Provenance /\ Binding /\ [Next]_vars => NotRefused
    <2> SUFFICES ASSUME TypeOK, Provenance, Binding, [Next]_vars, NEW t \in Callers,
                        call[t].at \in {"evidence", "transition"},
                        call[t].cap.issued_at >= boot, call[t].cand \notin Aliased,
                        boot' = boot
                 PROVE  call'[t].at # "idle"
      OBVIOUS
    <2>1. /\ EvidenceVerified(call[t].cap, LocalDescriptor(call[t]))
          /\ TransitionVerified(call[t].cap.transition_id, call[t].cand)
      BY GenuineCallVerified DEF Recent
    <2>2. CASE UNCHANGED call
      BY <2>2
    <2>3. CASE Effectuate
      <3>1. PICK u \in Callers : Present(u) \/ EffectuateStep(u)
        BY <2>3 DEF Effectuate
      <3>2. CASE Present(u)
        <4>1. (call[u].at = "idle" /\ \A v \in Callers \ {u} : call'[v] = call[v])
                 \/ UNCHANGED call
          BY <3>2 DEF Present, BeginEffectuate, RefuseEffectuate, sinkVars, NoCall, TypeOK
        <4> QED
          BY <4>1
      <3>3. CASE EffectuateStep(u) /\ u # t
        BY <3>3, StepKeepsCall
      <3>4. CASE EffectuateStep(u) /\ u = t
        <4>1. Advance(t, "transition") \/ Advance(t, "claim")
          BY <2>1, <3>4
          DEF EffectuateStep, VerifyEvidence, VerifyTransition, ClaimCapability, RefuseClaim,
              CommitEffect, FailEffect, IssueReceipt, FailReceipt
        <4>2. call[t] \in CallStates
          BY CallTypes
        <4> QED
          BY <4>1, <4>2 DEF Advance, TypeOK, CallStates
      <3> QED
        BY <3>1, <3>2, <3>3, <3>4
    <2>4. CASE Restart
      BY <2>4 DEF Restart, Tick, TypeOK, WorkloadTypeOK
    <2>5. UNCHANGED call \/ Effectuate \/ Restart
      BY DEF Next, vars, Authorize, MakeProof, Reconfigure, Environment, sinkVars
    <2> QED
      BY <2>2, <2>3, <2>4, <2>5
  <1>2. Spec => [][NotRefused]_vars
    BY <1>1, TypeCorrect, ProvenanceCorrect, BindingCorrect, PTL DEF Spec
  <1> QED
    BY <1>2 DEF GenuineNeverRefused

-----------------------------------------------------------------------------
(* A sink is configured to perform what the policy allows at it: its       *)
(* effect class, epoch and scopes are not left behind those of the acts    *)
(* the authority admits under its name.  Nothing in the code compares the  *)
(* two configurations (policy.py:9-24, sink.py:18-32).                     *)
SinksServePolicy ==
    \A s \in Sinks, c \in Candidates :
        /\ Act[c].sink_id = Context[s].sink_id
        /\ Act[c].boundary_id = Context[s].boundary_id
        /\ Act[c].policy_epoch = Policy.policy_epoch
        /\ Act[c].effect_class \in Policy.effect_classes
        /\ Range(Act[c].scope) \subseteq Policy.scopes
        => /\ Act[c].effect_class = Context[s].effect_class
           /\ Act[c].policy_epoch = Context[s].policy_epoch
           /\ Range(Act[c].scope) \subseteq Context[s].scopes

(* At the instant of its issue a capability passes every check of the sink *)
(* it names, for any lifetime, also one that ends at this very instant,    *)
(* and for a sink whose clock is behind by up to the tolerated skew; a     *)
(* strict sink accepts it with the proof the named presenter makes at that *)
(* instant (authority.py:78, policy.py:47-50, sink.py:65-104).             *)
THEOREM FreshCapabilityUsableCorrect ==
    ASSUME SinksServePolicy
    PROVE  Spec => []FreshCapabilityUsable
  <1>1. TypeOK /\ Binding => FreshCapabilityUsable
    <2> SUFFICES ASSUME TypeOK, Binding, NEW cap \in issued, NEW s \in Sinks,
                        NEW c, c = cap.candidate_digest.act,
                        cap.sink_id = Context[s].sink_id,
                        cap.boundary_id = Context[s].boundary_id,
                        cap.issued_at = clock, Offset[s] \in -MaxClockSkew .. 0,
                        s \in Strict =>
                            Act[c].presenter \in RegisteredKeys /\ -Offset[s] <= ProofFreshness,
                        c \notin Aliased
                 PROVE  LocallyVerified(s, c, cap, ProofNow(s, c, cap), SinkClock(s))
      BY DEF FreshCapabilityUsable
    <2>1. c \in Candidates
      BY CapabilityActs
    <2>2. CapabilityFor(cap, c)
      BY DEF Binding, Authorized, CapabilitiesFaithful
    <2>3. /\ cap.sink_id = Act[c].sink_id /\ cap.boundary_id = Act[c].boundary_id
          /\ cap.nonce = Act[c].nonce /\ cap.scope = Act[c].scope
          /\ cap.policy_epoch = Act[c].policy_epoch
          /\ Allowed(c, clock)
          /\ cap.expires_at = Min2(StaleAt(c), clock + CapabilityTTL)
          /\ cap.candidate_digest = DigestNow(c)
      BY <2>2 DEF CapabilityFor
    <2>4. /\ Act[c].status = "NON_EFFECTIVE" /\ clock <= StaleAt(c)
          /\ Act[c].policy_epoch = Policy.policy_epoch
          /\ Act[c].effect_class \in Policy.effect_classes
          /\ Range(Act[c].scope) \subseteq Policy.scopes
      BY <2>3 DEF Allowed
    <2>5. /\ Act[c].effect_class = Context[s].effect_class
          /\ Act[c].policy_epoch = Context[s].policy_epoch
          /\ Range(Act[c].scope) \subseteq Context[s].scopes
      <3>1. /\ Act[c].sink_id = Context[s].sink_id
            /\ Act[c].boundary_id = Context[s].boundary_id
        BY <2>3
      <3>2. s \in Sinks /\ SinksServePolicy
        OBVIOUS
      <3> QED
        BY ONLY <2>1, <2>4, <3>1, <3>2 DEF SinksServePolicy
    <2>6. BindingsMatch(s, c, cap)
      <3>1. /\ {Act[c].sink_id, cap.sink_id} = {Context[s].sink_id}
            /\ {Act[c].boundary_id, cap.boundary_id} = {Context[s].boundary_id}
            /\ {Act[c].policy_epoch, cap.policy_epoch} = {Context[s].policy_epoch}
        BY <2>3, <2>5
      <3> QED
        BY <2>3, <2>4, <2>5, <3>1 DEF BindingsMatch
    <2>7. WithinLifetime(c, cap, SinkClock(s))
      <3>1. /\ clock \in Nat /\ StaleAt(c) \in Int /\ MaxClockSkew \in Nat
            /\ CapabilityTTL \in Nat /\ Offset[s] \in Int
        BY <2>1, CandidateTypes, SinkAssumption, AuthorityAssumption DEF TypeOK, WorkloadTypeOK
      <3> DEFINE stale == StaleAt(c)
                 last == clock + CapabilityTTL
                 end == cap.expires_at
                 seen == SinkClock(s)
      <3>2. /\ last \in Int /\ clock <= last /\ stale \in Int /\ clock <= stale
            /\ end = Min2(stale, last)
        <4>1. end = Min2(stale, last) /\ clock <= stale
          BY <2>3, <2>4
        <4>2. last \in Int /\ clock <= last
          BY <3>1
        <4> QED
          BY <3>1, <4>1, <4>2
      <3>3. seen \in Int /\ seen <= clock /\ clock - MaxClockSkew <= seen
        <4> DEFINE behind == Offset[s]
        <4>1. behind \in -MaxClockSkew .. 0 /\ seen = clock + behind
          BY DEF SinkClock
        <4> HIDE DEF behind, seen
        <4> QED
          BY <3>1, <4>1
      <3> HIDE DEF stale, last, end, seen
      <3>4. end \in Int /\ clock <= end /\ end <= stale
        BY <3>2 DEF Min2
      <3>5. seen <= end /\ clock - MaxClockSkew <= seen /\ end <= stale
        BY <3>1, <3>3, <3>4
      <3> QED
        BY <3>5 DEF WithinLifetime, seen, end, stale
    <2>8. ASSUME s \in Strict
          PROVE  ProofAccepted(s, c, cap, ProofNow(s, c, cap), SinkClock(s))
      <3> DEFINE proof == ProofNow(s, c, cap)
                 behind == Offset[s]
      <3>1. /\ cap \in Capabilities /\ DigestNow(c) \in Digests /\ clock \in Int
            /\ Act[c].nonce \in Nonces /\ Act[c].presenter \in Keys
        BY <2>1, <2>8, DigestType, CandidateTypes, SinkAssumption
        DEF TypeOK, WorkloadTypeOK
      <3>2. proof # Absent
        <4>1. proof \in ProofStatements(Capabilities, Int, Keys)
          BY <3>1 DEF ProofNow, ProofStatements
        <4> QED
          BY <4>1, NoProofAssumption
      <3>3. /\ proof.capability_id = cap /\ proof.candidate_digest = DigestNow(c)
            /\ proof.sink_id = Context[s].sink_id /\ proof.boundary_id = Context[s].boundary_id
            /\ proof.nonce = Act[c].nonce /\ proof.presented_at = clock
            /\ proof.presenter = Act[c].presenter
        BY DEF ProofNow
      <3>4. ProofFresh(proof, SinkClock(s))
        <4>1. /\ clock \in Int /\ behind \in Int /\ behind <= 0 /\ -behind <= ProofFreshness
              /\ ProofFreshness \in Nat /\ SinkClock(s) = clock + behind
          BY <2>8, SinkAssumption DEF SinkClock, TypeOK, WorkloadTypeOK
        <4> HIDE DEF proof, behind
        <4>2. clock + behind - clock \in -ProofFreshness .. ProofFreshness
          BY <4>1
        <4> QED
          BY <3>3, <4>1, <4>2 DEF ProofFresh
      <3>5. proof = ProofNow(s, c, cap)
        OBVIOUS
      <3> HIDE DEF proof
      <3>6. ProofAccepted(s, c, cap, proof, SinkClock(s))
        BY <2>8, <3>2, <3>3, <3>4 DEF ProofAccepted
      <3> QED
        BY <3>5, <3>6
    <2> QED
      BY <2>3, <2>6, <2>7, <2>8 DEF LocallyVerified
  <1> QED
    BY <1>1, TypeCorrect, BindingCorrect, PTL

-----------------------------------------------------------------------------
(* Each verifier's conditions follow from the other's and from how the     *)
(* capability was made.                                                    *)
LEMMA AdmissibleIsPortable ==
    ASSUME TypeOK, Provenance, Binding, Aliased = {},
           NEW cap \in issued, NEW s \in Sinks, NEW c \in Candidates, Recent(cap),
           Admissible(s, c, cap)
    PROVE  LET d == CaseFile(s, c, cap)
           IN  CandidateHolds(d) /\ TransitionHolds(d) /\ CapabilityHolds(d)
  <1> DEFINE d == CaseFile(s, c, cap)
             rebuilt == Hcad(c, payload[c], Context[s].sink_id, Context[s].boundary_id)
  <1>1. /\ d.candidate = c /\ d.state_transition = cap.transition_id
        /\ d.hcad = Hcad(c, payload[c], Act[c].sink_id, Act[c].boundary_id)
        /\ d.validation_evidence = cap.evidence_id
        /\ d.capability = cap /\ d.sink_context = Context[s]
    BY DEF CaseFile
  <1>2. /\ BindingsMatch(s, c, cap) /\ cap.expires_at <= StaleAt(c)
        /\ cap.candidate_digest = DigestNow(c)
        /\ EvidenceVerified(cap, rebuilt)
    BY DEF Admissible
  <1>3. cap.candidate_digest.act = c
    BY <1>2 DEF DigestNow, Digest
  <1>4. CapabilityFor(cap, c)
    BY <1>3 DEF Binding, Authorized, CapabilitiesFaithful
  <1>5. /\ {Act[c].sink_id, cap.sink_id} = {Context[s].sink_id}
        /\ {Act[c].boundary_id, cap.boundary_id} = {Context[s].boundary_id}
        /\ {Act[c].policy_epoch, cap.policy_epoch} = {Context[s].policy_epoch}
        /\ Act[c].status = "NON_EFFECTIVE" /\ Act[c].effect_class = Context[s].effect_class
        /\ Act[c].scope = cap.scope /\ Range(cap.scope) \subseteq Context[s].scopes
        /\ cap.nonce = Act[c].nonce
    BY <1>2 DEF BindingsMatch
  <1>6. /\ cap.descriptor_digest = rebuilt /\ cap.evidence_id.decision = "ALLOW"
        /\ cap.evidence_id.candidate_digest = cap.candidate_digest
        /\ cap.evidence_id.descriptor_digest = cap.descriptor_digest
        /\ cap.evidence_id.transition_id = cap.transition_id
    BY <1>2 DEF EvidenceVerified
  <1>7. d.hcad = rebuilt
    <2>1. Act[c].sink_id = Context[s].sink_id /\ Act[c].boundary_id = Context[s].boundary_id
      BY <1>5
    <2> QED
      BY <1>1, <2>1
  <1>8. CandidateHolds(d)
    <2>1. /\ d.sink_context.sink_id = Context[s].sink_id
          /\ d.sink_context.boundary_id = Context[s].boundary_id
      BY <1>1
    <2>2. /\ {d.capability.descriptor_digest, d.validation_evidence.descriptor_digest, d.hcad}
               = {rebuilt}
          /\ {d.capability.candidate_digest, d.validation_evidence.candidate_digest}
               = {DigestNow(c)}
      BY <1>1, <1>2, <1>6, <1>7
    <2> HIDE DEF d
    <2> QED
      BY <1>1, <1>5, <2>1, <2>2 DEF CandidateHolds
  <1>9. TransitionHolds(d)
    <2>1. TransitionFor(cap.transition_id, c) /\ cap.transition_id \in TransitionIds
      BY <1>4 DEF CapabilityFor, TypeOK, Capabilities
    <2>2. cap.transition_id.candidate_digest = DigestNow(c)
      BY <2>1 DEF TransitionFor
    <2>3. [cap.transition_id EXCEPT !.candidate_digest = DigestNow(c)] = cap.transition_id
      BY <2>1, <2>2 DEF TransitionIds
    <2> HIDE DEF d
    <2> QED
      BY <1>1, <1>6, <2>1, <2>3 DEF TransitionHolds, TransitionFor
  <1>10. CapabilityHolds(d)
    <2>1. /\ cap.sink_id = Context[s].sink_id /\ cap.boundary_id = Context[s].boundary_id
          /\ cap.policy_epoch = Context[s].policy_epoch
      BY <1>5
    <2> HIDE DEF d
    <2> QED
      BY <1>1, <1>2, <1>5, <1>6, <2>1 DEF CapabilityHolds, EndsWithCandidate
  <1> QED
    BY <1>8, <1>9, <1>10

LEMMA PortableIsAdmissible ==
    ASSUME TypeOK, Provenance, Binding, Aliased = {},
           NEW cap \in issued, NEW s \in Sinks, NEW c \in Candidates, Recent(cap),
           PortablyVerified(CaseFile(s, c, cap))
    PROVE  Admissible(s, c, cap)
  <1> DEFINE d == CaseFile(s, c, cap)
             rebuilt == Hcad(c, payload[c], Context[s].sink_id, Context[s].boundary_id)
  <1>1. /\ d.candidate = c /\ d.capability = cap /\ d.sink_context = Context[s]
        /\ d.validation_evidence = cap.evidence_id
        /\ d.hcad = Hcad(c, payload[c], Act[c].sink_id, Act[c].boundary_id)
    BY DEF CaseFile
  <1>2. CandidateHolds(d) /\ CapabilityHolds(d)
    BY DEF PortablyVerified
  <1> HIDE DEF d
  <1>3. /\ Act[c].status = "NON_EFFECTIVE"
        /\ cap.descriptor_digest = rebuilt /\ d.hcad = rebuilt
        /\ cap.candidate_digest = DigestNow(c)
    BY <1>1, <1>2 DEF CandidateHolds
  <1>4. /\ cap.sink_id = Context[s].sink_id /\ cap.boundary_id = Context[s].boundary_id
        /\ cap.policy_epoch = Context[s].policy_epoch
        /\ cap.nonce = Act[c].nonce /\ cap.scope = Act[c].scope
        /\ Range(cap.scope) \subseteq Context[s].scopes
        /\ Act[c].effect_class = Context[s].effect_class
        /\ cap.expires_at <= StaleAt(c)
    BY <1>1, <1>2 DEF CapabilityHolds, EndsWithCandidate
  <1>5. Act[c].sink_id = Context[s].sink_id /\ Act[c].boundary_id = Context[s].boundary_id
    BY <1>1, <1>3 DEF Hcad
  <1>6. cap.candidate_digest.act = c
    BY <1>3 DEF DigestNow, Digest
  <1>7. CapabilityFor(cap, c)
    BY <1>6 DEF Binding, Authorized, CapabilitiesFaithful
  <1>8. BindingsMatch(s, c, cap)
    BY <1>3, <1>4, <1>5, <1>7 DEF BindingsMatch, CapabilityFor
  <1>9. /\ TransitionVerified(cap.transition_id, c)
        /\ EvidenceVerified(cap, Hcad(c, payload[c], Act[c].sink_id, Act[c].boundary_id))
    BY <1>6, RecentIsVerified DEF Binding
  <1>10. EvidenceVerified(cap, rebuilt)
    BY <1>5, <1>9
  <1> QED
    BY <1>3, <1>4, <1>8, <1>9, <1>10 DEF Admissible

(* Three implementations, one verdict: where the workload keeps no         *)
(* reference into a payload, the portable verifiers accept the case file   *)
(* of a recent capability exactly when the sink would accept it within its *)
(* lifetime and every integer is portable (sink.py:59-134,                 *)
(* main.go:82-151, finality_verify.mjs:10-42).                             *)
THEOREM VerifiersAgreeCorrect ==
    ASSUME Aliased = {}
    PROVE  Spec => []VerifiersAgree
  <1>1. TypeOK /\ Provenance /\ Binding => VerifiersAgree
    <2> SUFFICES ASSUME TypeOK, Provenance, Binding,
                        NEW cap \in issued, NEW s \in Sinks, NEW c \in Candidates,
                        cap.issued_at >= boot
                 PROVE  LET d == CaseFile(s, c, cap)
                        IN  PortablyVerified(d) <=> SafeIntegers(d) /\ Admissible(s, c, cap)
      BY DEF VerifiersAgree
    <2>1. Recent(cap)
      BY DEF Recent
    <2>2. PortablyVerified(CaseFile(s, c, cap)) => Admissible(s, c, cap)
      BY <2>1, PortableIsAdmissible
    <2>3. Admissible(s, c, cap) =>
              /\ CandidateHolds(CaseFile(s, c, cap)) /\ TransitionHolds(CaseFile(s, c, cap))
              /\ CapabilityHolds(CaseFile(s, c, cap))
      BY <2>1, AdmissibleIsPortable
    <2> QED
      BY <2>2, <2>3 DEF PortablyVerified
  <1> QED
    BY <1>1, TypeCorrect, ProvenanceCorrect, BindingCorrect, PTL

-----------------------------------------------------------------------------
(* The strict profile.  A proof stays on record, so what it was accepted   *)
(* for stays proven.                                                       *)
LEMMA ProofsStay ==
    ASSUME proofs \subseteq proofs', NEW s \in Sinks, NEW cap, NEW now, ProvenFor(s, cap, now)
    PROVE  ProvenFor(s, cap, now)'
  BY DEF ProvenFor, ProofFresh

LEMMA ProvenKept ==
    ASSUME TypeOK, Proven, proofs \subseteq proofs', UNCHANGED effects,
           \A t \in Callers : call'[t].at # "idle" =>
               \/ /\ call[t].at # "idle"
                  /\ call'[t].cap = call[t].cap
                  /\ call'[t].sink = call[t].sink
                  /\ call'[t].now = call[t].now
               \/ call'[t].sink \in Strict =>
                     ProvenFor(call'[t].sink, call'[t].cap, call'[t].now)
    PROVE  Proven'
  <1>1. Strict \subseteq Sinks
    BY SinkAssumption
  <1>2. CallsProven'
    <2> SUFFICES ASSUME NEW t \in Callers, call'[t].at # "idle", call'[t].sink \in Strict
                 PROVE  ProvenFor(call[t].sink, call[t].cap, call[t].now)'
      BY DEF CallsProven
    <2>1. ProvenFor(call'[t].sink, call'[t].cap, call'[t].now)
      BY DEF Proven, CallsProven
    <2>2. PICK s, cap, now :
             s \in Sinks /\ s = call'[t].sink /\ cap = call'[t].cap /\ now = call'[t].now
      BY <1>1
    <2>3. ProvenFor(s, cap, now)'
      BY <2>1, <2>2, ProofsStay
    <2> QED
      BY <2>2, <2>3
  <1>3. EffectsProven'
    <2> SUFFICES ASSUME NEW o \in Occurrences, EffectAt(o).sink \in Strict
                 PROVE  ProvenFor(EffectAt(o).sink, EffectAt(o).cap, EffectAt(o).verified_at)'
      BY SameEffects DEF EffectsProven
    <2>1. PICK s, cap, now :
             /\ s \in Sinks /\ s = EffectAt(o).sink
             /\ cap = EffectAt(o).cap /\ now = EffectAt(o).verified_at
      BY <1>1
    <2>2. ProvenFor(s, cap, now)'
      BY <2>1, ProofsStay DEF Proven, EffectsProven
    <2>3. EffectAt(o)' = EffectAt(o)
      BY SameEffects
    <2> QED
      BY <2>1, <2>2, <2>3
  <1> QED
    BY <1>2, <1>3 DEF Proven

LEMMA CommitKeepsProven ==
    ASSUME TypeOK, Proven, NEW t \in Callers, CommitEffect(t), UNCHANGED proofs
    PROVE  Proven'
  <1>1. PICK new :
           /\ Occurrences' = Occurrences \cup {new}
           /\ EffectAt(new)'.cap = call[t].cap
           /\ EffectAt(new)'.sink = call[t].sink
           /\ EffectAt(new)'.verified_at = call[t].now
           /\ \A o \in Occurrences : EffectAt(o)' = EffectAt(o) /\ o # new
    BY OneMoreEffect
  <1>2. call[t].at # "idle" /\ EffectuateStep(t)
    BY DEF CommitEffect, EffectuateStep
  <1>3. call[t].sink \in Strict => ProvenFor(call[t].sink, call[t].cap, call[t].now)
    BY <1>2 DEF Proven, CallsProven
  <1>4. EffectsProven'
    BY <1>1, <1>3 DEF Proven, EffectsProven, ProvenFor, ProofFresh
  <1>5. CallsProven'
    BY <1>2, StepKeepsCall DEF Proven, CallsProven, ProvenFor, ProofFresh
  <1> QED
    BY <1>4, <1>5 DEF Proven

LEMMA BeginIsProven ==
    ASSUME NEW t \in Callers, NEW s \in Strict, NEW c \in Candidates,
           NEW cap \in issued, NEW proof \in proofs \cup {Absent},
           BeginEffectuate(t, s, c, cap, proof)
    PROVE  ProvenFor(s, cap, SinkClock(s))
  <1>1. /\ ProofAccepted(s, c, cap, proof, SinkClock(s)) /\ BindingsMatch(s, c, cap)
        /\ cap.candidate_digest = DigestNow(c)
    BY DEF BeginEffectuate, LocallyVerified
  <1>2. cap.candidate_digest.act = c /\ cap.nonce = Act[c].nonce
    BY <1>1 DEF DigestNow, Digest, BindingsMatch
  <1>3. proof \in proofs
    BY <1>1 DEF ProofAccepted
  <1> QED
    BY <1>1, <1>2, <1>3 DEF ProofAccepted, ProvenFor

LEMMA NextKeepsProven == TypeOK /\ Proven /\ [Next]_vars => Proven'
  <1> SUFFICES ASSUME TypeOK, Proven, [Next]_vars PROVE Proven'
    OBVIOUS
  <1>1. CASE Authorize \/ Reconfigure \/ UNCHANGED vars
    BY <1>1, ProvenKept DEF Authorize, Reconfigure, vars, sinkVars, workloadVars
  <1>2. CASE Environment
    BY <1>2, ProvenKept DEF Environment, Tick, MutatePayload, sinkVars
  <1>3. CASE MakeProof
    <2>1. proofs \subseteq proofs'
      BY <1>3 DEF MakeProof, Prove
    <2> QED
      BY <1>3, <2>1, ProvenKept DEF MakeProof, sinkVars
  <1>4. CASE Restart
    BY <1>4, ProvenKept DEF Restart, Tick, NoCall
  <1>5. CASE Effectuate
    <2>1. UNCHANGED proofs
      BY <1>5 DEF Effectuate
    <2>2. PICK t \in Callers : Present(t) \/ EffectuateStep(t)
      BY <1>5 DEF Effectuate
    <2>3. ASSUME NEW s \in Sinks, NEW c \in Candidates, NEW cap \in issued,
                 NEW proof \in proofs \cup {Absent}, BeginEffectuate(t, s, c, cap, proof)
          PROVE  Proven'
      <3>1. /\ call'[t].cap = cap /\ call'[t].sink = s /\ call'[t].now = SinkClock(s)
            /\ \A u \in Callers \ {t} : call'[u] = call[u]
            /\ UNCHANGED effects
        BY <2>3 DEF BeginEffectuate, TypeOK
      <3>2. s \in Strict => ProvenFor(s, cap, SinkClock(s))
        BY <2>3, BeginIsProven
      <3> QED
        BY <2>1, <3>1, <3>2, ProvenKept
    <2>4. ASSUME NEW s \in Sinks, NEW c \in Candidates, NEW cap \in issued, NEW proof,
                 RefuseEffectuate(t, s, c, cap, proof)
          PROVE  Proven'
      BY <2>1, <2>4, ProvenKept DEF RefuseEffectuate, sinkVars
    <2>5. CASE CommitEffect(t)
      BY <2>1, <2>5, CommitKeepsProven
    <2>6. CASE EffectuateStep(t) /\ ~CommitEffect(t)
      <3>1. UNCHANGED effects
        BY <2>6
        DEF EffectuateStep, VerifyEvidence, VerifyTransition, ClaimCapability, RefuseClaim,
            FailEffect, IssueReceipt, FailReceipt
      <3> QED
        BY <2>1, <2>6, <3>1, StepKeepsCall, ProvenKept
    <2> QED
      BY <2>2, <2>3, <2>4, <2>5, <2>6 DEF Present
  <1> QED
    BY <1>1, <1>2, <1>3, <1>4, <1>5 DEF Next

(* Non-bearer capabilities: at a strict sink every effect was verified     *)
(* with a proof by the registered presenter whom the authorized act names, *)
(* for this very capability, act, sink and nonce, and dated within the     *)
(* freshness of the verification, in the past or in the future, whatever   *)
(* else presenters sign, for any number of proofs, presenters, threads and *)
(* restarts (sink.py:85-104, pop.py:36-48).                                *)
THEOREM StrictEffectsProvenCorrect == Spec => []StrictEffectsProven
  <1>1. Init => Proven
    BY DEF Init, SinkInit, NoCall, Proven, CallsProven, EffectsProven, Occurrences
  <1>2. Proven => StrictEffectsProven
    BY DEF Proven, EffectsProven, ProvenFor, StrictEffectsProven
  <1> QED
    BY <1>1, <1>2, TypeCorrect, NextKeepsProven, PTL DEF Spec
=============================================================================
