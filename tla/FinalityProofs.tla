--------------------------- MODULE FinalityProofs ---------------------------
(***************************************************************************)
(* For any number of authorizers, callers, sinks, stores and channels, any *)
(* clock offsets and any number of restarts: the system is well typed, no  *)
(* capability ever has two effects, and (below) where each comes from.     *)
(***************************************************************************)
EXTENDS Finality, ProtectedStateProofs, SequenceTheorems

-----------------------------------------------------------------------------
(* What a candidate and its payload hash to, and the fields of a call.     *)
LEMMA DigestType ==
    ASSUME TypeOK, NEW c \in Candidates
    PROVE  /\ DigestNow(c) \in Digests
           /\ Hcad(c, payload[c], Act[c].sink_id, Act[c].boundary_id) \in Descriptors
  <1>1. payload[c] \in Payloads
    BY DEF TypeOK, WorkloadTypeOK
  <1> QED
    BY <1>1 DEF DigestNow, Digests, Descriptors

LEMMA AuthCallTypes ==
    ASSUME TypeOK, NEW a \in Authorizers, authCall[a].at # "idle"
    PROVE  /\ authCall[a].cand \in Candidates
           /\ authCall[a].now \in Nat
           /\ authCall[a].descriptor \in Descriptors
           /\ authCall[a].at = "reserve" => authCall[a].cost \in Costs
           /\ authCall[a].at \in {"commit", "issue"} => authCall[a].transition \in TransitionIds
           /\ authCall[a].at = "issue" => authCall[a].evidence \in EvidenceRecords
  <1>1. authCall[a] \in AuthStates
    BY DEF TypeOK, Idle
  <1> QED
    BY <1>1 DEF AuthStates

LEMMA CallTypes ==
    ASSUME TypeOK, NEW t \in Callers, call[t].at # "idle"
    PROVE  call[t] \in CallStates
  BY DEF TypeOK, NoCall

LEMMA CandidateTypes ==
    ASSUME NEW c \in Candidates
    PROVE  /\ Act[c].source \in Sources /\ Act[c].nonce \in Nonces
           /\ Act[c].issued_at \in Int /\ Act[c].freshness \in Int
           /\ StaleAt(c) \in Int
           /\ Act[c].policy_epoch \in Epochs
  BY ActAssumption DEF StaleAt, Epochs

-----------------------------------------------------------------------------
LEMMA InitTyped == Init => TypeOK
  <1> SUFFICES ASSUME Init PROVE TypeOK
    OBVIOUS
  <1>1. StateTypeOK
    BY StateTypeInit DEF Init
  <1>2. WorkloadTypeOK /\ boot \in Nat /\ boot <= clock
    BY DEF Init, WorkloadInit, WorkloadTypeOK
  <1>3. /\ effects \in [Channels -> Seq(EffectRecords)]
        /\ earlier \in [Channels -> Nat]
        /\ \A ch \in Channels : earlier[ch] <= Len(effects[ch])
    BY DEF Init, SinkInit
  <1> QED
    BY <1>1, <1>2, <1>3
    DEF Init, TypeOK, EvidenceInit, AuthorityInit, ClaimsInit, SinkInit

(* The steps of authorize. *)
LEMMA ReserveTyped ==
    ASSUME TypeOK, NEW a \in Authorizers, ReserveTransition(a)
    PROVE  /\ StateTypeOK'
           /\ authCall' \in [Authorizers -> AuthStates \cup {Idle}]
  <1> DEFINE k == authCall[a]
             t == TransitionCore(k.cand, k.cost, DigestNow(k.cand))
  <1>1. k.at = "reserve"
    BY DEF ReserveTransition
  <1>2. /\ k.cand \in Candidates /\ k.now \in Nat /\ k.descriptor \in Descriptors
        /\ k.cost \in Costs /\ DigestNow(k.cand) \in Digests
    BY <1>1, AuthCallTypes, DigestType
  <1>3. TransitionForAuthorization(k.cand, k.cost, DigestNow(k.cand))
    BY DEF ReserveTransition
  <1>4. StateTypeOK
    BY DEF TypeOK
  <1>5. StateTypeOK' /\ t \in TransitionIds
    BY <1>2, <1>3, <1>4, GrantKeepsType, GrantFacts
  <1> HIDE DEF t
  <1>6. [at |-> "commit", cand |-> k.cand, now |-> k.now, descriptor |-> k.descriptor,
         transition |-> t] \in AuthStates
    BY <1>2, <1>5 DEF AuthStates
  <1>7. authCall' = [authCall EXCEPT ![a] =
           [at |-> "commit", cand |-> k.cand, now |-> k.now, descriptor |-> k.descriptor,
            transition |-> t]]
    BY DEF ReserveTransition, t
  <1> QED
    BY <1>5, <1>6, <1>7 DEF TypeOK

LEMMA EvidenceTyped ==
    ASSUME TypeOK, NEW a \in Authorizers, CommitEvidence(a)
    PROVE  /\ evidence' \subseteq EvidenceRecords
           /\ authCall' \in [Authorizers -> AuthStates \cup {Idle}]
  <1> DEFINE k == authCall[a]
             e == EvidenceCore(k)
  <1>1. k.at = "commit"
    BY DEF CommitEvidence
  <1>2. /\ k.cand \in Candidates /\ k.now \in Nat /\ k.descriptor \in Descriptors
        /\ k.transition \in TransitionIds /\ DigestNow(k.cand) \in Digests
        /\ Act[k.cand].policy_epoch \in Epochs
    BY <1>1, AuthCallTypes, DigestType, CandidateTypes
  <1>3. e \in EvidenceRecords
    BY <1>2 DEF EvidenceCore, EvidenceRecords
  <1> HIDE DEF e
  <1>4. [at |-> "issue", cand |-> k.cand, now |-> k.now, descriptor |-> k.descriptor,
         transition |-> k.transition, evidence |-> e] \in AuthStates
    BY <1>2, <1>3 DEF AuthStates
  <1>5. /\ evidence' = evidence \cup {e}
        /\ authCall' = [authCall EXCEPT ![a] =
             [at |-> "issue", cand |-> k.cand, now |-> k.now, descriptor |-> k.descriptor,
              transition |-> k.transition, evidence |-> e]]
    BY DEF CommitEvidence, CommitRecord, e
  <1> QED
    BY <1>3, <1>4, <1>5 DEF TypeOK

LEMMA IssueTyped ==
    ASSUME TypeOK, NEW a \in Authorizers, IssueCapability(a)
    PROVE  issued' \subseteq Capabilities
  <1> DEFINE k == authCall[a]
  <1>1. k.at = "issue"
    BY DEF IssueCapability
  <1>2. /\ k.cand \in Candidates /\ k.now \in Nat /\ k.descriptor \in Descriptors
        /\ k.transition \in TransitionIds /\ k.evidence \in EvidenceRecords
        /\ DigestNow(k.cand) \in Digests
    BY <1>1, AuthCallTypes, DigestType
  <1>3. /\ Act[k.cand].policy_epoch \in Epochs /\ Act[k.cand].nonce \in Nonces
        /\ StaleAt(k.cand) \in Int
    BY <1>2, CandidateTypes
  <1>4. Min2(StaleAt(k.cand), k.now + CapabilityTTL) \in Int
    BY <1>2, <1>3, AuthorityAssumption DEF Min2
  <1>5. CapabilityCore(k) \in Capabilities
    BY <1>2, <1>3, <1>4 DEF CapabilityCore, Capabilities
  <1> QED
    BY <1>5 DEF IssueCapability, TypeOK

LEMMA AuthorizeTyped == TypeOK /\ Authorize => TypeOK'
  <1> SUFFICES ASSUME TypeOK, Authorize PROVE TypeOK'
    OBVIOUS
  <1>1. UNCHANGED <<workloadVars, claims, proofs, sinkVars, processVars>>
    BY DEF Authorize
  <1>2. PICK a \in Authorizers :
            \/ \E c \in Candidates, cost \in Costs : BeginAuthorize(a, c, cost)
            \/ \E c \in Candidates : RefuseAuthorize(a, c)
            \/ AuthorizeStep(a)
    BY DEF Authorize, AuthorityNext
  <1> USE DEF workloadVars, sinkVars, processVars, stateVars, WorkloadTypeOK
  <1>3. ASSUME NEW c \in Candidates, NEW cost \in Costs, BeginAuthorize(a, c, cost)
        PROVE  TypeOK'
    <2> DEFINE d == Hcad(c, payload[c], Act[c].sink_id, Act[c].boundary_id)
               k == [at |-> "reserve", cand |-> c, cost |-> cost, now |-> clock,
                     descriptor |-> d]
    <2>1. d \in Descriptors /\ clock \in Nat
      BY DigestType DEF TypeOK
    <2> HIDE DEF d
    <2>2. k \in AuthStates
      BY <2>1 DEF AuthStates
    <2>3. authCall' = [authCall EXCEPT ![a] = k]
      BY <1>3 DEF BeginAuthorize, d
    <2>4. UNCHANGED <<stateVars, evidence, issued>>
      BY <1>3 DEF BeginAuthorize
    <2> QED
      BY <1>1, <2>2, <2>3, <2>4 DEF TypeOK, StateTypeOK
  <1>4. ASSUME NEW c \in Candidates, RefuseAuthorize(a, c)
        PROVE  TypeOK'
    BY <1>1, <1>4 DEF RefuseAuthorize, authorityVars, TypeOK, StateTypeOK
  <1>5. CASE ReserveTransition(a)
    BY <1>1, <1>5, ReserveTyped DEF ReserveTransition, TypeOK
  <1>6. CASE RefuseTransition(a)
    BY <1>1, <1>6 DEF RefuseTransition, Return, TypeOK, StateTypeOK
  <1>7. CASE CommitEvidence(a)
    BY <1>1, <1>7, EvidenceTyped DEF CommitEvidence, TypeOK, StateTypeOK
  <1>8. CASE FailEvidence(a)
    BY <1>1, <1>8 DEF FailEvidence, CommitRaises, Return, TypeOK, StateTypeOK
  <1>9. CASE IssueCapability(a)
    BY <1>1, <1>9, IssueTyped DEF IssueCapability, Return, TypeOK, StateTypeOK
  <1> QED
    BY <1>2, <1>3, <1>4, <1>5, <1>6, <1>7, <1>8, <1>9 DEF AuthorizeStep

-----------------------------------------------------------------------------
(* The steps of effectuate. *)
LEMMA MovedCallTyped ==
    ASSUME TypeOK, NEW t \in Callers, call[t].at # "idle",
           NEW step \in {"evidence", "transition", "claim", "commit", "receipt"},
           Advance(t, step)
    PROVE  call' \in [Callers -> CallStates \cup {NoCall}]
  <1>1. call[t] \in CallStates
    BY CallTypes
  <1>2. [call[t] EXCEPT !.at = step] \in CallStates
    BY <1>1 DEF CallStates
  <1> QED
    BY <1>2 DEF Advance, TypeOK

LEMMA FinishedCallTyped ==
    ASSUME TypeOK, NEW t \in Callers, Finish(t)
    PROVE  call' \in [Callers -> CallStates \cup {NoCall}]
  BY DEF Finish, TypeOK

LEMMA CommitTyped ==
    ASSUME TypeOK, NEW t \in Callers, CommitEffect(t)
    PROVE  /\ call' \in [Callers -> CallStates \cup {NoCall}]
           /\ effects' \in [Channels -> Seq(EffectRecords)]
           /\ \A ch \in Channels : earlier[ch] <= Len(effects'[ch])
  <1> DEFINE k == call[t]
             ch == ChannelOf[k.sink]
             ref == Reference(ch, DigestNow(k.cand))
             e == [cap |-> k.cap, sink |-> k.sink, candidate_digest |-> DigestNow(k.cand),
                   at |-> clock, verified_at |-> k.now, reference |-> ref]
  <1>1. k \in CallStates
    BY CallTypes DEF CommitEffect
  <1>2. /\ k.sink \in Sinks /\ k.cand \in Candidates /\ k.cap \in Capabilities
        /\ k.now \in Int
    BY <1>1 DEF CallStates
  <1>3. DigestNow(k.cand) \in Digests /\ ch \in Channels /\ clock \in Nat
    BY <1>2, DigestType, SinkAssumption DEF TypeOK, WorkloadTypeOK
  <1>4. effects[ch] \in Seq(EffectRecords)
    BY <1>3 DEF TypeOK
  <1>5. Len(effects[ch]) - earlier[ch] \in Nat
    <2>1. Len(effects[ch]) \in Nat /\ earlier[ch] \in Nat /\ earlier[ch] <= Len(effects[ch])
      BY <1>3, <1>4 DEF TypeOK
    <2> QED
      BY <2>1
  <1>6. ref \in References
    BY <1>3, <1>5 DEF Reference, References
  <1> HIDE DEF ref
  <1>7. e \in EffectRecords
    BY <1>2, <1>3, <1>6 DEF EffectRecords
  <1> HIDE DEF e
  <1>8. /\ Append(effects[ch], e) \in Seq(EffectRecords)
        /\ Len(Append(effects[ch], e)) = Len(effects[ch]) + 1
    BY <1>4, <1>7
  <1>9. effects' = [effects EXCEPT ![ch] = Append(@, e)]
    BY DEF CommitEffect, e, ref
  <1>10. call' = [call EXCEPT ![t].at = "receipt", ![t].reference = ref]
    BY DEF CommitEffect, ref
  <1>11. [[k EXCEPT !.at = "receipt"] EXCEPT !.reference = ref] \in CallStates
    BY <1>1, <1>6 DEF CallStates
  <1>12. \A d \in Channels : earlier[d] <= Len(effects'[d])
    <2>1. /\ \A d \in Channels : earlier[d] <= Len(effects[d])
          /\ earlier[ch] \in Nat /\ Len(effects[ch]) \in Nat
      BY <1>3, <1>4 DEF TypeOK
    <2>2. \A d \in Channels : d # ch => effects'[d] = effects[d]
      BY <1>9 DEF TypeOK
    <2>3. effects'[ch] = Append(effects[ch], e)
      BY <1>3, <1>9 DEF TypeOK
    <2> QED
      BY <1>8, <2>1, <2>2, <2>3
  <1> QED
    BY <1>3, <1>8, <1>9, <1>10, <1>11, <1>12 DEF TypeOK

LEMMA ClaimTyped ==
    ASSUME TypeOK, NEW t \in Callers, ClaimCapability(t)
    PROVE  /\ call' \in [Callers -> CallStates \cup {NoCall}]
           /\ claims' \in [Stores -> SUBSET Capabilities]
  <1>1. call[t] \in CallStates
    BY CallTypes DEF ClaimCapability
  <1>2. call[t].cap \in Capabilities /\ StoreOf[call[t].sink] \in Stores
    BY <1>1, SinkAssumption DEF CallStates
  <1>3. claims' \in [Stores -> SUBSET Capabilities]
    BY <1>2 DEF ClaimCapability, Claim, TypeOK
  <1> QED
    BY <1>3, MovedCallTyped DEF ClaimCapability

LEMMA BeginTyped ==
    ASSUME TypeOK, NEW t \in Callers, NEW s \in Sinks, NEW c \in Candidates,
           NEW cap \in issued, NEW proof, BeginEffectuate(t, s, c, cap, proof)
    PROVE  call' \in [Callers -> CallStates \cup {NoCall}]
  <1> DEFINE k == [at |-> "evidence", sink |-> s, cand |-> c, cap |-> cap,
                   now |-> SinkClock(s), reference |-> Absent]
  <1>1. SinkClock(s) \in Int
    BY SinkAssumption DEF SinkClock, TypeOK, WorkloadTypeOK
  <1>2. k \in CallStates
    BY <1>1 DEF CallStates, References, TypeOK
  <1>3. call' = [call EXCEPT ![t] = k]
    BY DEF BeginEffectuate
  <1> QED
    BY <1>2, <1>3 DEF TypeOK

LEMMA EffectuateTyped == TypeOK /\ Effectuate => TypeOK'
  <1> SUFFICES ASSUME TypeOK, Effectuate PROVE TypeOK'
    OBVIOUS
  <1>1. UNCHANGED <<stateVars, evidence, workloadVars, authorityVars, proofs, processVars>>
    BY DEF Effectuate
  <1>2. PICK t \in Callers : Present(t) \/ EffectuateStep(t)
    BY DEF Effectuate
  <1>3. SUFFICES /\ claims' \in [Stores -> SUBSET Capabilities]
                 /\ call' \in [Callers -> CallStates \cup {NoCall}]
                 /\ effects' \in [Channels -> Seq(EffectRecords)]
                 /\ \A ch \in Channels : earlier[ch] <= Len(effects'[ch])
    BY <1>1
    DEF TypeOK, StateTypeOK, WorkloadTypeOK, stateVars, workloadVars, authorityVars, processVars
  <1>4. /\ claims \in [Stores -> SUBSET Capabilities]
        /\ call \in [Callers -> CallStates \cup {NoCall}]
        /\ effects \in [Channels -> Seq(EffectRecords)]
        /\ \A ch \in Channels : earlier[ch] <= Len(effects[ch])
    BY DEF TypeOK
  <1>5. ASSUME NEW s \in Sinks, NEW c \in Candidates, NEW cap \in issued, NEW proof,
               BeginEffectuate(t, s, c, cap, proof)
        PROVE  /\ UNCHANGED <<claims, effects>>
               /\ call' \in [Callers -> CallStates \cup {NoCall}]
    BY <1>5, BeginTyped DEF BeginEffectuate
  <1>6. ASSUME NEW s \in Sinks, NEW c \in Candidates, NEW cap \in issued, NEW proof,
               RefuseEffectuate(t, s, c, cap, proof)
        PROVE  UNCHANGED <<claims, effects, call>>
    BY <1>6 DEF RefuseEffectuate, sinkVars
  <1>7. CASE VerifyEvidence(t)
    BY <1>4, <1>7, MovedCallTyped, FinishedCallTyped DEF VerifyEvidence
  <1>8. CASE VerifyTransition(t)
    BY <1>4, <1>8, MovedCallTyped, FinishedCallTyped DEF VerifyTransition
  <1>9. CASE ClaimCapability(t)
    BY <1>4, <1>9, ClaimTyped DEF ClaimCapability
  <1>10. CASE RefuseClaim(t)
    BY <1>4, <1>10, FinishedCallTyped DEF RefuseClaim, ClaimRaises
  <1>11. CASE CommitEffect(t)
    BY <1>4, <1>11, CommitTyped DEF CommitEffect
  <1>12. CASE FailEffect(t) \/ FailReceipt(t)
    BY <1>4, <1>12, FinishedCallTyped DEF FailEffect, FailReceipt
  <1>13. CASE IssueReceipt(t)
    BY <1>4, <1>13, FinishedCallTyped DEF IssueReceipt
  <1> QED
    BY <1>2, <1>4, <1>5, <1>6, <1>7, <1>8, <1>9, <1>10, <1>11, <1>12, <1>13
    DEF Present, EffectuateStep

-----------------------------------------------------------------------------
LEMMA EnvironmentTyped == TypeOK /\ Environment => TypeOK'
  <1> SUFFICES ASSUME TypeOK, Environment PROVE TypeOK'
    OBVIOUS
  <1>1. clock' \in Nat /\ clock <= clock' /\ payload' \in [Candidates -> Payloads]
    <2>1. clock \in Nat /\ payload \in [Candidates -> Payloads]
      BY DEF TypeOK, WorkloadTypeOK
    <2>2. CASE Tick
      BY <2>1, <2>2 DEF Tick
    <2>3. ASSUME NEW c \in Candidates, NEW p \in Payloads, MutatePayload(c, p)
          PROVE  /\ clock' = clock
                 /\ payload' \in [Candidates -> Payloads]
      BY <2>1, <2>3 DEF MutatePayload
    <2> QED
      BY <2>1, <2>2, <2>3 DEF Environment
  <1>2. UNCHANGED <<stateVars, evidence, authorityVars, claims, sinkVars, processVars>>
    BY DEF Environment
  <1>3. boot' \in Nat /\ boot' <= clock'
    BY <1>1, <1>2 DEF TypeOK, WorkloadTypeOK, processVars
  <1> QED
    BY <1>1, <1>2, <1>3
    DEF TypeOK, WorkloadTypeOK, StateTypeOK, stateVars, authorityVars, sinkVars, processVars

LEMMA StateLostTyped == StateLost => StateTypeOK'
  BY QuotaAssumption DEF StateLost, StateTypeOK, NewSources, NewConfigured, Fresh, SourceStates

LEMMA RestartTyped == TypeOK /\ Restart => TypeOK'
  <1> SUFFICES ASSUME TypeOK, Restart PROVE TypeOK'
    OBVIOUS
  <1>1. StateTypeOK'
    BY StateLostTyped DEF Restart
  <1>2. WorkloadTypeOK' /\ boot' \in Nat /\ boot' <= clock'
    BY DEF Restart, Tick, TypeOK, WorkloadTypeOK
  <1>3. claims' \in [Stores -> SUBSET Capabilities]
    BY DEF Restart, Reopen, TypeOK
  <1>4. /\ effects' = effects
        /\ earlier' = [ch \in Channels |-> Len(effects[ch])]
    BY DEF Restart
  <1>5. \A ch \in Channels : Len(effects[ch]) \in Nat
    BY DEF TypeOK
  <1> QED
    BY <1>1, <1>2, <1>3, <1>4, <1>5 DEF Restart, EvidenceLost, TypeOK

LEMMA NextTyped == TypeOK /\ [Next]_vars => TypeOK'
  <1> SUFFICES ASSUME TypeOK, [Next]_vars PROVE TypeOK'
    OBVIOUS
  <1>1. CASE Authorize
    BY <1>1, AuthorizeTyped
  <1>2. CASE Effectuate
    BY <1>2, EffectuateTyped
  <1>3. CASE MakeProof
    BY <1>3 DEF MakeProof, TypeOK, StateTypeOK, WorkloadTypeOK, stateVars, workloadVars,
                authorityVars, sinkVars, processVars
  <1>4. CASE Reconfigure
    <2>1. StateTypeOK'
      BY <1>4, ConfigureKeepsType DEF Reconfigure, TypeOK
    <2> QED
      BY <1>4, <2>1 DEF Reconfigure, TypeOK, WorkloadTypeOK, workloadVars, authorityVars,
                        sinkVars, processVars
  <1>5. CASE Environment
    BY <1>5, EnvironmentTyped
  <1>6. CASE Restart
    BY <1>6, RestartTyped
  <1>7. CASE UNCHANGED vars
    BY <1>7 DEF vars, TypeOK, StateTypeOK, WorkloadTypeOK, stateVars, workloadVars,
                authorityVars, sinkVars, processVars
  <1> QED
    BY <1>1, <1>2, <1>3, <1>4, <1>5, <1>6, <1>7 DEF Next

(* Every reachable state of the composed system is well typed. *)
THEOREM TypeCorrect == Spec => []TypeOK
  BY InitTyped, NextTyped, PTL DEF Spec

-----------------------------------------------------------------------------
(* Effects and their places. *)
LEMMA OccurrenceTypes ==
    ASSUME TypeOK, NEW o \in Occurrences
    PROVE  EffectAt(o) \in EffectRecords
  <1>1. PICK ch \in Channels : o \in {ch} \X DOMAIN effects[ch]
    BY DEF Occurrences
  <1>2. effects[ch] \in Seq(EffectRecords) /\ o[1] = ch /\ o[2] \in DOMAIN effects[ch]
    BY <1>1 DEF TypeOK
  <1> QED
    BY <1>2, ElementOfSeq DEF EffectAt

LEMMA CommittedAtTypes ==
    ASSUME NEW cap \in Capabilities
    PROVE  /\ cap.evidence_id \in EvidenceRecords
           /\ cap.evidence_id.committed_at \in Nat
  BY DEF Capabilities, EvidenceRecords

LEMMA SameEffects ==
    ASSUME UNCHANGED effects
    PROVE  /\ Occurrences' = Occurrences
           /\ \A o \in Occurrences : EffectAt(o)' = EffectAt(o)
  BY DEF Occurrences, EffectAt

(* A commit adds one place and disturbs none. *)
LEMMA OneMoreEffect ==
    ASSUME TypeOK, NEW t \in Callers, CommitEffect(t)
    PROVE  \E new :
             /\ Occurrences' = Occurrences \cup {new}
             /\ EffectAt(new)'.cap = call[t].cap
             /\ EffectAt(new)'.sink = call[t].sink
             /\ EffectAt(new)'.candidate_digest = DigestNow(call[t].cand)
             /\ EffectAt(new)'.at = clock
             /\ EffectAt(new)'.verified_at = call[t].now
             /\ EffectAt(new)'.reference
                  = Reference(ChannelOf[call[t].sink], DigestNow(call[t].cand))
             /\ new = <<ChannelOf[call[t].sink], Len(effects[ChannelOf[call[t].sink]]) + 1>>
             /\ \A o \in Occurrences : EffectAt(o)' = EffectAt(o) /\ o # new
  <1> DEFINE e == [cap |-> call[t].cap, sink |-> call[t].sink,
                   candidate_digest |-> DigestNow(call[t].cand), at |-> clock,
                   verified_at |-> call[t].now,
                   reference |-> Reference(ChannelOf[call[t].sink], DigestNow(call[t].cand))]
  <1>1. call[t] \in CallStates
    BY CallTypes DEF CommitEffect
  <1>2. PICK ch \in Channels :
            /\ ch = ChannelOf[call[t].sink]
            /\ effects[ch] \in Seq(EffectRecords)
            /\ effects' = [effects EXCEPT ![ch] = Append(@, e)]
    BY <1>1, SinkAssumption DEF CallStates, TypeOK, CommitEffect
  <1>3. PICK n \in Nat : n = Len(effects[ch]) + 1
    BY <1>2
  <1>4. effects'[ch] = Append(effects[ch], e)
    BY <1>2 DEF TypeOK
  <1>5. \A d \in Channels \ {ch} : effects'[d] = effects[d]
    BY <1>2 DEF TypeOK
  <1>6. /\ e.cap = call[t].cap /\ e.sink = call[t].sink
        /\ e.candidate_digest = DigestNow(call[t].cand) /\ e.at = clock
        /\ e.verified_at = call[t].now
        /\ e.reference = Reference(ChannelOf[call[t].sink], DigestNow(call[t].cand))
    OBVIOUS
  <1> HIDE DEF e
  <1> DEFINE new == <<ch, n>>
  <1>7. /\ Len(effects[ch]) \in Nat
        /\ DOMAIN effects[ch] = 1 .. Len(effects[ch])
        /\ DOMAIN effects'[ch] = 1 .. Len(effects[ch]) + 1
        /\ effects'[ch][n] = e
        /\ \A i \in DOMAIN effects[ch] : effects'[ch][i] = effects[ch][i]
    <2> DEFINE before == effects[ch]
               after == effects'[ch]
    <2>1. before \in Seq(EffectRecords) /\ after = Append(before, e) /\ n = Len(before) + 1
      BY <1>2, <1>3, <1>4
    <2> HIDE DEF before, after
    <2>2. Len(before) \in Nat /\ DOMAIN before = 1 .. Len(before)
      BY <2>1
    <2>3. DOMAIN after = 1 .. Len(before) + 1 /\ after[n] = e
      BY <2>1
    <2>4. \A i \in DOMAIN before : after[i] = before[i]
      BY <2>1
    <2> QED
      BY <2>2, <2>3, <2>4 DEF before, after
  <1>8. DOMAIN effects'[ch] = DOMAIN effects[ch] \cup {n} /\ n \notin DOMAIN effects[ch]
    BY <1>3, <1>7
  <1>9. Occurrences' = Occurrences \cup {new}
    <2>1. ASSUME NEW o \in Occurrences'
          PROVE  o \in Occurrences \cup {new}
      <3>1. PICK d \in Channels : o \in {d} \X DOMAIN effects'[d]
        BY DEF Occurrences
      <3>2. CASE d = ch
        <4>1. o = <<ch, o[2]>> /\ o[2] \in DOMAIN effects[ch] \cup {n}
          BY <3>1, <3>2, <1>8
        <4> QED
          BY <4>1, <1>2 DEF Occurrences
      <3>3. CASE d # ch
        BY <3>1, <3>3, <1>5 DEF Occurrences
      <3> QED
        BY <3>2, <3>3
    <2>2. ASSUME NEW o \in Occurrences
          PROVE  o \in Occurrences'
      <3>1. PICK d \in Channels : o \in {d} \X DOMAIN effects[d]
        BY DEF Occurrences
      <3>2. DOMAIN effects[d] \subseteq DOMAIN effects'[d]
        BY <1>5, <1>8
      <3> QED
        BY <3>1, <3>2 DEF Occurrences
    <2>3. new \in Occurrences'
      <3>1. new \in {ch} \X DOMAIN effects'[ch]
        BY <1>8
      <3> QED
        BY <3>1, <1>2 DEF Occurrences
    <2> QED
      BY <2>1, <2>2, <2>3
  <1>10. EffectAt(new)' = e
    BY <1>7 DEF EffectAt
  <1>11. ASSUME NEW o \in Occurrences
         PROVE  EffectAt(o)' = EffectAt(o) /\ o # new
    <2>1. PICK d \in Channels : o \in {d} \X DOMAIN effects[d]
      BY DEF Occurrences
    <2>2. o[1] = d /\ o[2] \in DOMAIN effects[d]
      BY <2>1
    <2>3. effects'[d][o[2]] = effects[d][o[2]]
      BY <2>2, <1>5, <1>7
    <2>4. o # new
      BY <2>2, <1>8
    <2> QED
      BY <2>2, <2>3, <2>4 DEF EffectAt
  <1> QED
    BY <1>2, <1>3, <1>6, <1>9, <1>10, <1>11

-----------------------------------------------------------------------------
(* Custody is inductive.  Its parts, for steps that leave claims, calls    *)
(* and effects alone and at most let time pass.                            *)
LEMMA CustodyInit == Init => Custody
  <1> SUFFICES ASSUME Init PROVE Custody
    OBVIOUS
  <1>1. Occurrences = {}
    BY DEF Init, SinkInit, Occurrences
  <1>2. \A t \in Callers : call[t].at = "idle"
    BY DEF Init, SinkInit, NoCall
  <1>3. \A a \in Authorizers : authCall[a].at = "idle"
    BY DEF Init, AuthorityInit, Idle
  <1>4. evidence = {}
    BY DEF Init, EvidenceInit
  <1> QED
    BY <1>1, <1>2, <1>3, <1>4
    DEF Custody, EvidenceIsRecent, PresentedAtHome, VerifiedIsVouched, EffectsClaimed,
        HeldAlone, OneEffectPerStore

LEMMA QuietStep ==
    ASSUME TypeOK, TypeOK', Custody, UNCHANGED <<claims, sinkVars, processVars>>,
           clock' = clock \/ clock' = clock + 1
    PROVE  /\ PresentedAtHome' /\ VerifiedIsVouched' /\ EffectsClaimed'
           /\ HeldAlone' /\ OneEffectPerStore'
  <1>1. /\ Occurrences' = Occurrences
        /\ \A o \in Occurrences : EffectAt(o)' = EffectAt(o)
    BY SameEffects DEF sinkVars
  <1>2. call' = call /\ claims' = claims /\ boot' = boot
    BY DEF sinkVars, processVars
  <1>3. boot \in Nat /\ clock \in Nat /\ clock' \in Nat /\ clock <= clock'
    BY DEF TypeOK, WorkloadTypeOK
  <1>4. PresentedAtHome'
    BY <1>1, <1>2 DEF Custody, PresentedAtHome, AtHome
  <1>5. VerifiedIsVouched'
    <2>1. ASSUME NEW t \in Callers, call[t].at \in {"transition", "claim", "commit"}
          PROVE  call[t].cap.evidence_id.committed_at \in boot .. clock'
      <3>1. call[t].cap.evidence_id.committed_at \in boot .. clock
        BY <2>1 DEF Custody, VerifiedIsVouched
      <3> QED
        BY <3>1, <1>3
    <2>2. ASSUME NEW o \in Occurrences
          PROVE  EffectAt(o).cap.evidence_id.committed_at <= clock'
      <3>1. EffectAt(o).cap.evidence_id.committed_at \in Nat
        BY OccurrenceTypes, CommittedAtTypes DEF EffectRecords
      <3>2. EffectAt(o).cap.evidence_id.committed_at <= clock
        BY DEF Custody, VerifiedIsVouched
      <3> QED
        BY <3>1, <3>2, <1>3
    <2> QED
      BY <1>1, <1>2, <2>1, <2>2 DEF VerifiedIsVouched
  <1>6. EffectsClaimed'
    BY <1>1, <1>2 DEF Custody, EffectsClaimed, Vouched, Claimed
  <1>7. HeldAlone'
    BY <1>1, <1>2 DEF Custody, HeldAlone, HoldsAt, HappenedAt, Claimed
  <1>8. OneEffectPerStore'
    BY <1>1 DEF Custody, OneEffectPerStore, HappenedAt
  <1> QED
    BY <1>4, <1>5, <1>6, <1>7, <1>8

(* A running authorizer read the clock in this process, and its evidence   *)
(* carries that reading.                                                   *)
LEMMA AuthorizeKeepsCustody ==
    ASSUME TypeOK, Custody, Authorize
    PROVE  Custody'
  <1>1. UNCHANGED <<workloadVars, claims, proofs, sinkVars, processVars>>
    BY DEF Authorize
  <1>2. clock' = clock /\ boot' = boot
    BY <1>1 DEF workloadVars, processVars
  <1>3. TypeOK'
    BY AuthorizeTyped
  <1>4. /\ PresentedAtHome' /\ VerifiedIsVouched' /\ EffectsClaimed'
        /\ HeldAlone' /\ OneEffectPerStore'
    BY <1>1, <1>2, <1>3, QuietStep
  <1>5. /\ \A e \in evidence : e.committed_at \in boot .. clock
        /\ \A a \in Authorizers : authCall[a].at # "idle" => authCall[a].now \in boot .. clock
    BY DEF Custody, EvidenceIsRecent
  <1>6. clock \in boot .. clock
    BY DEF TypeOK, WorkloadTypeOK
  <1>7. PICK a \in Authorizers :
            \/ \E c \in Candidates, cost \in Costs : BeginAuthorize(a, c, cost)
            \/ \E c \in Candidates : RefuseAuthorize(a, c)
            \/ AuthorizeStep(a)
    BY DEF Authorize, AuthorityNext
  <1>8. authCall \in [Authorizers -> AuthStates \cup {Idle}]
    BY DEF TypeOK
  <1>9. EvidenceIsRecent'
    <2>1. ASSUME NEW c \in Candidates, NEW cost \in Costs, BeginAuthorize(a, c, cost)
          PROVE  EvidenceIsRecent'
      BY <1>2, <1>5, <1>6, <1>8, <2>1 DEF BeginAuthorize, EvidenceIsRecent
    <2>2. ASSUME NEW c \in Candidates, RefuseAuthorize(a, c)
          PROVE  EvidenceIsRecent'
      BY <1>2, <1>5, <2>2 DEF RefuseAuthorize, authorityVars, EvidenceIsRecent
    <2>3. CASE ReserveTransition(a)
      BY <1>2, <1>5, <1>8, <2>3 DEF ReserveTransition, EvidenceIsRecent
    <2>4. CASE RefuseTransition(a) \/ FailEvidence(a)
      BY <1>2, <1>5, <1>8, <2>4
      DEF RefuseTransition, FailEvidence, CommitRaises, Return, Idle, EvidenceIsRecent
    <2>5. CASE CommitEvidence(a)
      <3>1. EvidenceCore(authCall[a]).committed_at = authCall[a].now
        BY DEF EvidenceCore
      <3>2. authCall[a].now \in boot .. clock
        BY <1>5, <2>5 DEF CommitEvidence
      <3> QED
        BY <1>2, <1>5, <1>8, <2>5, <3>1, <3>2
        DEF CommitEvidence, CommitRecord, EvidenceIsRecent
    <2>6. CASE IssueCapability(a)
      BY <1>2, <1>5, <1>8, <2>6 DEF IssueCapability, Return, Idle, EvidenceIsRecent
    <2> QED
      BY <1>7, <2>1, <2>2, <2>3, <2>4, <2>5, <2>6 DEF AuthorizeStep
  <1> QED
    BY <1>4, <1>9 DEF Custody

-----------------------------------------------------------------------------
(* The other parts of Custody, for a step that moves one call, may add     *)
(* claims and has no effect: what the moved call's new place demands of it *)
(* is all there is to show.                                                *)
LEMMA CallMoves ==
    ASSUME TypeOK, Custody, NEW t \in Callers, UNCHANGED <<effects, boot, clock>>,
           \A st \in Stores : claims[st] \subseteq claims'[st],
           \A u \in Callers \ {t} : call'[u] = call[u],
           call'[t].at # "idle" => AtHome(call'[t].cap, call'[t].sink),
           call'[t].at \in {"transition", "claim", "commit"} =>
               call'[t].cap.evidence_id.committed_at \in boot .. clock,
           call'[t].at = "commit" =>
               /\ call'[t].cap \in claims'[StoreOf[call'[t].sink]]
               /\ \A u \in Callers \ {t} : ~HoldsAt(u, call'[t].cap, StoreOf[call'[t].sink])
               /\ \A o \in Occurrences : ~HappenedAt(o, call'[t].cap, StoreOf[call'[t].sink])
    PROVE  /\ PresentedAtHome' /\ VerifiedIsVouched' /\ EffectsClaimed'
           /\ HeldAlone' /\ OneEffectPerStore'
  <1>1. /\ Occurrences' = Occurrences
        /\ \A o \in Occurrences : EffectAt(o)' = EffectAt(o)
    BY SameEffects
  <1>2. \A o \in Occurrences : StoreOf[EffectAt(o).sink] \in Stores
    BY OccurrenceTypes, SinkAssumption DEF EffectRecords
  <1>3. \A u \in Callers : call[u].at # "idle" => StoreOf[call[u].sink] \in Stores
    BY CallTypes, SinkAssumption DEF CallStates
  <1>4. PresentedAtHome'
    <2>1. \A u \in Callers : call'[u].at # "idle" => AtHome(call'[u].cap, call'[u].sink)
      BY DEF Custody, PresentedAtHome
    <2>2. \A o \in Occurrences : AtHome(EffectAt(o).cap, EffectAt(o).sink)
      BY DEF Custody, PresentedAtHome
    <2> QED
      BY <1>1, <2>1, <2>2 DEF PresentedAtHome, AtHome
  <1>5. VerifiedIsVouched'
    <2>1. \A u \in Callers : call'[u].at \in {"transition", "claim", "commit"} =>
              call'[u].cap.evidence_id.committed_at \in boot .. clock
      BY DEF Custody, VerifiedIsVouched
    <2>2. \A o \in Occurrences : EffectAt(o).cap.evidence_id.committed_at <= clock
      BY DEF Custody, VerifiedIsVouched
    <2> QED
      BY <1>1, <2>1, <2>2 DEF VerifiedIsVouched
  <1>6. EffectsClaimed'
    BY <1>1, <1>2 DEF Custody, EffectsClaimed, Vouched, Claimed
  <1>7. HeldAlone'
    <2>1. ASSUME NEW u \in Callers, call'[u].at = "commit"
          PROVE  /\ call'[u].cap \in claims'[StoreOf[call'[u].sink]]
                 /\ \A v \in Callers \ {u} :
                       ~(/\ call'[v].at = "commit" /\ call'[v].cap = call'[u].cap
                         /\ StoreOf[call'[v].sink] = StoreOf[call'[u].sink])
                 /\ \A o \in Occurrences :
                       ~HappenedAt(o, call'[u].cap, StoreOf[call'[u].sink])
      <3>1. CASE u = t
        BY <2>1, <3>1 DEF HoldsAt
      <3>2. CASE u # t
        <4>1. call'[u] = call[u] /\ call[u].at = "commit"
          BY <2>1, <3>2
        <4>2. /\ call[u].cap \in claims[StoreOf[call[u].sink]]
              /\ \A v \in Callers \ {u} : ~HoldsAt(v, call[u].cap, StoreOf[call[u].sink])
              /\ \A o \in Occurrences : ~HappenedAt(o, call[u].cap, StoreOf[call[u].sink])
          BY <4>1 DEF Custody, HeldAlone, Claimed
        <4>3. ASSUME NEW v \in Callers \ {u},
                     call'[v].at = "commit", call'[v].cap = call'[u].cap,
                     StoreOf[call'[v].sink] = StoreOf[call'[u].sink]
              PROVE  FALSE
          <5>1. CASE v = t
            BY <3>2, <4>1, <4>3, <5>1 DEF HoldsAt
          <5>2. CASE v # t
            BY <4>1, <4>2, <4>3, <5>2 DEF HoldsAt
          <5> QED
            BY <5>1, <5>2
        <4>4. StoreOf[call[u].sink] \in Stores
          BY <1>3, <4>1
        <4> QED
          BY <4>1, <4>2, <4>3, <4>4
      <3> QED
        BY <3>1, <3>2
    <2>2. \A o \in Occurrences : \A cap, st : HappenedAt(o, cap, st)' <=> HappenedAt(o, cap, st)
      BY <1>1 DEF HappenedAt
    <2> QED
      BY <1>1, <2>1, <2>2 DEF HeldAlone, HoldsAt, Claimed
  <1>8. OneEffectPerStore'
    BY <1>1 DEF Custody, OneEffectPerStore, HappenedAt
  <1> QED
    BY <1>4, <1>5, <1>6, <1>7, <1>8

(* A capability that is still unclaimed in the store of its sink, and      *)
(* vouched for, is in nobody else's hands there and had no effect there.   *)
LEMMA UnclaimedIsFree ==
    ASSUME TypeOK, Custody, NEW t \in Callers, call[t].at = "claim",
           ~Claimed(StoreOf[call[t].sink], call[t].cap)
    PROVE  /\ \A u \in Callers \ {t} : ~HoldsAt(u, call[t].cap, StoreOf[call[t].sink])
           /\ \A o \in Occurrences : ~HappenedAt(o, call[t].cap, StoreOf[call[t].sink])
  <1>1. call[t].cap.evidence_id.committed_at \in boot .. clock
    BY DEF Custody, VerifiedIsVouched
  <1>2. ASSUME NEW u \in Callers \ {t}, HoldsAt(u, call[t].cap, StoreOf[call[t].sink])
        PROVE  FALSE
    BY <1>2 DEF HoldsAt, Custody, HeldAlone
  <1>3. ASSUME NEW o \in Occurrences, HappenedAt(o, call[t].cap, StoreOf[call[t].sink])
        PROVE  FALSE
    <2>1. Vouched(EffectAt(o).cap)
      BY <1>1, <1>3 DEF HappenedAt, Vouched, TypeOK
    <2>2. Claimed(StoreOf[EffectAt(o).sink], EffectAt(o).cap)
      BY <2>1 DEF Custody, EffectsClaimed
    <2> QED
      BY <1>3, <2>2 DEF HappenedAt
  <1> QED
    BY <1>2, <1>3

(* The steps of effectuate that end the call or leave everything alone.    *)
LEMMA FinishKeepsCustody ==
    ASSUME TypeOK, Custody, NEW t \in Callers, Finish(t), UNCHANGED <<claims, effects, boot, clock>>
    PROVE  /\ PresentedAtHome' /\ VerifiedIsVouched' /\ EffectsClaimed'
           /\ HeldAlone' /\ OneEffectPerStore'
  <1>1. /\ call'[t].at = "idle"
        /\ \A u \in Callers \ {t} : call'[u] = call[u]
    BY DEF Finish, NoCall, TypeOK
  <1> QED
    BY <1>1, CallMoves

LEMMA BeginKeepsCustody ==
    ASSUME TypeOK, Custody, NEW t \in Callers, NEW s \in Sinks, NEW c \in Candidates,
           NEW cap \in issued, NEW proof, BeginEffectuate(t, s, c, cap, proof),
           UNCHANGED <<boot, clock>>
    PROVE  /\ PresentedAtHome' /\ VerifiedIsVouched' /\ EffectsClaimed'
           /\ HeldAlone' /\ OneEffectPerStore'
  <1>1. cap.sink_id = Context[s].sink_id /\ cap.boundary_id = Context[s].boundary_id
    <2>1. LocallyVerified(s, c, cap, proof, SinkClock(s))
      BY DEF BeginEffectuate
    <2>2. /\ {Act[c].sink_id, cap.sink_id} = {Context[s].sink_id}
          /\ {Act[c].boundary_id, cap.boundary_id} = {Context[s].boundary_id}
      BY <2>1 DEF LocallyVerified, BindingsMatch
    <2> QED
      BY <2>2
  <1>2. /\ call'[t].at = "evidence" /\ call'[t].cap = cap /\ call'[t].sink = s
        /\ \A u \in Callers \ {t} : call'[u] = call[u]
    BY DEF BeginEffectuate, TypeOK
  <1>3. UNCHANGED <<claims, effects>>
    BY DEF BeginEffectuate
  <1> QED
    BY <1>1, <1>2, <1>3, CallMoves DEF AtHome

(* The evidence a call finds was committed by this process.                *)
LEMMA VerifyKeepsCustody ==
    ASSUME TypeOK, Custody, NEW t \in Callers, VerifyEvidence(t) \/ VerifyTransition(t),
           UNCHANGED <<boot, clock>>
    PROVE  /\ PresentedAtHome' /\ VerifiedIsVouched' /\ EffectsClaimed'
           /\ HeldAlone' /\ OneEffectPerStore'
  <1>1. UNCHANGED <<claims, effects>> /\ call[t].at # "idle"
    BY DEF VerifyEvidence, VerifyTransition
  <1>2. call[t] \in CallStates /\ AtHome(call[t].cap, call[t].sink)
    BY <1>1, CallTypes DEF Custody, PresentedAtHome
  <1>3. CASE Finish(t)
    BY <1>1, <1>3, FinishKeepsCustody
  <1>4. ASSUME NEW step \in {"transition", "claim"}, Advance(t, step),
               call[t].cap.evidence_id.committed_at \in boot .. clock
        PROVE  /\ PresentedAtHome' /\ VerifiedIsVouched' /\ EffectsClaimed'
               /\ HeldAlone' /\ OneEffectPerStore'
    <2>1. /\ call'[t].at = step /\ call'[t].cap = call[t].cap /\ call'[t].sink = call[t].sink
          /\ \A u \in Callers \ {t} : call'[u] = call[u]
      BY <1>2, <1>4 DEF Advance, TypeOK, CallStates
    <2> QED
      BY <1>1, <1>2, <1>4, <2>1, CallMoves DEF AtHome
  <1>5. CASE VerifyEvidence(t)
    <2>1. ASSUME EvidenceVerified(call[t].cap, LocalDescriptor(call[t]))
          PROVE  call[t].cap.evidence_id.committed_at \in boot .. clock
      BY <2>1 DEF EvidenceVerified, Committed, Custody, EvidenceIsRecent
    <2> QED
      BY <1>3, <1>4, <1>5, <2>1 DEF VerifyEvidence
  <1>6. CASE VerifyTransition(t)
    <2>1. call[t].cap.evidence_id.committed_at \in boot .. clock
      BY <1>6 DEF VerifyTransition, Custody, VerifiedIsVouched
    <2> QED
      BY <1>3, <1>4, <1>6, <2>1 DEF VerifyTransition
  <1> QED
    BY <1>5, <1>6

LEMMA ClaimKeepsCustody ==
    ASSUME TypeOK, Custody, NEW t \in Callers, ClaimCapability(t), UNCHANGED <<boot, clock>>
    PROVE  /\ PresentedAtHome' /\ VerifiedIsVouched' /\ EffectsClaimed'
           /\ HeldAlone' /\ OneEffectPerStore'
  <1>1. /\ call[t].at = "claim" /\ UNCHANGED effects
        /\ Claim(StoreOf[call[t].sink], call[t].cap) /\ Advance(t, "commit")
    BY DEF ClaimCapability
  <1>2. /\ call[t] \in CallStates /\ AtHome(call[t].cap, call[t].sink)
        /\ call[t].cap.evidence_id.committed_at \in boot .. clock
    BY <1>1, CallTypes DEF Custody, PresentedAtHome, VerifiedIsVouched
  <1>3. /\ call'[t].at = "commit" /\ call'[t].cap = call[t].cap
        /\ call'[t].sink = call[t].sink
        /\ \A u \in Callers \ {t} : call'[u] = call[u]
    BY <1>1, <1>2 DEF Advance, TypeOK, CallStates
  <1>4. /\ \A st \in Stores : claims[st] \subseteq claims'[st]
        /\ call[t].cap \in claims'[StoreOf[call[t].sink]]
    <2>1. StoreOf[call[t].sink] \in Stores
      BY <1>2, SinkAssumption DEF CallStates
    <2> QED
      BY <1>1, <2>1 DEF Claim, TypeOK
  <1>5. /\ \A u \in Callers \ {t} : ~HoldsAt(u, call[t].cap, StoreOf[call[t].sink])
        /\ \A o \in Occurrences : ~HappenedAt(o, call[t].cap, StoreOf[call[t].sink])
    BY <1>1, UnclaimedIsFree DEF Claim
  <1> QED
    BY <1>1, <1>2, <1>3, <1>4, <1>5, CallMoves DEF AtHome

LEMMA ReceiptKeepsCustody ==
    ASSUME TypeOK, Custody, NEW t \in Callers, IssueReceipt(t) \/ FailReceipt(t) \/ FailEffect(t)
                                                  \/ RefuseClaim(t),
           UNCHANGED <<boot, clock>>
    PROVE  /\ PresentedAtHome' /\ VerifiedIsVouched' /\ EffectsClaimed'
           /\ HeldAlone' /\ OneEffectPerStore'
  <1>1. Finish(t) /\ UNCHANGED <<claims, effects>>
    BY DEF IssueReceipt, FailReceipt, FailEffect, RefuseClaim, ClaimRaises
  <1> QED
    BY <1>1, FinishKeepsCustody

(* The effect itself: its capability was in this call's hands alone.       *)
LEMMA CommitKeepsCustody ==
    ASSUME TypeOK, Custody, NEW t \in Callers, CommitEffect(t), UNCHANGED <<boot, clock>>
    PROVE  /\ PresentedAtHome' /\ VerifiedIsVouched' /\ EffectsClaimed'
           /\ HeldAlone' /\ OneEffectPerStore'
  <1>1. PICK new :
           /\ Occurrences' = Occurrences \cup {new}
           /\ EffectAt(new)'.cap = call[t].cap
           /\ EffectAt(new)'.sink = call[t].sink
           /\ \A o \in Occurrences : EffectAt(o)' = EffectAt(o) /\ o # new
    BY OneMoreEffect
  <1>2. call[t].at = "commit" /\ call[t] \in CallStates /\ UNCHANGED claims
    BY CallTypes DEF CommitEffect
  <1>3. /\ call'[t].at = "receipt" /\ call'[t].cap = call[t].cap
        /\ call'[t].sink = call[t].sink
        /\ \A u \in Callers \ {t} : call'[u] = call[u]
    BY <1>2 DEF CommitEffect, TypeOK, CallStates
  <1>4. /\ AtHome(call[t].cap, call[t].sink)
        /\ call[t].cap.evidence_id.committed_at \in boot .. clock
        /\ Claimed(StoreOf[call[t].sink], call[t].cap)
        /\ \A u \in Callers \ {t} : ~HoldsAt(u, call[t].cap, StoreOf[call[t].sink])
        /\ \A o \in Occurrences : ~HappenedAt(o, call[t].cap, StoreOf[call[t].sink])
    BY <1>2 DEF Custody, PresentedAtHome, VerifiedIsVouched, HeldAlone
  <1>5. PresentedAtHome'
    <2>1. \A u \in Callers : call'[u].at # "idle" => AtHome(call'[u].cap, call'[u].sink)
      BY <1>2, <1>3 DEF Custody, PresentedAtHome
    <2>2. \A o \in Occurrences : AtHome(EffectAt(o).cap, EffectAt(o).sink)
      BY DEF Custody, PresentedAtHome
    <2> QED
      BY <1>1, <1>4, <2>1, <2>2 DEF PresentedAtHome, AtHome
  <1>6. VerifiedIsVouched'
    <2>1. \A u \in Callers : call'[u].at \in {"transition", "claim", "commit"} =>
              call'[u].cap.evidence_id.committed_at \in boot .. clock
      BY <1>3 DEF Custody, VerifiedIsVouched
    <2>2. \A o \in Occurrences : EffectAt(o).cap.evidence_id.committed_at <= clock
      BY DEF Custody, VerifiedIsVouched
    <2>3. call[t].cap.evidence_id.committed_at <= clock
      BY <1>2, <1>4, CommittedAtTypes DEF CallStates, TypeOK, WorkloadTypeOK
    <2> QED
      BY <1>1, <2>1, <2>2, <2>3 DEF VerifiedIsVouched
  <1>7. EffectsClaimed'
    BY <1>1, <1>2, <1>4 DEF Custody, EffectsClaimed, Vouched, Claimed
  <1>8. HeldAlone'
    <2>1. ASSUME NEW u \in Callers, call'[u].at = "commit"
          PROVE  /\ call'[u].cap \in claims[StoreOf[call'[u].sink]]
                 /\ \A v \in Callers \ {u} :
                       ~(/\ call'[v].at = "commit" /\ call'[v].cap = call'[u].cap
                         /\ StoreOf[call'[v].sink] = StoreOf[call'[u].sink])
                 /\ \A o \in Occurrences :
                       ~HappenedAt(o, call'[u].cap, StoreOf[call'[u].sink])
                 /\ ~(/\ call'[u].cap = call[t].cap
                      /\ StoreOf[call'[u].sink] = StoreOf[call[t].sink])
      <3>1. u # t /\ call'[u] = call[u] /\ call[u].at = "commit"
        BY <1>3, <2>1
      <3>2. /\ call[u].cap \in claims[StoreOf[call[u].sink]]
            /\ \A v \in Callers \ {u} : ~HoldsAt(v, call[u].cap, StoreOf[call[u].sink])
            /\ \A o \in Occurrences : ~HappenedAt(o, call[u].cap, StoreOf[call[u].sink])
        BY <3>1 DEF Custody, HeldAlone, Claimed
      <3> QED
        BY <1>2, <1>3, <3>1, <3>2 DEF HoldsAt
    <2>2. \A o \in Occurrences' : \A cap, st :
              HappenedAt(o, cap, st)' =>
                 \/ o \in Occurrences /\ HappenedAt(o, cap, st)
                 \/ cap = call[t].cap /\ st = StoreOf[call[t].sink]
      BY <1>1 DEF HappenedAt
    <2> QED
      BY <1>2, <2>1, <2>2 DEF HeldAlone, HoldsAt, Claimed
  <1>9. OneEffectPerStore'
    <2>1. \A o1, o2 \in Occurrences :
              HappenedAt(o1, EffectAt(o2).cap, StoreOf[EffectAt(o2).sink]) => o1 = o2
      BY DEF Custody, OneEffectPerStore
    <2> QED
      BY <1>1, <1>4, <2>1 DEF OneEffectPerStore, HappenedAt
  <1> QED
    BY <1>5, <1>6, <1>7, <1>8, <1>9

LEMMA EffectuateKeepsCustody ==
    ASSUME TypeOK, Custody, Effectuate
    PROVE  Custody'
  <1>1. UNCHANGED <<evidence, authCall, boot, clock>>
    BY DEF Effectuate, workloadVars, authorityVars, processVars
  <1>2. PICK t \in Callers : Present(t) \/ EffectuateStep(t)
    BY DEF Effectuate
  <1>3. EvidenceIsRecent'
    BY <1>1 DEF Custody, EvidenceIsRecent
  <1>4. /\ PresentedAtHome' /\ VerifiedIsVouched' /\ EffectsClaimed'
        /\ HeldAlone' /\ OneEffectPerStore'
    <2>1. CASE Present(t)
      <3>1. PICK s \in Sinks, c \in Candidates, cap \in issued, proof \in proofs \cup {Absent} :
                \/ BeginEffectuate(t, s, c, cap, proof)
                \/ RefuseEffectuate(t, s, c, cap, proof)
        BY <2>1 DEF Present
      <3>2. CASE RefuseEffectuate(t, s, c, cap, proof)
        <4>1. UNCHANGED <<claims, sinkVars, processVars>> /\ TypeOK'
          BY <3>2, EffectuateTyped DEF RefuseEffectuate, Effectuate
        <4> QED
          BY <1>1, <4>1, QuietStep
      <3> QED
        BY <1>1, <3>1, <3>2, BeginKeepsCustody
    <2>2. CASE EffectuateStep(t)
      BY <1>1, <2>2, VerifyKeepsCustody, ClaimKeepsCustody, CommitKeepsCustody,
         ReceiptKeepsCustody DEF EffectuateStep
    <2> QED
      BY <1>2, <2>1, <2>2
  <1> QED
    BY <1>3, <1>4 DEF Custody

(* A restart voids every capability: what was committed before it lies     *)
(* before the new boot.                                                    *)
LEMMA RestartKeepsCustody ==
    ASSUME TypeOK, Custody, Restart
    PROVE  Custody'
  <1>1. /\ Occurrences' = Occurrences
        /\ \A o \in Occurrences : EffectAt(o)' = EffectAt(o)
    BY SameEffects DEF Restart
  <1>2. /\ \A t \in Callers : call'[t].at = "idle"
        /\ \A a \in Authorizers : authCall'[a].at = "idle"
        /\ evidence' = {}
        /\ clock' = clock + 1 /\ boot' = clock + 1
    BY DEF Restart, NoCall, Idle, EvidenceLost, Tick
  <1>3. ASSUME NEW o \in Occurrences
        PROVE  EffectAt(o).cap.evidence_id.committed_at < clock + 1
    <2>1. EffectAt(o).cap.evidence_id.committed_at \in Nat
      BY OccurrenceTypes, CommittedAtTypes DEF EffectRecords
    <2>2. EffectAt(o).cap.evidence_id.committed_at <= clock
      BY DEF Custody, VerifiedIsVouched
    <2> QED
      BY <2>1, <2>2 DEF TypeOK, WorkloadTypeOK
  <1>4. clock \in Nat /\ \A o \in Occurrences : EffectAt(o).cap.evidence_id.committed_at \in Nat
    BY OccurrenceTypes, CommittedAtTypes DEF EffectRecords, TypeOK, WorkloadTypeOK
  <1>5. EvidenceIsRecent'
    BY <1>2 DEF EvidenceIsRecent
  <1>6. PresentedAtHome'
    BY <1>1, <1>2 DEF Custody, PresentedAtHome, AtHome
  <1>7. VerifiedIsVouched'
    BY <1>1, <1>2, <1>3, <1>4 DEF VerifiedIsVouched
  <1>8. EffectsClaimed'
    BY <1>1, <1>2, <1>3, <1>4 DEF EffectsClaimed, Vouched
  <1>9. HeldAlone'
    BY <1>2 DEF HeldAlone
  <1>10. OneEffectPerStore'
    BY <1>1 DEF Custody, OneEffectPerStore, HappenedAt
  <1> QED
    BY <1>5, <1>6, <1>7, <1>8, <1>9, <1>10 DEF Custody

LEMMA NextKeepsCustody == TypeOK /\ Custody /\ [Next]_vars => Custody'
  <1> SUFFICES ASSUME TypeOK, Custody, [Next]_vars PROVE Custody'
    OBVIOUS
  <1>1. TypeOK'
    BY NextTyped
  <1>2. ASSUME UNCHANGED <<evidence, authorityVars, claims, sinkVars, processVars>>,
               clock' = clock \/ clock' = clock + 1
        PROVE  Custody'
    <2>1. EvidenceIsRecent'
      BY <1>2 DEF authorityVars, processVars, Custody, EvidenceIsRecent, TypeOK, WorkloadTypeOK
    <2> QED
      BY <1>1, <1>2, <2>1, QuietStep DEF Custody
  <1>3. CASE Authorize
    BY <1>3, AuthorizeKeepsCustody
  <1>4. CASE Effectuate
    BY <1>4, EffectuateKeepsCustody
  <1>5. CASE MakeProof \/ Reconfigure \/ UNCHANGED vars
    BY <1>2, <1>5 DEF MakeProof, Reconfigure, vars, workloadVars
  <1>6. CASE Environment
    BY <1>2, <1>6 DEF Environment, Tick, MutatePayload
  <1>7. CASE Restart
    BY <1>7, RestartKeepsCustody
  <1> QED
    BY <1>3, <1>4, <1>5, <1>6, <1>7 DEF Next

(* The whole inductive invariant of single use holds in every reachable    *)
(* state (sink.py:138-158, state.py:122-126).                              *)
THEOREM CustodyCorrect == Spec => []Custody
  <1>1. Init => TypeOK /\ Custody
    BY InitTyped, CustodyInit
  <1>2. TypeOK /\ Custody /\ [Next]_vars => (TypeOK /\ Custody)'
    BY NextTyped, NextKeepsCustody
  <1> QED
    BY <1>1, <1>2, PTL DEF Spec

(* What is left of single use when sinks of one identity have stores of    *)
(* their own: one effect of a capability for each store                    *)
(* (sink.py:142-153).                                                      *)
THEOREM OneEffectPerStoreCorrect == Spec => []OneEffectPerStore
  <1>1. Custody => OneEffectPerStore
    BY DEF Custody
  <1> QED
    BY <1>1, CustodyCorrect, PTL

(* Single use: where sinks of one identity share a store, no capability    *)
(* ever has two effects, for any number of threads, sinks and stores, any  *)
(* clock skew and any number of restarts (sink.py:140-153,                 *)
(* state.py:122-126).  All its effects happened at sinks of the identity   *)
(* it names, and these have one store.                                     *)
THEOREM AtMostOneEffectCorrect ==
    ASSUME SharedStores
    PROVE  Spec => []AtMostOneEffect
  <1>1. TypeOK /\ Custody => AtMostOneEffect
    <2> SUFFICES ASSUME TypeOK, Custody,
                        NEW o1 \in Occurrences, NEW o2 \in Occurrences,
                        EffectAt(o1).cap = EffectAt(o2).cap
                 PROVE  o1 = o2
      BY DEF AtMostOneEffect
    <2>1. /\ EffectAt(o1).sink \in Sinks /\ AtHome(EffectAt(o1).cap, EffectAt(o1).sink)
          /\ EffectAt(o2).sink \in Sinks /\ AtHome(EffectAt(o2).cap, EffectAt(o2).sink)
      BY OccurrenceTypes DEF EffectRecords, Custody, PresentedAtHome
    <2>2. StoreOf[EffectAt(o1).sink] = StoreOf[EffectAt(o2).sink]
      BY <2>1 DEF SharedStores, AtHome
    <2> QED
      BY <2>2 DEF Custody, OneEffectPerStore, HappenedAt
  <1> QED
    BY <1>1, TypeCorrect, CustodyCorrect, PTL

-----------------------------------------------------------------------------
(***************************************************************************)
(* Where a capability comes from: for any number of authorizers, callers,  *)
(* sinks, stores and restarts, a nonce of the running process has paid for *)
(* one transition, the transition for one capability, and the capability   *)
(* rests on evidence that is on record; every effect of the process rests  *)
(* on such a capability.  No lock spans the authority's reserve, commit    *)
(* and issue (authority.py:48-112), so what an authorizer holds between    *)
(* them is part of the invariant.                                          *)
(***************************************************************************)
Reserved(a) == authCall[a].at \in {"commit", "issue"}

Recent(cap) == cap.issued_at >= boot

(* A transition that an authorizer still has to turn into a capability is  *)
(* recorded, is for the nonce of the candidate, is no other authorizer's,  *)
(* and no capability of this process stands on it yet.                     *)
ReservationsHeld ==
    \A a \in Authorizers : Reserved(a) =>
        /\ authCall[a].transition \in transitions
        /\ authCall[a].transition.nonce = Act[authCall[a].cand].nonce
        /\ \A b \in Authorizers \ {a} :
              Reserved(b) => authCall[b].transition # authCall[a].transition
        /\ \A cap \in issued : Recent(cap) => cap.transition_id # authCall[a].transition

(* The evidence an authorizer is about to name is on record.               *)
EvidenceInHand ==
    \A a \in Authorizers : authCall[a].at = "issue" =>
        /\ Committed(authCall[a].evidence)
        /\ authCall[a].evidence.committed_at = authCall[a].now

(* A capability is as old as its evidence, and one of this process has its *)
(* evidence and its transition on record.                                  *)
CapabilitiesBacked ==
    \A cap \in issued :
        /\ cap.evidence_id.committed_at = cap.issued_at
        /\ cap.issued_at <= clock
        /\ Recent(cap) => /\ Committed(cap.evidence_id)
                          /\ cap.transition_id \in transitions
                          /\ cap.transition_id.nonce = cap.nonce

OneCapabilityPerTransition ==
    \A cap1, cap2 \in issued :
        /\ Recent(cap1) /\ Recent(cap2)
        /\ cap1.transition_id = cap2.transition_id
        => cap1 = cap2

(* Only capabilities that were issued are presented and take effect, and   *)
(* an effect of this process is of a capability of this process.           *)
OnlyIssuedUsed ==
    /\ \A t \in Callers : call[t].at # "idle" => call[t].cap \in issued
    /\ \A o \in Occurrences :
          /\ EffectAt(o).cap \in issued
          /\ EffectAt(o).at <= clock
          /\ EffectAt(o).at >= boot => Recent(EffectAt(o).cap)

Issuance ==
    /\ NonceSpentOnce
    /\ ReservationsHeld
    /\ EvidenceInHand
    /\ CapabilitiesBacked
    /\ OneCapabilityPerTransition

Provenance == Issuance /\ OnlyIssuedUsed

-----------------------------------------------------------------------------
(* What one authorize step does to the authorizer that takes it.           *)
LEMMA NonceFacts ==
    ASSUME StateTypeOK, NonceSpentOnce
    PROVE  /\ \A t \in transitions : nonces[t.nonce] = t
           /\ \A n \in Nonces : nonces[n] # Absent =>
                 nonces[n] \in transitions /\ nonces[n].nonce = n
  <1>1. \A t \in transitions : t.nonce \in Nonces
    BY DEF StateTypeOK, TransitionIds
  <1> QED
    BY <1>1 DEF NonceSpentOnce

LEMMA ReserveFacts ==
    ASSUME TypeOK, NonceSpentOnce, NEW a \in Authorizers, ReserveTransition(a)
    PROVE  \E t \in TransitionIds :
             /\ t \notin transitions
             /\ t.nonce = Act[authCall[a].cand].nonce
             /\ transitions' = transitions \cup {t}
             /\ NonceSpentOnce'
             /\ authCall'[a].at = "commit"
             /\ authCall'[a].cand = authCall[a].cand
             /\ authCall'[a].transition = t
             /\ \A b \in Authorizers \ {a} : authCall'[b] = authCall[b]
  <1> DEFINE k == authCall[a]
             d == DigestNow(k.cand)
             t == TransitionCore(k.cand, k.cost, d)
  <1>1. k.at = "reserve" /\ TransitionForAuthorization(k.cand, k.cost, d)
    BY DEF ReserveTransition
  <1>2. k.cand \in Candidates /\ k.cost \in Costs /\ d \in Digests
    BY <1>1, AuthCallTypes, DigestType
  <1>3. /\ t \in TransitionIds /\ nonces[t.nonce] = Absent
        /\ transitions' = transitions \cup {t}
    BY <1>1, <1>2, GrantFacts DEF TypeOK
  <1>4. NonceSpentOnce'
    BY <1>1, <1>2, GrantKeepsNonces DEF TypeOK
  <1>5. t.nonce = Act[k.cand].nonce
    BY DEF TransitionCore
  <1>6. t \notin transitions
    BY <1>3, NonceFacts, AbsentAssumption DEF TypeOK
  <1>7. authCall' = [authCall EXCEPT ![a] =
           [at |-> "commit", cand |-> k.cand, now |-> k.now, descriptor |-> k.descriptor,
            transition |-> t]]
    BY DEF ReserveTransition
  <1> HIDE DEF t, d
  <1> QED
    BY <1>3, <1>4, <1>5, <1>6, <1>7 DEF TypeOK

LEMMA CommitFacts ==
    ASSUME TypeOK, NEW a \in Authorizers, CommitEvidence(a)
    PROVE  /\ authCall[a].at = "commit" /\ authCall'[a].at = "issue"
           /\ authCall'[a].cand = authCall[a].cand
           /\ authCall'[a].now = authCall[a].now
           /\ authCall'[a].descriptor = authCall[a].descriptor
           /\ authCall'[a].transition = authCall[a].transition
           /\ authCall'[a].evidence = EvidenceCore(authCall[a])
           /\ evidence' = evidence \cup {EvidenceCore(authCall[a])}
           /\ \A b \in Authorizers \ {a} : authCall'[b] = authCall[b]
           /\ UNCHANGED <<stateVars, issued>>
  <1> DEFINE e == EvidenceCore(authCall[a])
  <1>1. /\ authCall[a].at = "commit"
        /\ evidence' = evidence \cup {e}
        /\ authCall' = [authCall EXCEPT ![a] =
             [at |-> "issue", cand |-> authCall[a].cand, now |-> authCall[a].now,
              descriptor |-> authCall[a].descriptor, transition |-> authCall[a].transition,
              evidence |-> e]]
        /\ UNCHANGED <<stateVars, issued>>
    BY DEF CommitEvidence, CommitRecord
  <1> HIDE DEF e
  <1>2. /\ authCall'[a].at = "issue" /\ authCall'[a].cand = authCall[a].cand
        /\ authCall'[a].now = authCall[a].now
        /\ authCall'[a].descriptor = authCall[a].descriptor
        /\ authCall'[a].transition = authCall[a].transition
        /\ authCall'[a].evidence = e
        /\ \A b \in Authorizers \ {a} : authCall'[b] = authCall[b]
    BY <1>1 DEF TypeOK
  <1> QED
    BY <1>1, <1>2 DEF e

LEMMA IssueFacts ==
    ASSUME TypeOK, NEW a \in Authorizers, IssueCapability(a)
    PROVE  /\ authCall[a].at = "issue" /\ authCall'[a].at = "idle"
           /\ issued' = issued \cup {CapabilityCore(authCall[a])}
           /\ \A b \in Authorizers \ {a} : authCall'[b] = authCall[b]
           /\ UNCHANGED <<stateVars, evidence>>
  BY DEF IssueCapability, Return, Idle, TypeOK

(* Authorize calls that end early let go of what they held. *)
LEMMA ReturnFacts ==
    ASSUME TypeOK, NEW a \in Authorizers, RefuseTransition(a) \/ FailEvidence(a)
    PROVE  /\ authCall'[a].at = "idle"
           /\ \A b \in Authorizers \ {a} : authCall'[b] = authCall[b]
           /\ UNCHANGED <<stateVars, evidence, issued>>
  BY DEF RefuseTransition, FailEvidence, CommitRaises, Return, Idle, TypeOK

LEMMA BeginFacts ==
    ASSUME TypeOK, NEW a \in Authorizers, NEW c \in Candidates, NEW cost \in Costs,
           BeginAuthorize(a, c, cost)
    PROVE  /\ Allowed(c, clock)
           /\ authCall'[a].at = "reserve" /\ authCall'[a].cand = c
           /\ authCall'[a].now = clock
           /\ authCall'[a].descriptor
                = Hcad(c, payload[c], Act[c].sink_id, Act[c].boundary_id)
           /\ \A b \in Authorizers \ {a} : authCall'[b] = authCall[b]
           /\ UNCHANGED <<stateVars, evidence, issued>>
  <1> DEFINE d == Hcad(c, payload[c], Act[c].sink_id, Act[c].boundary_id)
  <1>1. /\ Allowed(c, clock) /\ UNCHANGED <<stateVars, evidence, issued>>
        /\ authCall' = [authCall EXCEPT ![a] =
             [at |-> "reserve", cand |-> c, cost |-> cost, now |-> clock, descriptor |-> d]]
    BY DEF BeginAuthorize
  <1> HIDE DEF d
  <1>2. /\ authCall'[a].at = "reserve" /\ authCall'[a].cand = c
        /\ authCall'[a].now = clock /\ authCall'[a].descriptor = d
        /\ \A b \in Authorizers \ {a} : authCall'[b] = authCall[b]
    BY <1>1 DEF TypeOK
  <1> QED
    BY <1>1, <1>2 DEF d

-----------------------------------------------------------------------------
(* Issuance is inductive.  Steps that leave the authority's state alone and *)
(* at most let time pass keep it.                                          *)
LEMMA IssuanceIdle ==
    ASSUME TypeOK, TypeOK', Issuance,
           UNCHANGED <<nonces, transitions, evidence, authorityVars, boot>>,
           clock' = clock \/ clock' = clock + 1
    PROVE  Issuance'
  <1>1. /\ authCall' = authCall /\ issued' = issued /\ evidence' = evidence
        /\ nonces' = nonces /\ transitions' = transitions /\ boot' = boot
    BY DEF authorityVars
  <1>2. \A cap \in issued : cap.issued_at <= clock'
    <2>1. clock \in Nat /\ \A cap \in issued : cap.issued_at \in Nat
      BY DEF TypeOK, WorkloadTypeOK, Capabilities
    <2>2. \A cap \in issued : cap.issued_at <= clock
      BY DEF Issuance, CapabilitiesBacked
    <2> QED
      BY <2>1, <2>2
  <1>3. NonceSpentOnce' /\ ReservationsHeld' /\ EvidenceInHand' /\ OneCapabilityPerTransition'
    BY <1>1 DEF Issuance, NonceSpentOnce, ReservationsHeld, EvidenceInHand, Committed,
                OneCapabilityPerTransition, Recent, Reserved
  <1>4. CapabilitiesBacked'
    BY <1>1, <1>2 DEF Issuance, CapabilitiesBacked, Recent, Committed
  <1> QED
    BY <1>3, <1>4 DEF Issuance

LEMMA ReserveKeepsIssuance ==
    ASSUME TypeOK, Issuance, NEW a \in Authorizers, ReserveTransition(a),
           UNCHANGED <<boot, clock>>
    PROVE  Issuance'
  <1>1. /\ NonceSpentOnce /\ ReservationsHeld /\ EvidenceInHand
        /\ CapabilitiesBacked /\ OneCapabilityPerTransition
    BY DEF Issuance
  <1>2. PICK t \in TransitionIds :
             /\ t \notin transitions
             /\ t.nonce = Act[authCall[a].cand].nonce
             /\ transitions' = transitions \cup {t}
             /\ NonceSpentOnce'
             /\ authCall'[a].at = "commit"
             /\ authCall'[a].cand = authCall[a].cand
             /\ authCall'[a].transition = t
             /\ \A b \in Authorizers \ {a} : authCall'[b] = authCall[b]
    BY <1>1, ReserveFacts
  <1>3. UNCHANGED <<evidence, issued>>
    BY DEF ReserveTransition
  <1>4. ReservationsHeld'
    <2>1. ASSUME NEW b \in Authorizers \ {a}, authCall[b].at \in {"commit", "issue"}
          PROVE  authCall[b].transition \in transitions
      BY <1>1, <2>1 DEF ReservationsHeld, Reserved
    <2>2. \A cap \in issued : cap.issued_at >= boot => cap.transition_id \in transitions
      BY <1>1 DEF CapabilitiesBacked, Recent
    <2>3. ASSUME NEW b \in Authorizers, authCall'[b].at \in {"commit", "issue"}
          PROVE  /\ authCall'[b].transition \in transitions'
                 /\ authCall'[b].transition.nonce = Act[authCall'[b].cand].nonce
                 /\ \A e \in Authorizers \ {b} : authCall'[e].at \in {"commit", "issue"} =>
                       authCall'[e].transition # authCall'[b].transition
                 /\ \A cap \in issued : cap.issued_at >= boot =>
                       cap.transition_id # authCall'[b].transition
      <3>1. CASE b = a
        BY <1>2, <2>1, <2>2, <3>1
      <3>2. CASE b # a
        <4>1. authCall'[b] = authCall[b]
          BY <1>2, <3>2
        <4>2. /\ authCall[b].transition \in transitions
              /\ authCall[b].transition.nonce = Act[authCall[b].cand].nonce
              /\ \A e \in Authorizers \ {b} : authCall[e].at \in {"commit", "issue"} =>
                    authCall[e].transition # authCall[b].transition
              /\ \A cap \in issued : cap.issued_at >= boot =>
                    cap.transition_id # authCall[b].transition
          BY <1>1, <2>3, <4>1 DEF ReservationsHeld, Reserved, Recent
        <4>3. ASSUME NEW e \in Authorizers \ {b}, authCall'[e].at \in {"commit", "issue"}
              PROVE  authCall'[e].transition # authCall'[b].transition
          <5>1. CASE e = a
            BY <1>2, <4>1, <4>2, <5>1
          <5>2. CASE e # a
            BY <1>2, <4>1, <4>2, <4>3, <5>2
          <5> QED
            BY <5>1, <5>2
        <4> QED
          BY <1>2, <4>1, <4>2, <4>3
      <3> QED
        BY <3>1, <3>2
    <2> QED
      BY <1>3, <2>3 DEF ReservationsHeld, Reserved, Recent
  <1>5. EvidenceInHand'
    BY <1>1, <1>2, <1>3 DEF EvidenceInHand, Committed
  <1>6. CapabilitiesBacked' /\ OneCapabilityPerTransition'
    BY <1>1, <1>2, <1>3 DEF CapabilitiesBacked, OneCapabilityPerTransition, Recent, Committed
  <1> QED
    BY <1>2, <1>4, <1>5, <1>6 DEF Issuance

(* The authorizer that commits evidence keeps its reservation. *)
LEMMA CommitKeepsIssuance ==
    ASSUME TypeOK, Issuance, NEW a \in Authorizers, CommitEvidence(a),
           UNCHANGED <<boot, clock>>
    PROVE  Issuance'
  <1>1. /\ NonceSpentOnce /\ ReservationsHeld /\ EvidenceInHand
        /\ CapabilitiesBacked /\ OneCapabilityPerTransition
    BY DEF Issuance
  <1>2. /\ authCall[a].at = "commit" /\ authCall'[a].at = "issue"
        /\ authCall'[a].cand = authCall[a].cand
        /\ authCall'[a].now = authCall[a].now
        /\ authCall'[a].transition = authCall[a].transition
        /\ authCall'[a].evidence = EvidenceCore(authCall[a])
        /\ evidence' = evidence \cup {EvidenceCore(authCall[a])}
        /\ \A b \in Authorizers \ {a} : authCall'[b] = authCall[b]
        /\ UNCHANGED <<nonces, transitions, issued>>
    BY CommitFacts DEF stateVars
  <1>3. EvidenceCore(authCall[a]).committed_at = authCall[a].now
    BY DEF EvidenceCore
  <1>4. /\ \A b \in Authorizers : Reserved(b)' <=> Reserved(b)
        /\ \A b \in Authorizers : Reserved(b) =>
              /\ authCall'[b].transition = authCall[b].transition
              /\ authCall'[b].cand = authCall[b].cand
    BY <1>2 DEF Reserved
  <1>5. ReservationsHeld'
    BY <1>1, <1>2, <1>4 DEF ReservationsHeld, Recent
  <1>6. EvidenceInHand'
    BY <1>1, <1>2, <1>3 DEF EvidenceInHand, Committed
  <1>7. NonceSpentOnce' /\ CapabilitiesBacked' /\ OneCapabilityPerTransition'
    BY <1>1, <1>2
    DEF NonceSpentOnce, CapabilitiesBacked, OneCapabilityPerTransition, Recent, Committed
  <1> QED
    BY <1>5, <1>6, <1>7 DEF Issuance

(* Letting go of a reservation, or not having one yet, disturbs nothing. *)
LEMMA LetGoKeepsIssuance ==
    ASSUME TypeOK, Issuance, NEW a \in Authorizers,
           authCall'[a].at \in {"idle", "reserve"},
           \A b \in Authorizers \ {a} : authCall'[b] = authCall[b],
           UNCHANGED <<nonces, transitions, evidence, issued, boot, clock>>
    PROVE  Issuance'
  <1>1. ReservationsHeld'
    BY DEF Issuance, ReservationsHeld, Reserved, Recent
  <1>2. EvidenceInHand'
    BY DEF Issuance, EvidenceInHand, Committed
  <1>3. NonceSpentOnce' /\ CapabilitiesBacked' /\ OneCapabilityPerTransition'
    BY DEF Issuance, NonceSpentOnce, CapabilitiesBacked, OneCapabilityPerTransition, Recent,
           Committed
  <1> QED
    BY <1>1, <1>2, <1>3 DEF Issuance

(* The capability that is issued stands on a transition that no other one  *)
(* of this process, and no other authorizer, has.                          *)
LEMMA IssueKeepsIssuance ==
    ASSUME TypeOK, Custody, Issuance, NEW a \in Authorizers, IssueCapability(a),
           UNCHANGED <<boot, clock>>
    PROVE  Issuance'
  <1> DEFINE k == authCall[a]
             new == CapabilityCore(k)
  <1>1. /\ NonceSpentOnce /\ ReservationsHeld /\ EvidenceInHand
        /\ CapabilitiesBacked /\ OneCapabilityPerTransition
    BY DEF Issuance
  <1>2. /\ k.at = "issue" /\ authCall'[a].at = "idle"
        /\ issued' = issued \cup {new}
        /\ \A b \in Authorizers \ {a} : authCall'[b] = authCall[b]
        /\ UNCHANGED <<nonces, transitions, evidence>>
    BY IssueFacts DEF stateVars
  <1>3. /\ new.issued_at = k.now /\ new.evidence_id = k.evidence
        /\ new.transition_id = k.transition /\ new.nonce = Act[k.cand].nonce
    BY DEF CapabilityCore
  <1>4. k.now \in boot .. clock /\ k.now \in Nat
    BY <1>2, AuthCallTypes DEF Custody, EvidenceIsRecent
  <1>5. /\ k.transition \in transitions
        /\ k.transition.nonce = Act[k.cand].nonce
        /\ k.evidence \in evidence /\ k.evidence.committed_at = k.now
        /\ \A b \in Authorizers \ {a} : Reserved(b) => authCall[b].transition # k.transition
        /\ \A cap \in issued : Recent(cap) => cap.transition_id # k.transition
    BY <1>1, <1>2 DEF ReservationsHeld, EvidenceInHand, Reserved, Committed
  <1> HIDE DEF new, k
  <1>6. ReservationsHeld'
    BY <1>1, <1>2, <1>3, <1>5 DEF ReservationsHeld, Reserved, Recent
  <1>7. EvidenceInHand'
    BY <1>1, <1>2 DEF EvidenceInHand, Committed
  <1>8. CapabilitiesBacked'
    <2>1. new.issued_at <= clock
      BY <1>3, <1>4 DEF TypeOK, WorkloadTypeOK
    <2> QED
      BY <1>1, <1>2, <1>3, <1>5, <2>1 DEF CapabilitiesBacked, Recent, Committed
  <1>9. OneCapabilityPerTransition'
    BY <1>1, <1>2, <1>3, <1>5 DEF OneCapabilityPerTransition, Recent
  <1>10. NonceSpentOnce'
    BY <1>1, <1>2 DEF NonceSpentOnce
  <1> QED
    BY <1>6, <1>7, <1>8, <1>9, <1>10 DEF Issuance

LEMMA AuthorizeKeepsIssuance ==
    ASSUME TypeOK, Custody, Issuance, Authorize
    PROVE  Issuance'
  <1>1. UNCHANGED <<clock, boot>>
    BY DEF Authorize, workloadVars, processVars
  <1>2. PICK a \in Authorizers :
            \/ \E c \in Candidates, cost \in Costs : BeginAuthorize(a, c, cost)
            \/ \E c \in Candidates : RefuseAuthorize(a, c)
            \/ AuthorizeStep(a)
    BY DEF Authorize, AuthorityNext
  <1>3. ASSUME NEW c \in Candidates, NEW cost \in Costs, BeginAuthorize(a, c, cost)
        PROVE  Issuance'
    BY <1>1, <1>3, BeginFacts, LetGoKeepsIssuance DEF stateVars
  <1>4. ASSUME NEW c \in Candidates, RefuseAuthorize(a, c)
        PROVE  Issuance'
    BY <1>1, <1>4, AuthorizeTyped, IssuanceIdle DEF RefuseAuthorize, stateVars
  <1>5. CASE RefuseTransition(a) \/ FailEvidence(a)
    BY <1>1, <1>5, ReturnFacts, LetGoKeepsIssuance DEF stateVars
  <1> QED
    BY <1>1, <1>2, <1>3, <1>4, <1>5, ReserveKeepsIssuance, CommitKeepsIssuance,
       IssueKeepsIssuance
    DEF AuthorizeStep

(* After a restart no capability is recent and no nonce is spent.          *)
LEMMA RestartKeepsIssuance ==
    ASSUME TypeOK, Issuance, Restart
    PROVE  Issuance'
  <1>1. /\ \A a \in Authorizers : authCall'[a].at = "idle"
        /\ issued' = issued /\ clock' = clock + 1 /\ boot' = clock + 1
        /\ transitions' = {} /\ nonces' = [n \in Nonces |-> Absent]
    BY DEF Restart, Tick, Idle, StateLost
  <1>2. \A cap \in issued : /\ cap.issued_at < clock + 1 /\ cap.issued_at <= clock + 1
                            /\ cap.evidence_id.committed_at = cap.issued_at
    <2>1. clock \in Nat /\ \A cap \in issued : cap.issued_at \in Nat
      BY DEF TypeOK, WorkloadTypeOK, Capabilities
    <2> QED
      BY <2>1 DEF Issuance, CapabilitiesBacked
  <1>3. \A cap \in issued : ~(cap.issued_at >= clock + 1)
    BY <1>2 DEF TypeOK, WorkloadTypeOK, Capabilities
  <1>4. NonceSpentOnce'
    BY <1>1 DEF NonceSpentOnce
  <1>5. ReservationsHeld' /\ EvidenceInHand'
    BY <1>1 DEF ReservationsHeld, EvidenceInHand, Reserved
  <1>6. CapabilitiesBacked' /\ OneCapabilityPerTransition'
    BY <1>1, <1>2, <1>3 DEF CapabilitiesBacked, OneCapabilityPerTransition, Recent
  <1> QED
    BY <1>4, <1>5, <1>6 DEF Issuance

LEMMA IssuanceInit == Init => Issuance
  <1> SUFFICES ASSUME Init PROVE Issuance
    OBVIOUS
  <1>1. /\ \A a \in Authorizers : authCall[a].at = "idle"
        /\ issued = {} /\ transitions = {} /\ nonces = [n \in Nonces |-> Absent]
    BY DEF Init, AuthorityInit, Idle, StateInit
  <1> QED
    BY <1>1 DEF Issuance, NonceSpentOnce, ReservationsHeld, EvidenceInHand,
                CapabilitiesBacked, OneCapabilityPerTransition, Reserved

LEMMA NextKeepsIssuance == TypeOK /\ Custody /\ Issuance /\ [Next]_vars => Issuance'
  <1> SUFFICES ASSUME TypeOK, Custody, Issuance, [Next]_vars PROVE Issuance'
    OBVIOUS
  <1>1. TypeOK'
    BY NextTyped
  <1>2. CASE Effectuate
    BY <1>1, <1>2, IssuanceIdle DEF Effectuate, stateVars, workloadVars, processVars
  <1>3. CASE MakeProof \/ UNCHANGED vars
    BY <1>1, <1>3, IssuanceIdle DEF MakeProof, vars, stateVars, workloadVars, processVars
  <1>4. CASE Reconfigure
    BY <1>1, <1>4, IssuanceIdle DEF Reconfigure, ConfigureSource, workloadVars, processVars
  <1>5. CASE Environment
    BY <1>1, <1>5, IssuanceIdle
    DEF Environment, Tick, MutatePayload, stateVars, processVars
  <1> QED
    BY <1>2, <1>3, <1>4, <1>5, AuthorizeKeepsIssuance, RestartKeepsIssuance DEF Next

-----------------------------------------------------------------------------
(* OnlyIssuedUsed: a call is given an issued capability and keeps it to    *)
(* its effect, and what it was issued is never taken back.                 *)
LEMMA CallsKeepOnlyIssued ==
    ASSUME TypeOK, TypeOK', OnlyIssuedUsed,
           \A t \in Callers : call'[t].at # "idle" => call'[t].cap \in issued',
           issued \subseteq issued', UNCHANGED <<effects, boot>>,
           clock' = clock \/ clock' = clock + 1
    PROVE  OnlyIssuedUsed'
  <1>1. /\ Occurrences' = Occurrences
        /\ \A o \in Occurrences : EffectAt(o)' = EffectAt(o)
    BY SameEffects
  <1>2. ASSUME NEW o \in Occurrences
        PROVE  EffectAt(o).at <= clock'
    <2>1. EffectAt(o).at \in Nat /\ clock \in Nat /\ EffectAt(o).at <= clock
      BY OccurrenceTypes DEF EffectRecords, TypeOK, WorkloadTypeOK, OnlyIssuedUsed
    <2> QED
      BY <2>1
  <1> QED
    BY <1>1, <1>2 DEF OnlyIssuedUsed, Recent

LEMMA AuthorityOnlyIssues == Authorize => issued \subseteq issued'
  BY DEF Authorize, AuthorityNext, BeginAuthorize, RefuseAuthorize, authorityVars,
         AuthorizeStep, ReserveTransition, RefuseTransition, CommitEvidence, FailEvidence,
         IssueCapability

LEMMA CommitKeepsOnlyIssued ==
    ASSUME TypeOK, Custody, Issuance, OnlyIssuedUsed, NEW t \in Callers, CommitEffect(t),
           UNCHANGED <<issued, boot, clock>>
    PROVE  OnlyIssuedUsed'
  <1>1. PICK new :
           /\ Occurrences' = Occurrences \cup {new}
           /\ EffectAt(new)'.cap = call[t].cap
           /\ EffectAt(new)'.at = clock
           /\ \A o \in Occurrences : EffectAt(o)' = EffectAt(o) /\ o # new
    BY OneMoreEffect
  <1>2. call[t].at = "commit" /\ call[t] \in CallStates
    BY CallTypes DEF CommitEffect
  <1>3. call[t].cap \in issued
    BY <1>2 DEF OnlyIssuedUsed
  <1>4. Recent(call[t].cap)
    <2>1. call[t].cap.evidence_id.committed_at \in boot .. clock
      BY <1>2 DEF Custody, VerifiedIsVouched
    <2>2. call[t].cap.evidence_id.committed_at = call[t].cap.issued_at
      BY <1>3 DEF Issuance, CapabilitiesBacked
    <2> QED
      BY <2>1, <2>2 DEF Recent
  <1>5. \A u \in Callers : call'[u].at # "idle" => call'[u].cap \in issued
    <2>1. /\ call'[t].cap = call[t].cap
          /\ \A u \in Callers \ {t} : call'[u] = call[u]
      BY <1>2 DEF CommitEffect, TypeOK, CallStates
    <2> QED
      BY <1>3, <2>1 DEF OnlyIssuedUsed
  <1>6. clock <= clock
    BY DEF TypeOK, WorkloadTypeOK
  <1> QED
    BY <1>1, <1>3, <1>4, <1>5, <1>6 DEF OnlyIssuedUsed, Recent

(* A step of effectuate leaves a call what it was begun with.              *)
LEMMA StepKeepsCall ==
    ASSUME TypeOK, NEW t \in Callers, EffectuateStep(t)
    PROVE  /\ call[t].at # "idle"
           /\ call'[t].at # "idle" => /\ call'[t].cap = call[t].cap
                                      /\ call'[t].cand = call[t].cand
                                      /\ call'[t].sink = call[t].sink
                                      /\ call'[t].now = call[t].now
           /\ \A u \in Callers \ {t} : call'[u] = call[u]
  <1>1. call[t].at # "idle"
    BY DEF EffectuateStep, VerifyEvidence, VerifyTransition, ClaimCapability, RefuseClaim,
           CommitEffect, FailEffect, IssueReceipt, FailReceipt
  <1>2. call[t] \in CallStates
    BY <1>1, CallTypes
  <1>3. \/ Finish(t)
        \/ Advance(t, "transition") \/ Advance(t, "claim") \/ Advance(t, "commit")
        \/ CommitEffect(t)
    BY DEF EffectuateStep, VerifyEvidence, VerifyTransition, ClaimCapability, RefuseClaim,
           FailEffect, IssueReceipt, FailReceipt
  <1>4. CASE Finish(t)
    BY <1>1, <1>4 DEF Finish, NoCall, TypeOK
  <1>5. CASE Advance(t, "transition") \/ Advance(t, "claim") \/ Advance(t, "commit")
    BY <1>1, <1>2, <1>5 DEF Advance, TypeOK, CallStates
  <1>6. CASE CommitEffect(t)
    BY <1>1, <1>2, <1>6 DEF CommitEffect, TypeOK, CallStates
  <1> QED
    BY <1>3, <1>4, <1>5, <1>6

LEMMA EffectuateKeepsOnlyIssued ==
    ASSUME TypeOK, Custody, Issuance, OnlyIssuedUsed, Effectuate
    PROVE  OnlyIssuedUsed'
  <1>1. UNCHANGED <<issued, boot, clock>> /\ TypeOK'
    BY EffectuateTyped DEF Effectuate, authorityVars, processVars, workloadVars
  <1>2. PICK t \in Callers : Present(t) \/ EffectuateStep(t)
    BY DEF Effectuate
  <1>3. ASSUME NEW s \in Sinks, NEW c \in Candidates, NEW cap \in issued, NEW proof,
               BeginEffectuate(t, s, c, cap, proof)
        PROVE  OnlyIssuedUsed'
    <2>1. call'[t].cap = cap /\ UNCHANGED effects
          /\ \A u \in Callers \ {t} : call'[u] = call[u]
      BY <1>3 DEF BeginEffectuate, TypeOK
    <2>2. \A u \in Callers : call'[u].at # "idle" => call'[u].cap \in issued'
      BY <1>1, <2>1 DEF OnlyIssuedUsed
    <2> QED
      BY <1>1, <2>1, <2>2, CallsKeepOnlyIssued
  <1>4. ASSUME NEW s \in Sinks, NEW c \in Candidates, NEW cap \in issued, NEW proof,
               RefuseEffectuate(t, s, c, cap, proof)
        PROVE  OnlyIssuedUsed'
    BY <1>1, <1>4, CallsKeepOnlyIssued DEF RefuseEffectuate, sinkVars, OnlyIssuedUsed
  <1>5. CASE EffectuateStep(t)
    <2>1. CASE CommitEffect(t)
      BY <1>1, <2>1, CommitKeepsOnlyIssued
    <2>2. CASE ~CommitEffect(t)
      <3>1. UNCHANGED effects
        BY <1>5, <2>2
        DEF EffectuateStep, VerifyEvidence, VerifyTransition, ClaimCapability, RefuseClaim,
            FailEffect, IssueReceipt, FailReceipt
      <3>2. \A u \in Callers : call'[u].at # "idle" => call'[u].cap \in issued'
        BY <1>1, <1>5, StepKeepsCall DEF OnlyIssuedUsed
      <3> QED
        BY <1>1, <3>1, <3>2, CallsKeepOnlyIssued
    <2> QED
      BY <2>1, <2>2
  <1> QED
    BY <1>2, <1>3, <1>4, <1>5 DEF Present

LEMMA NextKeepsOnlyIssued ==
    TypeOK /\ Custody /\ Issuance /\ OnlyIssuedUsed /\ [Next]_vars => OnlyIssuedUsed'
  <1> SUFFICES ASSUME TypeOK, Custody, Issuance, OnlyIssuedUsed, [Next]_vars
               PROVE  OnlyIssuedUsed'
    OBVIOUS
  <1>1. TypeOK'
    BY NextTyped
  <1>2. CASE Authorize
    BY <1>1, <1>2, AuthorityOnlyIssues, CallsKeepOnlyIssued
    DEF Authorize, sinkVars, workloadVars, processVars, OnlyIssuedUsed
  <1>3. CASE MakeProof \/ Reconfigure \/ UNCHANGED vars
    BY <1>1, <1>3, CallsKeepOnlyIssued
    DEF MakeProof, Reconfigure, vars, authorityVars, sinkVars, workloadVars, processVars,
        OnlyIssuedUsed
  <1>4. CASE Environment
    BY <1>1, <1>4, CallsKeepOnlyIssued
    DEF Environment, Tick, MutatePayload, authorityVars, sinkVars, processVars, OnlyIssuedUsed
  <1>5. CASE Restart
    <2>1. /\ Occurrences' = Occurrences
          /\ \A o \in Occurrences : EffectAt(o)' = EffectAt(o)
      BY <1>5, SameEffects DEF Restart
    <2>2. /\ \A t \in Callers : call'[t].at = "idle"
          /\ issued' = issued /\ clock' = clock + 1 /\ boot' = clock + 1
      BY <1>5 DEF Restart, NoCall, Tick
    <2>3. ASSUME NEW o \in Occurrences
          PROVE  EffectAt(o).at <= clock + 1 /\ ~(EffectAt(o).at >= clock + 1)
      <3>1. EffectAt(o).at \in Nat /\ clock \in Nat /\ EffectAt(o).at <= clock
        BY OccurrenceTypes DEF EffectRecords, TypeOK, WorkloadTypeOK, OnlyIssuedUsed
      <3> QED
        BY <3>1
    <2> QED
      BY <2>1, <2>2, <2>3 DEF OnlyIssuedUsed
  <1> QED
    BY <1>2, <1>3, <1>4, <1>5, EffectuateKeepsOnlyIssued DEF Next

-----------------------------------------------------------------------------
(* In every reachable state a reservation is one authorizer's, a recent    *)
(* capability has its evidence and its one transition on record, and calls *)
(* and effects have issued capabilities (authority.py:48-112).             *)
THEOREM ProvenanceCorrect == Spec => []Provenance
  <1>1. Init => TypeOK /\ Custody /\ Provenance
    <2>1. Init => OnlyIssuedUsed
      BY DEF Init, SinkInit, NoCall, OnlyIssuedUsed, Occurrences
    <2> QED
      BY <2>1, InitTyped, CustodyInit, IssuanceInit DEF Provenance
  <1>2. TypeOK /\ Custody /\ Provenance /\ [Next]_vars => (TypeOK /\ Custody /\ Provenance)'
    BY NextTyped, NextKeepsCustody, NextKeepsIssuance, NextKeepsOnlyIssued DEF Provenance
  <1> QED
    BY <1>1, <1>2, PTL DEF Spec

(* A nonce buys one capability in the life of a process, whichever         *)
(* authorizers race for it (authority.py:46-48, state.py:54-55): both      *)
(* capabilities would stand on the transition that spent the nonce.        *)
THEOREM OneCapabilityPerNonceCorrect == Spec => []OneCapabilityPerNonce
  <1>1. TypeOK /\ Provenance => OneCapabilityPerNonce
    <2> SUFFICES ASSUME TypeOK, Provenance,
                        NEW cap1 \in issued, NEW cap2 \in issued, cap1.nonce = cap2.nonce,
                        cap1.issued_at >= boot, cap2.issued_at >= boot
                 PROVE  cap1 = cap2
      BY DEF OneCapabilityPerNonce
    <2>1. /\ cap1.transition_id \in transitions /\ cap1.transition_id.nonce = cap1.nonce
          /\ cap2.transition_id \in transitions /\ cap2.transition_id.nonce = cap2.nonce
      BY DEF Provenance, Issuance, CapabilitiesBacked, Recent
    <2>2. \A t \in transitions : nonces[t.nonce] = t
      BY NonceFacts DEF TypeOK, Provenance, Issuance
    <2> QED
      BY <2>1, <2>2 DEF Provenance, Issuance, OneCapabilityPerTransition, Recent
  <1> QED
    BY <1>1, TypeCorrect, ProvenanceCorrect, PTL

(* Evidence before effect: every effect of the running process stands on   *)
(* committed evidence and on the transition that spent its nonce           *)
(* (authority.py:48-76, sink.py:111-153, state.py:89-90).                  *)
THEOREM EffectBackedCorrect == Spec => []EffectBacked
  <1>1. TypeOK /\ Provenance => EffectBacked
    <2> SUFFICES ASSUME TypeOK, Provenance, NEW o \in Occurrences, EffectAt(o).at >= boot
                 PROVE  /\ Committed(EffectAt(o).cap.evidence_id)
                        /\ nonces[EffectAt(o).cap.nonce] = EffectAt(o).cap.transition_id
      BY DEF EffectBacked
    <2> DEFINE cap == EffectAt(o).cap
    <2>1. cap \in issued /\ Recent(cap)
      BY DEF Provenance, OnlyIssuedUsed
    <2>2. /\ Committed(cap.evidence_id) /\ cap.transition_id \in transitions
          /\ cap.transition_id.nonce = cap.nonce
      BY <2>1 DEF Provenance, Issuance, CapabilitiesBacked
    <2>3. \A t \in transitions : nonces[t.nonce] = t
      BY NonceFacts DEF TypeOK, Provenance, Issuance
    <2> QED
      BY <2>2, <2>3
  <1> QED
    BY <1>1, TypeCorrect, ProvenanceCorrect, PTL

(* A nonce buys one effect in the life of a process, through whichever     *)
(* capabilities, threads and sinks, where sinks of one identity share a    *)
(* store (state.py:32, 54-55, sink.py:132-153): the two capabilities would *)
(* be one, and a capability has one effect.                                *)
THEOREM OneEffectPerNonceCorrect ==
    ASSUME SharedStores
    PROVE  Spec => []OneEffectPerNonce
  <1>1. TypeOK /\ Provenance /\ OneCapabilityPerNonce /\ AtMostOneEffect => OneEffectPerNonce
    <2> SUFFICES ASSUME TypeOK, Provenance, OneCapabilityPerNonce, AtMostOneEffect,
                        NEW o1 \in Occurrences, NEW o2 \in Occurrences,
                        EffectAt(o1).cap.nonce = EffectAt(o2).cap.nonce,
                        Vouched(EffectAt(o1).cap), Vouched(EffectAt(o2).cap)
                 PROVE  o1 = o2
      BY DEF OneEffectPerNonce
    <2>1. \A o \in Occurrences :
              /\ EffectAt(o).cap \in issued
              /\ EffectAt(o).cap.evidence_id.committed_at = EffectAt(o).cap.issued_at
      BY DEF Provenance, OnlyIssuedUsed, Issuance, CapabilitiesBacked
    <2>2. EffectAt(o1).cap = EffectAt(o2).cap
      BY <2>1 DEF OneCapabilityPerNonce, Vouched
    <2> QED
      BY <2>2 DEF AtMostOneEffect
  <1>2. Spec => []AtMostOneEffect
    BY AtMostOneEffectCorrect
  <1> QED
    BY <1>1, <1>2, TypeCorrect, ProvenanceCorrect, OneCapabilityPerNonceCorrect, PTL
=============================================================================
