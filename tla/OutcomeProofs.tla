---------------------------- MODULE OutcomeProofs ----------------------------
(***************************************************************************)
(* What is seen of the system from outside: its receipts tell of effects   *)
(* that happened, one each, all its threads, stores and restarts do to a   *)
(* capability only what CapabilityLife promises, and the effects are paid. *)
(***************************************************************************)
EXTENDS BindingProofs

(* The effects of the running process, and how an effector numbers them    *)
(* (effectors.py:59-65).                                                   *)
Ours(o) == o[2] > earlier[o[1]]

EffectsNumbered ==
    \A o \in Occurrences : Ours(o) =>
        EffectAt(o).reference
          = <<o[1], EffectAt(o).candidate_digest, o[2] - earlier[o[1]] - 1>>

(* A call that has yet to return its receipt has its effect, and nobody    *)
(* else refers to that effect.                                             *)
ReceiptsDue ==
    \A t \in Callers : call[t].at = "receipt" =>
        /\ \E o \in Occurrences :
              /\ Ours(o)
              /\ EffectAt(o).reference = call[t].reference
              /\ EffectAt(o).cap = call[t].cap
        /\ \A u \in Callers \ {t} :
              call[u].at = "receipt" => call[u].reference # call[t].reference
        /\ \A r \in receipts :
              Recent(r.capability_id) => r.effect_reference # call[t].reference

ReceiptsBacked ==
    \A r \in receipts :
        /\ r.capability_id \in issued
        /\ \E o \in Occurrences :
              /\ EffectAt(o).reference = r.effect_reference
              /\ EffectAt(o).cap = r.capability_id
              /\ r.candidate_digest.act \notin Aliased =>
                    EffectAt(o).candidate_digest = r.candidate_digest
        /\ Recent(r.capability_id) =>
              \E o \in Occurrences : Ours(o) /\ EffectAt(o).reference = r.effect_reference

OneReceiptPerEffect ==
    \A q, r \in receipts :
        /\ Recent(q.capability_id) /\ Recent(r.capability_id)
        /\ q.effect_reference = r.effect_reference
        => q = r

Receipted == EffectsNumbered /\ ReceiptsDue /\ ReceiptsBacked /\ OneReceiptPerEffect

(* A claim is of an issued capability, at the store of a sink it names.    *)
ClaimsOfIssued ==
    \A st \in Stores : \A cap \in claims[st] :
        cap \in issued /\ \E s \in Sinks : AtHome(cap, s) /\ StoreOf[s] = st

-----------------------------------------------------------------------------
(* Receipted is inductive.  Most steps leave the effects, the receipts and *)
(* the calls that owe one alone.                                           *)
LEMMA ReceiptedInit == Init => Receipted
  <1> SUFFICES ASSUME Init PROVE Receipted
    OBVIOUS
  <1>1. Occurrences = {} /\ receipts = {} /\ \A t \in Callers : call[t].at = "idle"
    BY DEF Init, SinkInit, Occurrences, NoCall
  <1> QED
    BY <1>1 DEF Receipted, EffectsNumbered, ReceiptsDue, ReceiptsBacked, OneReceiptPerEffect

LEMMA ReceiptsIdle ==
    ASSUME Receipted, UNCHANGED <<effects, earlier, receipts, boot>>, issued \subseteq issued',
           \A t \in Callers : call'[t].at = "receipt" => call'[t] = call[t]
    PROVE  Receipted'
  <1>1. /\ Occurrences' = Occurrences
        /\ \A o \in Occurrences : EffectAt(o)' = EffectAt(o)
    BY SameEffects
  <1>2. \A o : Ours(o)' <=> Ours(o)
    BY DEF Ours
  <1>3. EffectsNumbered'
    BY <1>1, <1>2 DEF Receipted, EffectsNumbered
  <1>4. ReceiptsDue'
    <2> SUFFICES ASSUME NEW t \in Callers, call'[t].at = "receipt"
                 PROVE  /\ \E o \in Occurrences' :
                              /\ Ours(o)'
                              /\ EffectAt(o)'.reference = call'[t].reference
                              /\ EffectAt(o)'.cap = call'[t].cap
                        /\ \A u \in Callers \ {t} :
                              call'[u].at = "receipt" => call'[u].reference # call'[t].reference
                        /\ \A r \in receipts' :
                              Recent(r.capability_id)'
                                 => r.effect_reference # call'[t].reference
      BY DEF ReceiptsDue
    <2>1. call'[t] = call[t]
      OBVIOUS
    <2>2. /\ \E o \in Occurrences :
                /\ Ours(o)
                /\ EffectAt(o).reference = call[t].reference
                /\ EffectAt(o).cap = call[t].cap
          /\ \A u \in Callers \ {t} :
                call[u].at = "receipt" => call[u].reference # call[t].reference
          /\ \A r \in receipts :
                Recent(r.capability_id) => r.effect_reference # call[t].reference
      BY <2>1 DEF Receipted, ReceiptsDue
    <2> QED
      BY <1>1, <1>2, <2>1, <2>2 DEF Recent
  <1>5. ReceiptsBacked'
    BY <1>1, <1>2 DEF Receipted, ReceiptsBacked, Recent
  <1>6. OneReceiptPerEffect'
    BY DEF Receipted, OneReceiptPerEffect, Recent
  <1> QED
    BY <1>3, <1>4, <1>5, <1>6 DEF Receipted

(* An effector numbers its effects, so the next one is told apart from all *)
(* of this process by its reference.                                       *)
LEMMA NextReferenceIsNew ==
    ASSUME TypeOK, EffectsNumbered, NEW ch \in Channels, NEW digest,
           NEW o \in Occurrences, Ours(o)
    PROVE  EffectAt(o).reference # Reference(ch, digest)
  <1>1. PICK d \in Channels : o \in {d} \X DOMAIN effects[d]
    BY DEF Occurrences
  <1>2. o[1] = d /\ o[2] \in 1 .. Len(effects[d]) /\ Len(effects[d]) \in Nat
    BY <1>1 DEF TypeOK
  <1>3. EffectAt(o).reference = <<d, EffectAt(o).candidate_digest, o[2] - earlier[d] - 1>>
    BY <1>2 DEF EffectsNumbered
  <1>4. Reference(ch, digest) = <<ch, digest, Len(effects[ch]) - earlier[ch]>>
    BY DEF Reference
  <1>5. earlier[d] \in Nat
    BY DEF TypeOK
  <1>6. o[2] - earlier[d] - 1 # Len(effects[d]) - earlier[d]
    BY <1>2, <1>5
  <1> QED
    BY <1>3, <1>4, <1>6

LEMMA CommitKeepsReceipted ==
    ASSUME TypeOK, Receipted, NEW t \in Callers, CommitEffect(t),
           UNCHANGED <<earlier, issued, boot>>
    PROVE  Receipted'
  <1>1. call[t].at = "commit" /\ call[t] \in CallStates /\ UNCHANGED receipts
    BY CallTypes DEF CommitEffect
  <1>2. PICK ch, ref, digest :
            /\ ch \in Channels /\ ch = ChannelOf[call[t].sink]
            /\ digest = DigestNow(call[t].cand)
            /\ ref = Reference(ch, digest)
    BY <1>1, SinkAssumption DEF CallStates
  <1>3. PICK new :
           /\ Occurrences' = Occurrences \cup {new}
           /\ EffectAt(new)'.cap = call[t].cap
           /\ EffectAt(new)'.candidate_digest = digest
           /\ EffectAt(new)'.reference = ref
           /\ new = <<ch, Len(effects[ch]) + 1>>
           /\ \A o \in Occurrences : EffectAt(o)' = EffectAt(o) /\ o # new
    BY <1>2, OneMoreEffect
  <1>4. /\ call'[t].at = "receipt" /\ call'[t].cap = call[t].cap /\ call'[t].reference = ref
        /\ \A u \in Callers \ {t} : call'[u] = call[u]
    BY <1>1, <1>2 DEF CommitEffect, TypeOK, CallStates
  <1>5. \A o : Ours(o)' <=> Ours(o)
    BY DEF Ours
  <1>6. Len(effects[ch]) \in Nat /\ earlier[ch] \in Nat /\ earlier[ch] <= Len(effects[ch])
    BY <1>2 DEF TypeOK
  <1>7. new[1] = ch /\ new[2] = Len(effects[ch]) + 1
    BY <1>3
  <1>8. Ours(new) /\ new[2] - earlier[new[1]] - 1 = Len(effects[ch]) - earlier[ch]
    BY <1>6, <1>7 DEF Ours
  <1>9. \A o \in Occurrences : Ours(o) => EffectAt(o).reference # ref
    BY <1>2, NextReferenceIsNew DEF Receipted
  <1>10. EffectsNumbered'
    <2>1. EffectAt(new)'.reference
             = <<new[1], EffectAt(new)'.candidate_digest, new[2] - earlier[new[1]] - 1>>
      BY <1>2, <1>3, <1>7, <1>8 DEF Reference
    <2> QED
      BY <1>3, <1>5, <2>1 DEF Receipted, EffectsNumbered
  <1>11. ReceiptsDue'
    <2>1. ASSUME NEW u \in Callers \ {t}, call[u].at = "receipt"
          PROVE  /\ \E o \in Occurrences :
                       /\ Ours(o)
                       /\ EffectAt(o).reference = call[u].reference
                       /\ EffectAt(o).cap = call[u].cap
                 /\ \A v \in Callers \ {u} :
                       call[v].at = "receipt" => call[v].reference # call[u].reference
                 /\ \A r \in receipts :
                       Recent(r.capability_id) => r.effect_reference # call[u].reference
                 /\ call[u].reference # ref
      BY <1>9, <2>1 DEF Receipted, ReceiptsDue
    <2>2. \A r \in receipts : Recent(r.capability_id) => r.effect_reference # ref
      BY <1>9 DEF Receipted, ReceiptsBacked
    <2>3. ASSUME NEW u \in Callers, call'[u].at = "receipt"
          PROVE  /\ \E o \in Occurrences' :
                       /\ Ours(o)'
                       /\ EffectAt(o)'.reference = call'[u].reference
                       /\ EffectAt(o)'.cap = call'[u].cap
                 /\ \A v \in Callers \ {u} :
                       call'[v].at = "receipt" => call'[v].reference # call'[u].reference
                 /\ \A r \in receipts' :
                       Recent(r.capability_id)' => r.effect_reference # call'[u].reference
      <3>1. CASE u = t
        <4>1. \E o \in Occurrences' :
                /\ Ours(o)' /\ EffectAt(o)'.reference = ref /\ EffectAt(o)'.cap = call[t].cap
          BY <1>3, <1>5, <1>8
        <4>2. \A v \in Callers \ {t} : call'[v].at = "receipt" => call'[v].reference # ref
          BY <1>4, <2>1
        <4> QED
          BY <1>1, <1>4, <2>2, <3>1, <4>1, <4>2 DEF Recent
      <3>2. CASE u # t
        <4>1. call'[u] = call[u] /\ call[u].at = "receipt" /\ u \in Callers \ {t}
          BY <1>4, <2>3, <3>2
        <4>2. \E o \in Occurrences' :
                 /\ Ours(o)' /\ EffectAt(o)'.reference = call[u].reference
                 /\ EffectAt(o)'.cap = call[u].cap
          BY <1>3, <1>5, <2>1, <4>1
        <4>3. \A v \in Callers \ {u} :
                 call'[v].at = "receipt" => call'[v].reference # call[u].reference
          BY <1>4, <2>1, <4>1
        <4>4. \A r \in receipts :
                 Recent(r.capability_id) => r.effect_reference # call[u].reference
          BY <2>1, <4>1
        <4> QED
          BY <1>1, <4>1, <4>2, <4>3, <4>4 DEF Recent
      <3> QED
        BY <3>1, <3>2
    <2> QED
      BY <2>3 DEF ReceiptsDue
  <1>12. ReceiptsBacked'
    BY <1>1, <1>3, <1>5 DEF Receipted, ReceiptsBacked, Recent
  <1>13. OneReceiptPerEffect'
    BY <1>1 DEF Receipted, OneReceiptPerEffect, Recent
  <1> QED
    BY <1>10, <1>11, <1>12, <1>13 DEF Receipted

(* The receipt is for the effect the call had, and is the first for it.    *)
LEMMA ReceiptKeepsReceipted ==
    ASSUME TypeOK, Provenance, Binding, Receipted, NEW t \in Callers, IssueReceipt(t),
           UNCHANGED <<earlier, issued, boot>>
    PROVE  Receipted'
  <1>1. /\ call[t].at = "receipt" /\ UNCHANGED effects
        /\ \A u \in Callers \ {t} : call'[u] = call[u]
        /\ call'[t].at = "idle"
    BY DEF IssueReceipt, Finish, NoCall, TypeOK
  <1> DEFINE new == [capability_id    |-> call[t].cap,
                     candidate_digest |-> DigestNow(call[t].cand),
                     transition_id    |-> call[t].cap.transition_id,
                     committed_at     |-> call[t].now,
                     effect_reference |-> call[t].reference]
  <1>2. /\ receipts' = receipts \cup {new}
        /\ new.capability_id = call[t].cap
        /\ new.candidate_digest = DigestNow(call[t].cand)
        /\ new.effect_reference = call[t].reference
    BY DEF IssueReceipt
  <1> HIDE DEF new
  <1>3. /\ Occurrences' = Occurrences
        /\ \A o \in Occurrences : EffectAt(o)' = EffectAt(o)
        /\ \A o : Ours(o)' <=> Ours(o)
    BY <1>1, SameEffects DEF Ours
  <1>4. /\ \A r \in receipts :
             Recent(r.capability_id) => r.effect_reference # call[t].reference
        /\ \A u \in Callers \ {t} :
             call[u].at = "receipt" => call[u].reference # call[t].reference
    BY <1>1 DEF Receipted, ReceiptsDue
  <1>5. PICK o \in Occurrences :
           /\ Ours(o)
           /\ EffectAt(o).reference = call[t].reference
           /\ EffectAt(o).cap = call[t].cap
    BY <1>1 DEF Receipted, ReceiptsDue
  <1>6. EffectsNumbered'
    BY <1>3, <1>1 DEF Receipted, EffectsNumbered
  <1>7. ReceiptsDue'
    <2> SUFFICES ASSUME NEW u \in Callers, call'[u].at = "receipt"
                 PROVE  /\ \E p \in Occurrences :
                              /\ Ours(p)
                              /\ EffectAt(p).reference = call[u].reference
                              /\ EffectAt(p).cap = call[u].cap
                        /\ \A v \in Callers \ {u} :
                              call'[v].at = "receipt" => call'[v].reference # call[u].reference
                        /\ \A r \in receipts' :
                              Recent(r.capability_id) => r.effect_reference # call[u].reference
      BY <1>1, <1>3 DEF ReceiptsDue, Recent
    <2>1. u # t /\ call'[u] = call[u] /\ call[u].at = "receipt"
      BY <1>1
    <2>2. /\ \E p \in Occurrences :
                /\ Ours(p)
                /\ EffectAt(p).reference = call[u].reference
                /\ EffectAt(p).cap = call[u].cap
          /\ \A v \in Callers \ {u} :
                call[v].at = "receipt" => call[v].reference # call[u].reference
          /\ \A r \in receipts :
                Recent(r.capability_id) => r.effect_reference # call[u].reference
      BY <2>1 DEF Receipted, ReceiptsDue
    <2>3. \A v \in Callers \ {u} :
             call'[v].at = "receipt" => call'[v].reference # call[u].reference
      BY <1>1, <2>2
    <2> QED
      BY <1>2, <1>4, <2>1, <2>2, <2>3
  <1>8. new.candidate_digest.act \notin Aliased
           => EffectAt(o).candidate_digest = new.candidate_digest
    <2> SUFFICES ASSUME new.candidate_digest.act \notin Aliased
                 PROVE  EffectAt(o).candidate_digest = new.candidate_digest
      OBVIOUS
    <2>1. new.candidate_digest.act = call[t].cand
      BY <1>2 DEF DigestNow, Digest
    <2>2. /\ call[t].cap \in issued
          /\ call[t].cap.candidate_digest.act = call[t].cand
      BY <1>1 DEF Provenance, OnlyIssuedUsed, Binding, CallsBound
    <2>3. call[t].cap.candidate_digest = DigestNow(call[t].cand)
      BY <2>1, <2>2 DEF Binding, Authorized, CapabilitiesFaithful, CapabilityFor
    <2>4. EffectAt(o).candidate_digest = call[t].cap.candidate_digest
      BY <1>5, <2>1, <2>2 DEF Binding, EffectsBound
    <2> QED
      BY <1>2, <2>3, <2>4
  <1>9. ReceiptsBacked'
    <2>1. new.capability_id \in issued
      BY <1>1, <1>2 DEF Provenance, OnlyIssuedUsed
    <2>2. /\ \E p \in Occurrences :
                /\ EffectAt(p).reference = new.effect_reference
                /\ EffectAt(p).cap = new.capability_id
                /\ new.candidate_digest.act \notin Aliased =>
                      EffectAt(p).candidate_digest = new.candidate_digest
          /\ \E p \in Occurrences : Ours(p) /\ EffectAt(p).reference = new.effect_reference
      BY <1>2, <1>5, <1>8
    <2> QED
      BY <1>2, <1>3, <2>1, <2>2 DEF Receipted, ReceiptsBacked, Recent
  <1>10. OneReceiptPerEffect'
    BY <1>2, <1>4 DEF Receipted, OneReceiptPerEffect, Recent
  <1> QED
    BY <1>6, <1>7, <1>9, <1>10 DEF Receipted

(* A restart counts effects from zero, and no receipt or call is left that *)
(* could be taken for one of the new process.                              *)
LEMMA RestartKeepsReceipted ==
    ASSUME TypeOK, Provenance, Receipted, Restart
    PROVE  Receipted'
  <1>1. /\ Occurrences' = Occurrences
        /\ \A o \in Occurrences : EffectAt(o)' = EffectAt(o)
    BY SameEffects DEF Restart
  <1>2. /\ \A t \in Callers : call'[t].at = "idle"
        /\ receipts' = receipts /\ issued' = issued /\ boot' = clock + 1
    BY DEF Restart, NoCall
  <1>3. \A o \in Occurrences : ~Ours(o)'
    <2> SUFFICES ASSUME NEW o \in Occurrences PROVE ~Ours(o)'
      OBVIOUS
    <2>1. PICK d \in Channels : o \in {d} \X DOMAIN effects[d]
      BY DEF Occurrences
    <2>2. o[1] = d /\ o[2] \in 1 .. Len(effects[d]) /\ Len(effects[d]) \in Nat
      BY <2>1 DEF TypeOK
    <2>3. earlier'[d] = Len(effects[d])
      BY DEF Restart
    <2> QED
      BY <2>2, <2>3 DEF Ours
  <1>4. \A r \in receipts : ~Recent(r.capability_id)'
    <2> SUFFICES ASSUME NEW r \in receipts PROVE ~Recent(r.capability_id)'
      OBVIOUS
    <2>1. r.capability_id \in issued
      BY DEF Receipted, ReceiptsBacked
    <2>2. /\ r.capability_id.issued_at \in Nat /\ clock \in Nat
          /\ r.capability_id.issued_at <= clock
      BY <2>1 DEF TypeOK, WorkloadTypeOK, Capabilities, Provenance, Issuance,
                  CapabilitiesBacked
    <2> QED
      BY <1>2, <2>2 DEF Recent
  <1>5. EffectsNumbered'
    BY <1>1, <1>3 DEF EffectsNumbered
  <1>6. ReceiptsDue'
    BY <1>2 DEF ReceiptsDue
  <1>7. ReceiptsBacked'
    BY <1>1, <1>2, <1>4 DEF Receipted, ReceiptsBacked
  <1>8. OneReceiptPerEffect'
    BY <1>2, <1>4 DEF OneReceiptPerEffect
  <1> QED
    BY <1>5, <1>6, <1>7, <1>8 DEF Receipted

LEMMA EffectuateKeepsReceipted ==
    ASSUME TypeOK, Provenance, Binding, Receipted, Effectuate
    PROVE  Receipted'
  <1>1. UNCHANGED <<earlier, issued, boot>>
    BY DEF Effectuate, authorityVars, processVars
  <1>2. PICK t \in Callers : Present(t) \/ EffectuateStep(t)
    BY DEF Effectuate
  <1>3. ASSUME UNCHANGED <<effects, receipts>>,
               \A u \in Callers : call'[u].at = "receipt" => call'[u] = call[u]
        PROVE  Receipted'
    BY <1>1, <1>3, ReceiptsIdle
  <1>4. CASE Present(t)
    BY <1>2, <1>3, <1>4 DEF Present, BeginEffectuate, RefuseEffectuate, sinkVars, TypeOK
  <1>5. ASSUME \/ Finish(t) \/ Advance(t, "transition")
               \/ Advance(t, "claim") \/ Advance(t, "commit")
        PROVE  \A u \in Callers : call'[u].at = "receipt" => call'[u] = call[u]
    <2>1. call'[t].at # "receipt" \/ call'[t] = call[t]
      BY <1>5 DEF Finish, NoCall, Advance, TypeOK, CallStates
    <2>2. \A u \in Callers \ {t} : call'[u] = call[u]
      BY <1>5 DEF Finish, Advance, TypeOK
    <2> QED
      BY <2>1, <2>2
  <1>6. CASE VerifyEvidence(t) \/ VerifyTransition(t)
    BY <1>3, <1>5, <1>6 DEF VerifyEvidence, VerifyTransition
  <1>7. CASE ClaimCapability(t) \/ RefuseClaim(t) \/ FailEffect(t) \/ FailReceipt(t)
    BY <1>3, <1>5, <1>7 DEF ClaimCapability, RefuseClaim, FailEffect, FailReceipt
  <1>8. CASE CommitEffect(t)
    BY <1>1, <1>8, CommitKeepsReceipted
  <1>9. CASE IssueReceipt(t)
    BY <1>1, <1>9, ReceiptKeepsReceipted
  <1> QED
    BY <1>2, <1>4, <1>6, <1>7, <1>8, <1>9 DEF EffectuateStep

LEMMA NextKeepsReceipted ==
    TypeOK /\ Provenance /\ Binding /\ Receipted /\ [Next]_vars => Receipted'
  <1> SUFFICES ASSUME TypeOK, Provenance, Binding, Receipted, [Next]_vars PROVE Receipted'
    OBVIOUS
  <1>1. CASE Authorize
    BY <1>1, ReceiptsIdle, AuthorityOnlyIssues DEF Authorize, sinkVars, processVars
  <1>2. CASE MakeProof \/ Reconfigure \/ Environment \/ UNCHANGED vars
    BY <1>2, ReceiptsIdle
    DEF MakeProof, Reconfigure, Environment, vars, authorityVars, sinkVars, processVars
  <1> QED
    BY <1>1, <1>2, EffectuateKeepsReceipted, RestartKeepsReceipted DEF Next

(* Whatever is interleaved between an effect and its receipt, the receipt  *)
(* in hand is for an effect that happened, of the call's own capability,   *)
(* and no other call or receipt of the process refers to it                *)
(* (sink.py:150-189, effectors.py:59-65).                                  *)
THEOREM ReceiptedCorrect == Spec => []Receipted
  <1>1. TypeOK /\ Provenance /\ Binding /\ Receipted /\ [Next]_vars => Receipted'
    BY NextKeepsReceipted
  <1> QED
    BY <1>1, ReceiptedInit, TypeCorrect, ProvenanceCorrect, BindingCorrect, PTL DEF Spec

(* A receipt tells the truth, where the workload keeps no reference into a *)
(* payload: its effect exists, of its capability and its candidate, and no *)
(* other receipt of the same process claims it (sink.py:160-189,           *)
(* effectors.py:59-65).                                                    *)
THEOREM ReceiptsTruthfulCorrect ==
    ASSUME Aliased = {}
    PROVE  Spec => []ReceiptsTruthful
  <1>1. Receipted => ReceiptsTruthful
    <2> SUFFICES ASSUME Receipted, NEW r \in receipts
                 PROVE  /\ \E o \in Occurrences :
                              /\ EffectAt(o).reference = r.effect_reference
                              /\ EffectAt(o).cap = r.capability_id
                              /\ EffectAt(o).candidate_digest = r.candidate_digest
                        /\ \A q \in receipts :
                              /\ q.effect_reference = r.effect_reference
                              /\ q.capability_id.issued_at >= boot
                              /\ r.capability_id.issued_at >= boot
                              => q = r
      BY DEF ReceiptsTruthful
    <2>1. \E o \in Occurrences :
             /\ EffectAt(o).reference = r.effect_reference
             /\ EffectAt(o).cap = r.capability_id
             /\ EffectAt(o).candidate_digest = r.candidate_digest
      BY DEF Receipted, ReceiptsBacked
    <2> QED
      BY <2>1 DEF Receipted, OneReceiptPerEffect, Recent
  <1> QED
    BY <1>1, ReceiptedCorrect, PTL

-----------------------------------------------------------------------------
(* ClaimsOfIssued is inductive: what claims a capability is a call at a    *)
(* sink that the capability names.                                         *)
LEMMA ClaimKeepsClaimsOfIssued ==
    ASSUME TypeOK, Custody, Provenance, ClaimsOfIssued, NEW t \in Callers, ClaimCapability(t),
           UNCHANGED issued
    PROVE  ClaimsOfIssued'
  <1>1. call[t].at = "claim" /\ call[t] \in CallStates
    BY CallTypes DEF ClaimCapability
  <1>2. /\ call[t].cap \in issued /\ call[t].sink \in Sinks
        /\ AtHome(call[t].cap, call[t].sink)
    BY <1>1 DEF CallStates, Custody, PresentedAtHome, Provenance, OnlyIssuedUsed
  <1>3. \A st \in Stores : \A cap \in claims'[st] :
           cap \in claims[st] \/ (cap = call[t].cap /\ st = StoreOf[call[t].sink])
    BY DEF ClaimCapability, Claim, TypeOK
  <1> QED
    BY <1>2, <1>3 DEF ClaimsOfIssued, AtHome

LEMMA NextKeepsClaimsOfIssued ==
    TypeOK /\ Custody /\ Provenance /\ ClaimsOfIssued /\ [Next]_vars => ClaimsOfIssued'
  <1> SUFFICES ASSUME TypeOK, Custody, Provenance, ClaimsOfIssued, [Next]_vars
               PROVE  ClaimsOfIssued'
    OBVIOUS
  <1>1. ASSUME UNCHANGED claims, issued \subseteq issued'
        PROVE  ClaimsOfIssued'
    BY <1>1 DEF ClaimsOfIssued, AtHome
  <1>2. CASE Authorize
    BY <1>1, <1>2, AuthorityOnlyIssues DEF Authorize
  <1>3. CASE Effectuate
    <2>1. PICK t \in Callers : Present(t) \/ EffectuateStep(t)
      BY <1>3 DEF Effectuate
    <2>2. UNCHANGED issued
      BY <1>3 DEF Effectuate, authorityVars
    <2>3. CASE ClaimCapability(t)
      BY <2>2, <2>3, ClaimKeepsClaimsOfIssued
    <2>4. CASE ~ClaimCapability(t)
      <3>1. UNCHANGED claims
        BY <2>1, <2>4
        DEF Present, BeginEffectuate, RefuseEffectuate, EffectuateStep, VerifyEvidence,
            VerifyTransition, RefuseClaim, ClaimRaises, CommitEffect, FailEffect,
            IssueReceipt, FailReceipt
      <3> QED
        BY <1>1, <2>2, <3>1
    <2> QED
      BY <2>3, <2>4
  <1>4. CASE MakeProof \/ Reconfigure \/ Environment \/ UNCHANGED vars
    BY <1>1, <1>4 DEF MakeProof, Reconfigure, Environment, vars, authorityVars
  <1>5. CASE Restart
    <2>1. UNCHANGED issued /\ \A st \in Stores : claims'[st] \subseteq claims[st]
      BY <1>5 DEF Restart, Reopen
    <2> QED
      BY <2>1 DEF ClaimsOfIssued, AtHome
  <1> QED
    BY <1>2, <1>3, <1>4, <1>5 DEF Next

(* No store ever holds a claim to a capability that was not issued, or     *)
(* that was not presented at a sink it names (sink.py:65-73, 142-148).     *)
THEOREM ClaimsOfIssuedCorrect == Spec => []ClaimsOfIssued
  <1>1. Init => ClaimsOfIssued
    BY DEF Init, ClaimsInit, ClaimsOfIssued
  <1> QED
    BY <1>1, NextKeepsClaimsOfIssued, TypeCorrect, CustodyCorrect, ProvenanceCorrect, PTL
    DEF Spec

-----------------------------------------------------------------------------
(* The promise about a capability: each step of the system is a step of    *)
(* CapabilityLife, or leaves what it talks of alone.                       *)
Usable == {cap \in issued : /\ cap.issued_at >= boot
                            /\ \A st \in Stores : ~Claimed(st, cap)}

InHand == {call[t].cap : t \in {k \in Callers : call[k].at = "commit"}}

EffectLog == [ch \in Channels |-> [i \in DOMAIN effects[ch] |-> effects[ch][i].cap]]

LifeStep ==
    \/ Life!Issue \/ Life!Consume \/ Life!TakeEffect \/ Life!Void
    \/ UNCHANGED <<issued, Usable, InHand, EffectLog>>

LEMMA LifeStepIsStep == LifeStep => [Life!LifeNext]_(Life!lifeVars)
  BY DEF LifeStep, Life!LifeNext, Life!lifeVars, Usable, InHand, EffectLog

(* Steps that change no claim, no effect and nobody's hold of a capability.*)
LEMMA LifeStutters ==
    ASSUME UNCHANGED <<issued, claims, effects, boot>>, InHand' = InHand
    PROVE  LifeStep
  <1>1. Usable' = Usable
    BY DEF Usable, Claimed
  <1>2. EffectLog' = EffectLog
    BY DEF EffectLog
  <1> QED
    BY <1>1, <1>2 DEF LifeStep

(* A capability that is issued is new: the transition that it stands on    *)
(* was its authorizer's alone.                                             *)
LEMMA IssueIsIssue ==
    ASSUME TypeOK, Custody, Provenance, ClaimsOfIssued, NEW a \in Authorizers,
           IssueCapability(a), UNCHANGED <<claims, call, effects, boot>>
    PROVE  Life!Issue
  <1> DEFINE k == authCall[a]
             new == CapabilityCore(k)
  <1>1. k.at = "issue" /\ issued' = issued \cup {new}
    BY IssueFacts
  <1>2. /\ new.issued_at = k.now /\ new.transition_id = k.transition
    BY DEF CapabilityCore
  <1>3. k.now >= boot
    <2>1. k.now \in boot .. clock
      BY <1>1 DEF Custody, EvidenceIsRecent
    <2> QED
      BY <2>1
  <1> HIDE DEF new
  <1>4. new \notin issued
    BY <1>1, <1>2, <1>3 DEF Provenance, Issuance, ReservationsHeld, Reserved, Recent
  <1>5. \A st \in Stores : new \notin claims[st]
    BY <1>4 DEF ClaimsOfIssued
  <1>6. Usable' = Usable \cup {new}
    BY <1>1, <1>2, <1>3, <1>5 DEF Usable, Claimed
  <1>7. InHand' = InHand /\ EffectLog' = EffectLog
    BY DEF InHand, EffectLog
  <1> QED
    BY <1>1, <1>4, <1>6, <1>7 DEF Life!Issue, Usable, InHand, EffectLog

(* What a store lets a call claim is of this process, and no other store   *)
(* has a claim to it.                                                      *)
LEMMA ClaimIsConsume ==
    ASSUME SharedStores, TypeOK, Custody, Provenance, ClaimsOfIssued,
           NEW t \in Callers, ClaimCapability(t), UNCHANGED <<issued, boot>>
    PROVE  Life!Consume
  <1> DEFINE cap == call[t].cap
             home == StoreOf[call[t].sink]
  <1>1. /\ call[t].at = "claim" /\ call[t] \in CallStates /\ UNCHANGED effects
        /\ ~Claimed(home, cap) /\ Advance(t, "commit")
        /\ claims' = [claims EXCEPT ![home] = @ \cup {cap}]
    BY CallTypes DEF ClaimCapability, Claim
  <1>2. /\ cap \in issued /\ call[t].sink \in Sinks /\ AtHome(cap, call[t].sink)
        /\ home \in Stores
    BY <1>1, SinkAssumption
    DEF CallStates, Custody, PresentedAtHome, Provenance, OnlyIssuedUsed
  <1>3. cap.issued_at >= boot
    <2>1. cap.evidence_id.committed_at \in boot .. clock
      BY <1>1 DEF Custody, VerifiedIsVouched
    <2>2. cap.evidence_id.committed_at = cap.issued_at
      BY <1>2 DEF Provenance, Issuance, CapabilitiesBacked
    <2> QED
      BY <2>1, <2>2
  <1>4. ASSUME NEW st \in Stores
        PROVE  ~Claimed(st, cap)
    <2> SUFFICES ASSUME cap \in claims[st] PROVE FALSE
      BY DEF Claimed
    <2>1. PICK s \in Sinks : AtHome(cap, s) /\ StoreOf[s] = st
      BY DEF ClaimsOfIssued
    <2>2. st = home
      BY <1>2, <2>1 DEF AtHome, SharedStores
    <2> QED
      BY <1>1, <2>2 DEF Claimed
  <1>5. /\ call'[t].at = "commit" /\ call'[t].cap = cap
        /\ \A u \in Callers \ {t} : call'[u] = call[u]
    BY <1>1 DEF Advance, TypeOK, CallStates
  <1> HIDE DEF cap, home
  <1>6. cap \in Usable
    BY <1>2, <1>3, <1>4 DEF Usable
  <1>7. Usable' = Usable \ {cap}
    <2>1. \A st \in Stores : \A other :
             other # cap => (other \in claims'[st] <=> other \in claims[st])
      BY <1>1, <1>2 DEF TypeOK
    <2>2. cap \in claims'[home]
      BY <1>1, <1>2 DEF TypeOK
    <2> QED
      BY <1>2, <2>1, <2>2 DEF Usable, Claimed
  <1>8. InHand' = InHand \cup {cap}
    BY <1>1, <1>5 DEF InHand
  <1>9. EffectLog' = EffectLog
    BY <1>1 DEF EffectLog
  <1> QED
    BY <1>6, <1>7, <1>8, <1>9 DEF Life!Consume, Usable, InHand, EffectLog

(* Reading the capabilities off a channel's records commutes with adding a *)
(* record.                                                                 *)
LEMMA CapsOfAppend ==
    ASSUME NEW s \in Seq(EffectRecords), NEW e \in EffectRecords
    PROVE  [i \in DOMAIN Append(s, e) |-> Append(s, e)[i].cap]
             = Append([i \in DOMAIN s |-> s[i].cap], e.cap)
  <1> DEFINE n == Len(s)
             caps == [i \in 1 .. n |-> s[i].cap]
  <1>1. n \in Nat /\ DOMAIN s = 1 .. n /\ \A i \in 1 .. n : s[i] \in EffectRecords
    OBVIOUS
  <1>2. /\ DOMAIN Append(s, e) = 1 .. n + 1 /\ Append(s, e)[n + 1] = e
        /\ \A i \in 1 .. n : Append(s, e)[i] = s[i]
    OBVIOUS
  <1>3. caps \in Seq(Capabilities) /\ Len(caps) = n
    BY <1>1 DEF EffectRecords
  <1>4. e.cap \in Capabilities
    BY DEF EffectRecords
  <1> HIDE DEF n
  <1>5. caps = [i \in DOMAIN s |-> s[i].cap] /\ \A i \in 1 .. n : caps[i] = s[i].cap
    BY <1>1
  <1> HIDE DEF caps
  <1>6. Append(caps, e.cap) = [i \in 1 .. n + 1 |-> IF i <= n THEN caps[i] ELSE e.cap]
    BY <1>1, <1>3, <1>4
  <1>7. ASSUME NEW i \in 1 .. n + 1
        PROVE  Append(s, e)[i].cap = IF i <= n THEN caps[i] ELSE e.cap
    BY <1>1, <1>2, <1>5
  <1> QED
    BY <1>2, <1>5, <1>6, <1>7

(* The effect uses up a capability that no other call holds. *)
LEMMA CommitIsTakeEffect ==
    ASSUME SharedStores, TypeOK, Custody, NEW t \in Callers, CommitEffect(t),
           UNCHANGED <<issued, boot>>
    PROVE  Life!TakeEffect
  <1> DEFINE cap == call[t].cap
             e == [cap |-> call[t].cap, sink |-> call[t].sink,
                   candidate_digest |-> DigestNow(call[t].cand), at |-> clock,
                   verified_at |-> call[t].now,
                   reference |-> Reference(ChannelOf[call[t].sink], DigestNow(call[t].cand))]
  <1>1. /\ call[t].at = "commit" /\ call[t] \in CallStates /\ UNCHANGED claims
        /\ call[t].sink \in Sinks
    BY CallTypes DEF CommitEffect, CallStates
  <1>2. PICK ch \in Channels :
            /\ ch = ChannelOf[call[t].sink]
            /\ effects[ch] \in Seq(EffectRecords)
            /\ effects' = [effects EXCEPT ![ch] = Append(@, e)]
    BY <1>1, SinkAssumption DEF TypeOK, CommitEffect
  <1>3. /\ call'[t].at = "receipt"
        /\ \A u \in Callers \ {t} : call'[u] = call[u]
    BY <1>1 DEF CommitEffect, TypeOK, CallStates
  <1>4. e.cap = cap
    OBVIOUS
  <1>5. e \in EffectRecords
    <2>1. /\ effects' \in [Channels -> Seq(EffectRecords)]
      BY CommitTyped
    <2>2. effects'[ch] = Append(effects[ch], e)
      BY <1>2 DEF TypeOK
    <2> HIDE DEF e
    <2>3. /\ Len(effects[ch]) \in Nat
          /\ effects'[ch][Len(effects[ch]) + 1] = e
          /\ DOMAIN effects'[ch] = 1 .. Len(effects[ch]) + 1
      BY <1>2, <2>2
    <2>4. effects'[ch] \in Seq(EffectRecords)
      BY <2>1
    <2> QED
      BY <2>3, <2>4, ElementOfSeq
  <1> HIDE DEF e
  <1>6. ASSUME NEW u \in Callers \ {t}, call[u].at = "commit"
        PROVE  call[u].cap # cap
    <2> SUFFICES ASSUME call[u].cap = cap PROVE FALSE
      OBVIOUS
    <2>1. /\ AtHome(cap, call[t].sink) /\ AtHome(cap, call[u].sink)
          /\ call[u].sink \in Sinks
      BY <1>1, <1>6, CallTypes DEF Custody, PresentedAtHome, CallStates
    <2>2. StoreOf[call[u].sink] = StoreOf[call[t].sink]
      BY <1>1, <2>1 DEF AtHome, SharedStores
    <2> QED
      BY <1>1, <1>6, <2>2 DEF Custody, HeldAlone, HoldsAt
  <1>7. cap \in InHand
    BY <1>1 DEF InHand
  <1> HIDE DEF cap
  <1>8. InHand' = InHand \ {cap}
    <2>1. \A u \in Callers : call'[u].at = "commit" <=> u # t /\ call[u].at = "commit"
      BY <1>3
    <2>2. InHand = {call[u].cap : u \in {k \in Callers : call[k].at = "commit"}}
      BY DEF InHand
    <2>3. InHand' = {call[u].cap : u \in {k \in Callers : k # t /\ call[k].at = "commit"}}
      BY <1>3, <2>1 DEF InHand
    <2>4. \A u \in Callers : call[u].at = "commit" /\ call[u].cap # cap => u # t
      BY DEF cap
    <2> QED
      BY <1>6, <2>2, <2>3, <2>4
  <1>9. Usable' = Usable
    BY <1>1 DEF Usable, Claimed
  <1>10. EffectLog' = [EffectLog EXCEPT ![ch] = Append(@, cap)]
    <2>1. \A d \in Channels \ {ch} : effects'[d] = effects[d]
      BY <1>2 DEF TypeOK
    <2>2. effects'[ch] = Append(effects[ch], e)
      BY <1>2 DEF TypeOK
    <2>3. EffectLog'[ch] = Append(EffectLog[ch], cap)
      <3>1. /\ EffectLog'[ch] = [i \in DOMAIN effects'[ch] |-> effects'[ch][i].cap]
            /\ EffectLog[ch] = [i \in DOMAIN effects[ch] |-> effects[ch][i].cap]
        BY <1>2 DEF EffectLog
      <3>2. [i \in DOMAIN Append(effects[ch], e) |-> Append(effects[ch], e)[i].cap]
              = Append([i \in DOMAIN effects[ch] |-> effects[ch][i].cap], e.cap)
        BY <1>2, <1>5, CapsOfAppend
      <3> QED
        BY <1>4, <2>2, <3>1, <3>2
    <2>4. \A d \in Channels \ {ch} : EffectLog'[d] = EffectLog[d]
      BY <2>1 DEF EffectLog
    <2>5. /\ EffectLog' = [d \in Channels |-> EffectLog'[d]]
          /\ DOMAIN EffectLog = Channels
      BY DEF EffectLog
    <2> HIDE DEF EffectLog
    <2> QED
      BY <2>3, <2>4, <2>5
  <1> QED
    BY <1>1, <1>7, <1>8, <1>9, <1>10 DEF Life!TakeEffect, Usable, InHand, EffectLog

(* An effect that fails lets go of its capability for good. *)
LEMMA FailIsVoid ==
    ASSUME TypeOK, NEW t \in Callers, FailEffect(t), UNCHANGED <<issued, boot>>
    PROVE  Life!Void
  <1>1. UNCHANGED <<claims, effects>> /\ \A u \in Callers \ {t} : call'[u] = call[u]
    BY DEF FailEffect, Finish, TypeOK
  <1>2. call'[t].at = "idle"
    BY DEF FailEffect, Finish, NoCall, TypeOK
  <1>3. InHand' \subseteq InHand
    BY <1>1, <1>2 DEF InHand
  <1>4. Usable' = Usable /\ EffectLog' = EffectLog
    BY <1>1 DEF Usable, Claimed, EffectLog
  <1> QED
    BY <1>3, <1>4 DEF Life!Void, Usable, InHand, EffectLog

(* A restart voids every capability there is. *)
LEMMA RestartIsVoid ==
    ASSUME TypeOK, Provenance, Restart
    PROVE  Life!Void
  <1>1. /\ UNCHANGED <<issued, effects>> /\ boot' = clock + 1
        /\ \A t \in Callers : call'[t].at = "idle"
    BY DEF Restart, NoCall
  <1>2. \A cap \in issued : ~(cap.issued_at >= clock + 1)
    <2>1. \A cap \in issued : cap.issued_at \in Nat /\ cap.issued_at <= clock
      BY DEF TypeOK, Capabilities, Provenance, Issuance, CapabilitiesBacked
    <2>2. clock \in Nat
      BY DEF TypeOK, WorkloadTypeOK
    <2> QED
      BY <2>1, <2>2
  <1>3. Usable' = {}
    BY <1>1, <1>2 DEF Usable
  <1>4. InHand' = {}
    BY <1>1 DEF InHand
  <1>5. EffectLog' = EffectLog
    BY <1>1 DEF EffectLog
  <1> QED
    BY <1>1, <1>3, <1>4, <1>5 DEF Life!Void, Usable, InHand, EffectLog

LEMMA AuthorizeIsLifeStep ==
    ASSUME TypeOK, Custody, Provenance, ClaimsOfIssued, Authorize
    PROVE  LifeStep
  <1>1. UNCHANGED <<claims, call, effects, boot>>
    BY DEF Authorize, sinkVars, processVars
  <1>2. PICK a \in Authorizers :
            \/ \E c \in Candidates, cost \in Costs : BeginAuthorize(a, c, cost)
            \/ \E c \in Candidates : RefuseAuthorize(a, c)
            \/ AuthorizeStep(a)
    BY DEF Authorize, AuthorityNext
  <1>3. CASE IssueCapability(a)
    BY <1>1, <1>3, IssueIsIssue DEF LifeStep
  <1>4. CASE ~IssueCapability(a)
    <2>1. UNCHANGED issued
      BY <1>2, <1>4 DEF BeginAuthorize, RefuseAuthorize, authorityVars, AuthorizeStep,
                        ReserveTransition, RefuseTransition, CommitEvidence, FailEvidence
    <2>2. InHand' = InHand
      BY <1>1 DEF InHand
    <2> QED
      BY <1>1, <2>1, <2>2, LifeStutters
  <1> QED
    BY <1>3, <1>4

LEMMA EffectuateIsLifeStep ==
    ASSUME SharedStores, TypeOK, Custody, Provenance, ClaimsOfIssued, Effectuate
    PROVE  LifeStep
  <1>1. UNCHANGED <<issued, boot>>
    BY DEF Effectuate, authorityVars, processVars
  <1>2. PICK t \in Callers : Present(t) \/ EffectuateStep(t)
    BY DEF Effectuate
  <1>3. ASSUME UNCHANGED <<claims, effects>>, \A u \in Callers \ {t} : call'[u] = call[u],
               call[t].at # "commit", call'[t].at # "commit"
        PROVE  LifeStep
    <2>1. InHand' = InHand
      <3>1. /\ \A u \in Callers : call'[u].at = "commit" <=> call[u].at = "commit"
            /\ \A u \in Callers : call[u].at = "commit" => call'[u] = call[u]
        BY <1>3
      <3> QED
        BY <3>1 DEF InHand
    <2> QED
      BY <1>1, <1>3, <2>1, LifeStutters
  <1>4. CASE Present(t)
    <2>1. CASE UNCHANGED <<claims, call, effects>>
      <3>1. InHand' = InHand
        BY <2>1 DEF InHand
      <3> QED
        BY <1>1, <2>1, <3>1, LifeStutters
    <2>2. ASSUME NEW s \in Sinks, NEW c \in Candidates, NEW cap \in issued, NEW proof,
                 BeginEffectuate(t, s, c, cap, proof)
          PROVE  LifeStep
      <3>1. /\ UNCHANGED <<claims, effects>> /\ \A u \in Callers \ {t} : call'[u] = call[u]
            /\ call[t].at = "idle" /\ call'[t].at = "evidence"
        BY <2>2 DEF BeginEffectuate, NoCall, TypeOK
      <3> QED
        BY <1>3, <3>1
    <2> QED
      BY <1>4, <2>1, <2>2 DEF Present, RefuseEffectuate, sinkVars
  <1>5. CASE VerifyEvidence(t) \/ VerifyTransition(t)
    <2>1. /\ UNCHANGED <<claims, effects>> /\ call[t].at \in {"evidence", "transition"}
          /\ Finish(t) \/ Advance(t, "transition") \/ Advance(t, "claim")
      BY <1>5 DEF VerifyEvidence, VerifyTransition
    <2>2. call'[t].at # "commit" /\ \A u \in Callers \ {t} : call'[u] = call[u]
      BY <2>1, CallTypes DEF Finish, NoCall, Advance, TypeOK, CallStates
    <2> QED
      BY <1>3, <2>1, <2>2
  <1>6. CASE RefuseClaim(t) \/ IssueReceipt(t) \/ FailReceipt(t)
    <2>1. /\ UNCHANGED <<claims, effects>> /\ call[t].at \in {"claim", "receipt"} /\ Finish(t)
      BY <1>6 DEF RefuseClaim, ClaimRaises, IssueReceipt, FailReceipt
    <2>2. call'[t].at # "commit" /\ \A u \in Callers \ {t} : call'[u] = call[u]
      BY <2>1 DEF Finish, NoCall, TypeOK
    <2> QED
      BY <1>3, <2>1, <2>2
  <1>7. CASE ClaimCapability(t)
    BY <1>1, <1>7, ClaimIsConsume DEF LifeStep
  <1>8. CASE CommitEffect(t)
    BY <1>1, <1>8, CommitIsTakeEffect DEF LifeStep
  <1>9. CASE FailEffect(t)
    BY <1>1, <1>9, FailIsVoid DEF LifeStep
  <1> QED
    BY <1>2, <1>4, <1>5, <1>6, <1>7, <1>8, <1>9 DEF EffectuateStep

LEMMA NextIsLifeStep ==
    ASSUME SharedStores
    PROVE  TypeOK /\ Custody /\ Provenance /\ ClaimsOfIssued /\ [Next]_vars => LifeStep
  <1> SUFFICES ASSUME TypeOK, Custody, Provenance, ClaimsOfIssued, [Next]_vars
               PROVE  LifeStep
    OBVIOUS
  <1>1. CASE MakeProof \/ Reconfigure \/ Environment \/ UNCHANGED vars
    <2>1. UNCHANGED <<issued, claims, call, effects, boot>>
      BY <1>1 DEF MakeProof, Reconfigure, Environment, vars, authorityVars, sinkVars, processVars
    <2>2. InHand' = InHand
      BY <2>1 DEF InHand
    <2> QED
      BY <2>1, <2>2, LifeStutters
  <1>2. CASE Restart
    BY <1>2, RestartIsVoid DEF LifeStep
  <1> QED
    BY <1>1, <1>2, AuthorizeIsLifeStep, EffectuateIsLifeStep DEF Next

(* The system keeps the promise about a capability, for any number of      *)
(* threads, sinks, stores and restarts, where sinks of one identity share  *)
(* a store: it is issued once and consumed at most once, takes effect only *)
(* out of the hands of the call that consumed it, and once its effect has  *)
(* failed or its process is gone it is never usable again                  *)
(* (authority.py:48-112, sink.py:140-158, state.py:122-126).               *)
THEOREM ImplementsCapabilityLifeCorrect ==
    ASSUME SharedStores
    PROVE  Spec => ImplementsCapabilityLife
  <1>1. Init => Life!LifeInit
    <2> SUFFICES ASSUME Init PROVE Life!LifeInit
      OBVIOUS
    <2>1. /\ issued = {} /\ \A t \in Callers : call[t].at = "idle"
          /\ effects = [ch \in Channels |-> <<>>]
      BY DEF Init, AuthorityInit, SinkInit, NoCall
    <2>2. EffectLog = [ch \in Channels |-> <<>>]
      <3>1. \A ch \in Channels : EffectLog[ch] = <<>>
        BY <2>1 DEF EffectLog
      <3>2. EffectLog = [ch \in Channels |-> EffectLog[ch]]
        BY DEF EffectLog
      <3> QED
        BY <3>1, <3>2
    <2>3. Usable = {} /\ InHand = {}
      BY <2>1 DEF Usable, InHand
    <2> QED
      BY <2>1, <2>2, <2>3 DEF Life!LifeInit, Usable, InHand, EffectLog
  <1>2. TypeOK /\ Custody /\ Provenance /\ ClaimsOfIssued /\ [Next]_vars
           => [Life!LifeNext]_(Life!lifeVars)
    BY NextIsLifeStep, LifeStepIsStep
  <1>3. Spec => Life!LifeSpec
    BY <1>1, <1>2, TypeCorrect, CustodyCorrect, ProvenanceCorrect, ClaimsOfIssuedCorrect, PTL
    DEF Spec, Life!LifeSpec
  <1> QED
    BY <1>3 DEF ImplementsCapabilityLife

-----------------------------------------------------------------------------
(* The books of a process whose sources are never configured: every source *)
(* keeps its ledger and its account, and every transition on record was    *)
(* granted to its source at a price.                                       *)
Priced == \A s \in Sources : \A t \in granted[s] : t.budget_before - t.budget_after \in Nat

Paid ==
    /\ Ledger /\ Accounted /\ NoOverdraft /\ Priced
    /\ configured = NewConfigured
    /\ \A t \in transitions : t \in granted[t.source]

LEMMA NewBooks == StateInit => Paid
  <1>1. StateInit => NoOverdraft /\ Priced
    BY DEF StateInit, NoOverdraft, Priced
  <1> QED
    BY <1>1, LedgerInit, AccountedInit DEF StateInit, Paid

LEMMA GrantKeepsPaid ==
    ASSUME StateTypeOK, Paid,
           NEW c \in Candidates, NEW cost \in Costs, NEW d \in Digests,
           TransitionForAuthorization(c, cost, d)
    PROVE  Paid'
  <1> DEFINE t == TransitionCore(c, cost, d)
  <1>1. Ledger' /\ Accounted' /\ NoOverdraft'
    BY GrantKeepsLedger, GrantKeepsBalance, GrantKeepsPositive DEF Paid
  <1>2. /\ t \in TransitionIds
        /\ transitions' = transitions \cup {t}
        /\ granted' = [granted EXCEPT ![t.source] = @ \cup {t}]
        /\ configured' = configured
    BY GrantFacts
  <1>3. t.budget_before - t.budget_after \in Nat
    <2>1. Act[c].source \in Sources /\ cost \in Int
      BY ActAssumption, QuotaAssumption
    <2>2. sources[Act[c].source] \in SourceStates
      BY <2>1 DEF StateTypeOK
    <2>3. cost > 0
      BY DEF TransitionForAuthorization, CanReserve
    <2> QED
      BY <2>1, <2>2, <2>3 DEF TransitionCore, SourceStates
  <1> HIDE DEF t
  <1>4. t.source \in Sources
    BY <1>2 DEF TransitionIds
  <1>5. Priced'
    BY <1>2, <1>3, <1>4 DEF Paid, Priced, StateTypeOK
  <1>6. \A u \in transitions' : u \in granted'[u.source]
    <2>1. ASSUME NEW u \in transitions
          PROVE  u.source \in Sources /\ u \in granted[u.source]
      BY DEF Paid, StateTypeOK, TransitionIds
    <2> QED
      BY <1>2, <1>4, <2>1 DEF StateTypeOK
  <1> QED
    BY <1>1, <1>2, <1>5, <1>6 DEF Paid

LEMMA NextKeepsPaid ==
    ASSUME Configurations = {}, TypeOK, Paid, [Next]_vars
    PROVE  Paid'
  <1>1. CASE UNCHANGED stateVars
    BY <1>1 DEF stateVars, Paid, Ledger, Accounted, NoOverdraft, Priced
  <1>2. CASE Authorize
    <2>1. PICK a \in Authorizers :
              \/ \E c \in Candidates, cost \in Costs : BeginAuthorize(a, c, cost)
              \/ \E c \in Candidates : RefuseAuthorize(a, c)
              \/ AuthorizeStep(a)
      BY <1>2 DEF Authorize, AuthorityNext
    <2>2. CASE ReserveTransition(a)
      <3> DEFINE k == authCall[a]
      <3>1. /\ k.at = "reserve"
            /\ TransitionForAuthorization(k.cand, k.cost, DigestNow(k.cand))
        BY <2>2 DEF ReserveTransition
      <3>2. k.cand \in Candidates /\ k.cost \in Costs /\ DigestNow(k.cand) \in Digests
        BY <3>1, AuthCallTypes, DigestType
      <3> QED
        BY <3>1, <3>2, GrantKeepsPaid DEF TypeOK
    <2> QED
      BY <1>1, <2>1, <2>2
      DEF AuthorizeStep, BeginAuthorize, RefuseAuthorize, RefuseTransition, CommitEvidence,
          FailEvidence, IssueCapability
  <1>3. CASE Restart
    <2>1. StateInit'
      BY <1>3 DEF Restart, StateLost, StateInit
    <2>2. StateInit' => Paid'
      BY NewBooks, PTL
    <2> QED
      BY <2>1, <2>2
  <1>4. CASE Effectuate \/ MakeProof \/ Environment \/ UNCHANGED vars
    BY <1>1, <1>4 DEF Effectuate, MakeProof, Environment, vars
  <1>5. ~Reconfigure
    BY DEF Reconfigure
  <1> QED
    BY <1>2, <1>3, <1>4, <1>5 DEF Next

(* What the running process did for a source, each effect paid for by its  *)
(* own transition.                                                         *)
LEMMA EffectsPaid ==
    ASSUME TypeOK, Paid, Provenance, AtMostOneEffect, DefaultQuota >= 0, DefaultBudget >= 0
    PROVE  EffectsWithinQuota
  <1> SUFFICES ASSUME NEW s \in Sources
               PROVE  LET mine == {o \in Occurrences :
                                      /\ EffectAt(o).at >= boot
                                      /\ EffectAt(o).cap.transition_id.source = s}
                          cost(o) == EffectAt(o).cap.transition_id.budget_before
                                       - EffectAt(o).cap.transition_id.budget_after
                      IN  /\ Cardinality(mine) <= DefaultQuota
                          /\ FoldFunction(LAMBDA a, b : a + b, 0, [o \in mine |-> cost(o)])
                                <= DefaultBudget
    BY DEF EffectsWithinQuota
  <1> DEFINE mine == {o \in Occurrences : /\ EffectAt(o).at >= boot
                                          /\ EffectAt(o).cap.transition_id.source = s}
             paidBy == [o \in mine |-> EffectAt(o).cap.transition_id]
             costs == [o \in mine |-> EffectAt(o).cap.transition_id.budget_before
                                        - EffectAt(o).cap.transition_id.budget_after]
             f == Charge(granted[s])
  <1>1. ASSUME NEW o \in mine
        PROVE  /\ EffectAt(o).cap \in issued /\ Recent(EffectAt(o).cap)
               /\ EffectAt(o).cap.transition_id \in granted[s]
    <2>1. EffectAt(o).cap \in issued /\ Recent(EffectAt(o).cap)
      BY DEF Provenance, OnlyIssuedUsed
    <2>2. EffectAt(o).cap.transition_id \in transitions
      BY <2>1 DEF Provenance, Issuance, CapabilitiesBacked
    <2> QED
      BY <2>1, <2>2 DEF Paid
  <1>2. \A o1, o2 \in mine : paidBy[o1] = paidBy[o2] => o1 = o2
    BY <1>1 DEF AtMostOneEffect, Provenance, Issuance, OneCapabilityPerTransition
  <1>3. paidBy \in [mine -> granted[s]]
    BY <1>1
  <1>4. /\ \A t \in granted[s] : f[t] = t.budget_before - t.budget_after
        /\ \A t \in granted[s] : f[t] \in Nat
    BY DEF Charge, Paid, Priced
  <1>5. \A o \in mine : costs[o] = f[paidBy[o]]
    BY <1>3, <1>4
  <1>6. DOMAIN costs = mine
    OBVIOUS
  <1>7. /\ IsFiniteSet(granted[s])
        /\ sources[s].quota + Cardinality(granted[s]) = DefaultQuota
        /\ sources[s].budget + Total(f, granted[s]) = DefaultBudget
        /\ granted[s] # {} => sources[s].quota >= 0 /\ sources[s].budget >= 0
        /\ sources[s].quota \in Int /\ sources[s].budget \in Int
    <2>1. /\ configured[s].quota = DefaultQuota /\ configured[s].budget = DefaultBudget
      BY DEF Paid, NewConfigured
    <2>2. sources[s] \in SourceStates
      BY DEF TypeOK, StateTypeOK
    <2> QED
      BY <2>1, <2>2 DEF Paid, Ledger, Accounted, NoOverdraft, SourceStates
  <1> HIDE DEF mine, paidBy, costs, f
  <1>8. paidBy \in Injection(mine, granted[s])
    BY <1>2, <1>3 DEF Injection, IsInjective
  <1>9. IsFiniteSet(mine) /\ Cardinality(mine) <= Cardinality(granted[s])
    BY <1>7, <1>8, FS_Injection
  <1>10. /\ Cardinality(mine) \in Nat /\ Cardinality(granted[s]) \in Nat
         /\ granted[s] = {} => Cardinality(granted[s]) = 0
    BY <1>7, <1>9, FS_CardinalityType, FS_EmptySet
  <1>11. Cardinality(mine) <= DefaultQuota
    BY <1>7, <1>9, <1>10, QuotaAssumption
  <1>12. Total(costs, mine) <= Total(f, granted[s])
    <2> DEFINE used == {paidBy[o] : o \in mine}
    <2>1. used \in SUBSET granted[s]
      BY <1>3
    <2>2. \A t \in granted[s] : f[t] \in Int
      BY <1>4
    <2>3. Total(costs, mine) = Total(f, used)
      BY <1>5, <1>7, <1>8, <1>9, <2>2, TotalRenamed
    <2> HIDE DEF used
    <2>4. Total(f, used) <= Total(f, granted[s])
      BY <1>4, <1>7, <2>1, TotalGrows
    <2> QED
      BY <2>3, <2>4
  <1>13. /\ Total(costs, mine) \in Int /\ Total(f, granted[s]) \in Int
         /\ granted[s] = {} => Total(f, granted[s]) = 0
    <2>1. /\ \A t \in granted[s] : f[t] \in Int
          /\ \A o \in mine : costs[o] \in Int
      BY <1>3, <1>4, <1>5
    <2> QED
      BY <1>7, <1>9, <2>1, TotalTyped, TotalOfNone
  <1>14. Total(costs, mine) <= DefaultBudget
    BY <1>7, <1>12, <1>13, QuotaAssumption
  <1>15. FoldFunction(LAMBDA a, b : a + b, 0, costs) = Total(costs, mine)
    BY <1>6, FoldIsTotal
  <1> QED
    BY <1>11, <1>14, <1>15 DEF mine, costs

(* The effects of the running process on behalf of a source stay within    *)
(* the quota and the budget the source started with, where no source is    *)
(* configured again, none starts below zero and sinks of one identity      *)
(* share a store (state.py:57-62, authority.py:48, sink.py:142-153): each  *)
(* effect has a transition of its own among those granted to the source.   *)
THEOREM EffectsWithinQuotaCorrect ==
    ASSUME SharedStores, Configurations = {}, DefaultQuota >= 0, DefaultBudget >= 0
    PROVE  Spec => []EffectsWithinQuota
  <1>1. Init => TypeOK /\ Paid
    BY InitTyped, NewBooks DEF Init
  <1>2. TypeOK /\ Paid /\ [Next]_vars => (TypeOK /\ Paid)'
    BY NextTyped, NextKeepsPaid
  <1>3. TypeOK /\ Paid /\ Provenance /\ AtMostOneEffect => EffectsWithinQuota
    BY EffectsPaid
  <1>4. Spec => []AtMostOneEffect
    BY AtMostOneEffectCorrect
  <1> QED
    BY <1>1, <1>2, <1>3, <1>4, ProvenanceCorrect, PTL DEF Spec
=============================================================================
