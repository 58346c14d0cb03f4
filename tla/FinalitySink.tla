---------------------------- MODULE FinalitySink ----------------------------
(***************************************************************************)
(* FinalitySink.effectuate with the verify it calls (sink.py), the guarded *)
(* effector behind it (effectors.py) and the presentation proofs of the    *)
(* strict profile (pop.py).  effectuate holds no lock, so its calls on one *)
(* sink or on several interleave between these steps:                      *)
(*                                                                         *)
(*   begin       clock, local bindings, lifetime, proof, candidate digest  *)
(*                                                       sink.py:60-104    *)
(*   evidence    descriptor rebuilt, evidence fetched    sink.py:107-131   *)
(*   transition  protected state asked                   sink.py:132-134   *)
(*   claim       capability consumed                     sink.py:142-148   *)
(*   commit      the effect itself                       sink.py:150-158   *)
(*   receipt     receipt built, signed, returned         sink.py:160-189   *)
(*                                                                         *)
(* Any exception ends the call where it stands.  The clock is read once,   *)
(* at the beginning.                                                       *)
(***************************************************************************)
EXTENDS ProtectedState, EvidenceStore, ConsumptionStore, Workload

CONSTANTS
    Callers,            \* threads inside effectuate
    Sinks,
    Context,            \* [Sinks -> SinkContext]
    StoreOf,            \* [Sinks -> Stores], the configured consumption_store
    ChannelOf,          \* [Sinks -> Channels], the effector behind effect_handle
    Channels,
    Offset,             \* [Sinks -> Int], how far the sink's clock is ahead
    MaxClockSkew,
    CanSignReceipts,    \* the sinks whose receipt authenticator holds a signing key
    Strict,             \* the sinks that require a presentation proof
    Keys,               \* presenter keys
    RegisteredKeys,     \* those in the sinks' PresenterVerifierRegistry
    ProofFreshness,
    MaxProofs,          \* bound: how many proofs presenters make
    ProofTimes          \* bound: the instants they date them with

ASSUME SinkAssumption ==
    /\ StoreOf \in [Sinks -> Stores]
    /\ ChannelOf \in [Sinks -> Channels]
    /\ Offset \in [Sinks -> Int]
    /\ CanSignReceipts \subseteq Sinks
    /\ Strict \subseteq Sinks
    /\ RegisteredKeys \subseteq Keys
    /\ MaxClockSkew \in Nat /\ ProofFreshness \in Nat /\ MaxProofs \in Nat
    /\ ProofTimes \subseteq Int

VARIABLES
    proofs,             \* the presentation proofs presenters have signed
    call,               \* each caller's effectuate call: its step and its locals
    effects,            \* per channel, the effects the outside world has seen
    earlier,            \* per channel, how many of them earlier processes caused
    receipts            \* the receipts returned

sinkVars == <<call, effects, receipts>>

(* What Presenter.prove can be asked to sign with one of keys: it takes    *)
(* every field as an argument, so a proof may be for one capability and    *)
(* another candidate, sink or nonce, and dated in the past or the future.  *)
ProofStatements(caps, times, keys) ==
    [capability_id    : caps,
     candidate_digest : Digests,
     sink_id          : {Context[s].sink_id : s \in Sinks},
     boundary_id      : {Context[s].boundary_id : s \in Sinks},
     nonce            : Nonces,
     presented_at     : times,
     presenter        : keys]

(* No proof, None in the code, is not a proof.                             *)
ASSUME NoProofAssumption == Absent \notin ProofStatements(Capabilities, Int, Keys)

NoCall == [at |-> "idle"]

References == {Absent} \cup (Channels \X Digests \X Nat)

CallStates ==
    [at : {"evidence", "transition", "claim", "commit", "receipt"},
     sink : Sinks, cand : Candidates, cap : Capabilities, now : Int, reference : References]

(* at and verified_at are history: when it happened, and what the clock    *)
(* read when the call was verified.                                        *)
EffectRecords ==
    [cap : Capabilities, sink : Sinks, candidate_digest : Digests, at : Nat,
     verified_at : Int, reference : References]

SinkInit ==
    /\ proofs = {}
    /\ call = [t \in Callers |-> NoCall]
    /\ effects = [ch \in Channels |-> <<>>]
    /\ earlier = [ch \in Channels |-> 0]
    /\ receipts = {}

Finish(t) == call' = [call EXCEPT ![t] = NoCall]

Advance(t, step) == call' = [call EXCEPT ![t].at = step]

SinkClock(s) == clock + Offset[s]

-----------------------------------------------------------------------------
Prove(k, cap) ==
    /\ Cardinality(proofs) < MaxProofs
    /\ \E proof \in ProofStatements({cap}, ProofTimes, {k}) : proofs' = proofs \cup {proof}

(* abs(now - presented_at) within the freshness, before and after.         *)
ProofFresh(proof, now) == now - proof.presented_at \in -ProofFreshness .. ProofFreshness

(* The require_presentation_proof block of verify.  The fault: the proof   *)
(* may be signed by any registered presenter.                              *)
ProofByAnyone(s, c, cap, proof, now) ==
    /\ proof # Absent
    /\ proof.capability_id = cap
    /\ proof.candidate_digest = DigestNow(c)
    /\ proof.sink_id = Context[s].sink_id
    /\ proof.boundary_id = Context[s].boundary_id
    /\ proof.nonce = Act[c].nonce
    /\ ProofFresh(proof, now)
    /\ proof.presenter \in RegisteredKeys

ProofAccepted(s, c, cap, proof, now) ==
    /\ proof # Absent
    /\ proof.presenter = Act[c].presenter
    /\ proof.capability_id = cap
    /\ proof.candidate_digest = DigestNow(c)
    /\ proof.sink_id = Context[s].sink_id
    /\ proof.boundary_id = Context[s].boundary_id
    /\ proof.nonce = Act[c].nonce
    /\ ProofFresh(proof, now)
    /\ proof.presenter \in RegisteredKeys

(* verify, up to the first look outside the sink. *)
BindingsMatch(s, c, cap) ==
    /\ Act[c].status = "NON_EFFECTIVE"
    /\ Act[c].effect_class = Context[s].effect_class
    /\ {Act[c].sink_id, cap.sink_id} = {Context[s].sink_id}
    /\ {Act[c].boundary_id, cap.boundary_id} = {Context[s].boundary_id}
    /\ {Act[c].policy_epoch, cap.policy_epoch} = {Context[s].policy_epoch}
    /\ Act[c].scope = cap.scope
    /\ Range(cap.scope) \subseteq Context[s].scopes
    /\ cap.nonce = Act[c].nonce

(* The fault: the last instant of the lifetime is taken to be past it. *)
WithinLifetimeExclusive(c, cap, now) ==
    /\ now >= cap.issued_at - MaxClockSkew
    /\ now < cap.expires_at
    /\ cap.expires_at <= StaleAt(c)

WithinLifetime(c, cap, now) ==
    /\ now >= cap.issued_at - MaxClockSkew
    /\ now <= cap.expires_at
    /\ cap.expires_at <= StaleAt(c)

(* The fault: the candidate's own digest is not compared. *)
LocallyVerifiedByDescriptor(s, c, cap, proof, now) ==
    /\ BindingsMatch(s, c, cap)
    /\ WithinLifetime(c, cap, now)
    /\ s \in Strict => ProofAccepted(s, c, cap, proof, now)

LocallyVerified(s, c, cap, proof, now) ==
    /\ BindingsMatch(s, c, cap)
    /\ WithinLifetime(c, cap, now)
    /\ s \in Strict => ProofAccepted(s, c, cap, proof, now)
    /\ cap.candidate_digest = DigestNow(c)

(* The evidence the capability names is there and agrees with it. *)
EvidenceVerified(cap, descriptor) ==
    LET e == cap.evidence_id
    IN  /\ cap.descriptor_digest = descriptor
        /\ Committed(e)
        /\ e.decision = "ALLOW"
        /\ e.candidate_digest = cap.candidate_digest
        /\ e.descriptor_digest = cap.descriptor_digest
        /\ e.transition_id = cap.transition_id
        /\ e.policy_epoch = cap.policy_epoch

-----------------------------------------------------------------------------
BeginEffectuate(t, s, c, cap, proof) ==
    /\ call[t] = NoCall
    /\ LocallyVerified(s, c, cap, proof, SinkClock(s))
    /\ call' = [call EXCEPT ![t] =
          [at |-> "evidence", sink |-> s, cand |-> c, cap |-> cap, now |-> SinkClock(s),
           reference |-> Absent]]
    /\ UNCHANGED <<claims, effects, receipts>>

(* verify raises before it looks outside the sink. *)
RefuseEffectuate(t, s, c, cap, proof) ==
    /\ call[t] = NoCall
    /\ ~LocallyVerified(s, c, cap, proof, SinkClock(s))
    /\ UNCHANGED <<claims, sinkVars>>

LocalDescriptor(k) ==
    Hcad(k.cand, payload[k.cand], Context[k.sink].sink_id, Context[k.sink].boundary_id)

VerifyEvidence(t) ==
    /\ call[t].at = "evidence"
    /\ IF EvidenceVerified(call[t].cap, LocalDescriptor(call[t]))
       THEN Advance(t, "transition")
       ELSE Finish(t)
    /\ UNCHANGED <<claims, effects, receipts>>

VerifyTransition(t) ==
    /\ call[t].at = "transition"
    /\ IF TransitionVerified(call[t].cap.transition_id, call[t].cand)
       THEN Advance(t, "claim")
       ELSE Finish(t)
    /\ UNCHANGED <<claims, effects, receipts>>

ClaimCapability(t) ==
    /\ call[t].at = "claim"
    /\ Claim(StoreOf[call[t].sink], call[t].cap)
    /\ Advance(t, "commit")
    /\ UNCHANGED <<effects, receipts>>

(* The fault: ReplayDetected is caught and the effect goes ahead. *)
ProceedOnReplay(t) ==
    /\ call[t].at = "claim"
    /\ ClaimRaises(StoreOf[call[t].sink], call[t].cap)
    /\ Advance(t, "commit")
    /\ UNCHANGED <<effects, receipts>>

RefuseClaim(t) ==
    /\ call[t].at = "claim"
    /\ ClaimRaises(StoreOf[call[t].sink], call[t].cap)
    /\ Finish(t)
    /\ UNCHANGED <<effects, receipts>>

(* The effector's list lives in its process, so its length is what this    *)
(* process has added.                                                      *)
Reference(ch, digest) == <<ch, digest, Len(effects[ch]) - earlier[ch]>>

(* effect_handle.commit: the effector hashes the candidate once more and   *)
(* appends its record under its own lock.                                  *)
CommitEffect(t) ==
    LET k == call[t]
        ch == ChannelOf[k.sink]
        ref == Reference(ch, DigestNow(k.cand))
    IN  /\ k.at = "commit"
        /\ effects' = [effects EXCEPT ![ch] = Append(@,
              [cap |-> k.cap, sink |-> k.sink, candidate_digest |-> DigestNow(k.cand),
               at |-> clock, verified_at |-> k.now, reference |-> ref])]
        /\ call' = [call EXCEPT ![t].at = "receipt", ![t].reference = ref]
        /\ UNCHANGED <<claims, receipts>>

(* The effector raises: EffectDenied, and the capability stays consumed.   *)
(* The fault: the claim is taken back so that the caller can retry.        *)
FailAndUnclaim(t) ==
    /\ call[t].at = "commit"
    /\ claims' = [claims EXCEPT ![StoreOf[call[t].sink]] = @ \ {call[t].cap}]
    /\ Finish(t)
    /\ UNCHANGED <<effects, receipts>>

FailEffect(t) ==
    /\ call[t].at = "commit"
    /\ Finish(t)
    /\ UNCHANGED <<claims, effects, receipts>>

(* The fault: the receipt refers to the channel's latest effect, not to    *)
(* the record that commit returned.                                        *)
ReceiptForLatest(t) ==
    LET k == call[t]
        ch == ChannelOf[k.sink]
    IN  /\ k.at = "receipt"
        /\ k.sink \in CanSignReceipts
        /\ receipts' = receipts \cup
              {[capability_id    |-> k.cap,
                candidate_digest |-> DigestNow(k.cand),
                transition_id    |-> k.cap.transition_id,
                committed_at     |-> k.now,
                effect_reference |-> effects[ch][Len(effects[ch])].reference]}
        /\ Finish(t)
        /\ UNCHANGED <<claims, effects>>

IssueReceipt(t) ==
    /\ call[t].at = "receipt"
    /\ call[t].sink \in CanSignReceipts
    /\ receipts' = receipts \cup
          {[capability_id    |-> call[t].cap,
            candidate_digest |-> DigestNow(call[t].cand),
            transition_id    |-> call[t].cap.transition_id,
            committed_at     |-> call[t].now,
            effect_reference |-> call[t].reference]}
    /\ Finish(t)
    /\ UNCHANGED <<claims, effects>>

(* An authenticator without a private key cannot sign. *)
FailReceipt(t) ==
    /\ call[t].at = "receipt"
    /\ call[t].sink \notin CanSignReceipts
    /\ Finish(t)
    /\ UNCHANGED <<claims, effects, receipts>>

EffectuateStep(t) ==
    \/ VerifyEvidence(t) \/ VerifyTransition(t)
    \/ ClaimCapability(t) \/ RefuseClaim(t)
    \/ CommitEffect(t) \/ FailEffect(t)
    \/ IssueReceipt(t) \/ FailReceipt(t)
=============================================================================
