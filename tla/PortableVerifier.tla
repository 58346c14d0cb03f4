--------------------------- MODULE PortableVerifier ---------------------------
(***************************************************************************)
(* The Finality Sink's verification done again outside the process, from a *)
(* case file, by the Go and Node programs (go/cmd/finalityverify/main.go,  *)
(* node/finality_verify.mjs: the same checks in the same order).  The file *)
(* is what vectors/generate_finality_case.py exports: a capability with    *)
(* its candidate, descriptor, transition and evidence, and a sink context. *)
(* They canonicalise in the portable profile, which rejects integers       *)
(* beyond MaxSafeInteger; they look up nothing and read no clock.          *)
(***************************************************************************)
EXTENDS Finality

CONSTANT MaxSafeInteger     \* 2^53 - 1

ASSUME PortableAssumption == MaxSafeInteger \in Nat

(* The case file for a capability, with any candidate and any sink.        *)
CaseFile(s, c, cap) ==
    [candidate           |-> c,
     hcad                |-> Hcad(c, payload[c], Act[c].sink_id, Act[c].boundary_id),
     state_transition    |-> cap.transition_id,
     validation_evidence |-> cap.evidence_id,
     capability          |-> cap,
     sink_context        |-> Context[s]]

(* What the canonicalisers meet in the five records they encode. *)
IntegersIn(d) ==
    LET c == Act[d.candidate]
        t == d.state_transition
    IN  {c.policy_epoch, c.issued_at, c.freshness,
         t.before_version, t.after_version, t.quota_before, t.quota_after,
         t.budget_before, t.budget_after,
         d.validation_evidence.policy_epoch, d.validation_evidence.committed_at,
         d.capability.policy_epoch, d.capability.issued_at, d.capability.expires_at}

SafeIntegers(d) == IntegersIn(d) \subseteq -MaxSafeInteger .. MaxSafeInteger

(* main.go:88-105, finality_verify.mjs:12-21. *)
CandidateHolds(d) ==
    LET rebuilt == Hcad(d.candidate, payload[d.candidate],
                        d.sink_context.sink_id, d.sink_context.boundary_id)
    IN  /\ Act[d.candidate].status = "NON_EFFECTIVE"
        /\ {d.capability.descriptor_digest, d.validation_evidence.descriptor_digest, d.hcad}
             = {rebuilt}
        /\ {d.capability.candidate_digest, d.validation_evidence.candidate_digest}
             = {DigestNow(d.candidate)}

(* main.go:106-112, finality_verify.mjs:23-28. *)
TransitionHolds(d) ==
    LET t == d.state_transition
    IN  /\ [t EXCEPT !.candidate_digest = DigestNow(d.candidate)] = t
        /\ t.after_version = t.before_version + 1
        /\ t.quota_after = t.quota_before - 1
        /\ t.budget_after < t.budget_before
        /\ {d.capability.transition_id, d.validation_evidence.transition_id} = {t}

(* The fault: a capability may not last as long as its candidate.          *)
EndsBeforeCandidate(d) == d.capability.expires_at < StaleAt(d.candidate)

EndsWithCandidate(d) == d.capability.expires_at <= StaleAt(d.candidate)

(* main.go:113-151, finality_verify.mjs:30-42. *)
CapabilityHolds(d) ==
    LET c == Act[d.candidate]
        cap == d.capability
        ctx == d.sink_context
    IN  /\ d.validation_evidence.decision = "ALLOW"
        /\ cap.sink_id = ctx.sink_id
        /\ cap.boundary_id = ctx.boundary_id
        /\ cap.policy_epoch = ctx.policy_epoch
        /\ cap.nonce = c.nonce
        /\ cap.scope = c.scope
        /\ Range(cap.scope) \subseteq ctx.scopes
        /\ c.effect_class = ctx.effect_class
        /\ EndsWithCandidate(d)

PortablyVerified(d) ==
    /\ SafeIntegers(d)
    /\ CandidateHolds(d)
    /\ TransitionHolds(d)
    /\ CapabilityHolds(d)

(* What the sink itself demands of a capability, its lifetime apart.       *)
Admissible(s, c, cap) ==
    /\ BindingsMatch(s, c, cap)
    /\ cap.expires_at <= StaleAt(c)
    /\ cap.candidate_digest = DigestNow(c)
    /\ EvidenceVerified(cap, Hcad(c, payload[c], Context[s].sink_id, Context[s].boundary_id))
    /\ TransitionVerified(cap.transition_id, c)

(* Three implementations, one verdict: of a capability of the running      *)
(* process, with whichever candidate and at whichever sink, the portable   *)
(* verifiers accept the case file exactly when the sink would accept the   *)
(* capability within its lifetime and all its integers are portable.  They *)
(* ask different questions: the sink consults its evidence store and the   *)
(* protected state, the verifiers recompute every id                       *)
(* (sink.py:59-134, main.go:82-151, finality_verify.mjs:10-42).            *)
VerifiersAgree ==
    \A cap \in issued, s \in Sinks, c \in Candidates :
        cap.issued_at >= boot =>
            LET d == CaseFile(s, c, cap)
            IN  PortablyVerified(d) <=> SafeIntegers(d) /\ Admissible(s, c, cap)
=============================================================================
