------------------------------- MODULE Finality -------------------------------
(***************************************************************************)
(* The whole in-process reference: one authority, its protected state and  *)
(* evidence store, the sinks with their consumption stores and effectors,  *)
(* and the callers that carry capabilities from the one to the others.     *)
(* Callers hold every capability the authority ever returned and present   *)
(* it with any candidate at any sink, as often as they like; they cannot   *)
(* make or alter one, which is what the authority's signature is for.      *)
(*                                                                         *)
(* Restart ends the process and starts it again over the same SQLite       *)
(* files.  What lived in Python objects is gone: protected state,          *)
(* evidence, in-memory claims and every call.  Capabilities, proofs and    *)
(* receipts were handed out, and effects happened outside, so they stay.   *)
(***************************************************************************)
EXTENDS Authority, FinalitySink

CONSTANT RestartTimes   \* bound: the clock values at which the process may end

VARIABLE boot           \* the clock at which the running process started

processVars == <<boot, earlier>>

vars == <<stateVars, evidence, workloadVars, authorityVars, claims, proofs, sinkVars, processVars>>

Init ==
    /\ StateInit /\ EvidenceInit /\ WorkloadInit /\ AuthorityInit /\ ClaimsInit /\ SinkInit
    /\ boot = 0

-----------------------------------------------------------------------------
Authorize ==
    /\ AuthorityNext
    /\ UNCHANGED <<workloadVars, claims, proofs, sinkVars, processVars>>

Present(t) ==
    \E s \in Sinks, c \in Candidates, cap \in issued, proof \in proofs \cup {Absent} :
        \/ BeginEffectuate(t, s, c, cap, proof)
        \/ RefuseEffectuate(t, s, c, cap, proof)

Effectuate ==
    /\ \E t \in Callers : Present(t) \/ EffectuateStep(t)
    /\ UNCHANGED <<stateVars, evidence, workloadVars, authorityVars, proofs, processVars>>

MakeProof ==
    /\ \E k \in Keys, cap \in issued : Prove(k, cap)
    /\ UNCHANGED <<stateVars, evidence, workloadVars, authorityVars, claims, sinkVars, processVars>>

Reconfigure ==
    /\ \E s \in Sources, q \in Configurations : ConfigureSource(s, q)
    /\ UNCHANGED <<evidence, workloadVars, authorityVars, claims, proofs, sinkVars, processVars>>

Environment ==
    /\ Tick \/ \E c \in Candidates, p \in Payloads : MutatePayload(c, p)
    /\ UNCHANGED <<stateVars, evidence, authorityVars, claims, proofs, sinkVars, processVars>>

Restart ==
    /\ clock \in RestartTimes
    /\ Tick
    /\ boot' = clock + 1
    /\ earlier' = [ch \in Channels |-> Len(effects[ch])]
    /\ StateLost /\ EvidenceLost
    /\ authCall' = [a \in Authorizers |-> Idle]
    /\ Reopen(Stores)
    /\ call' = [t \in Callers |-> NoCall]
    /\ UNCHANGED <<issued, proofs, effects, receipts>>

Next ==
    \/ Authorize \/ Effectuate \/ MakeProof \/ Reconfigure
    \/ Environment \/ Restart

Spec == Init /\ [][Next]_vars

(* A thread inside authorize or effectuate keeps running: no step of       *)
(* either waits for another thread for longer than a lock's hold time.     *)
Fairness ==
    /\ \A a \in Authorizers :
          WF_vars(AuthorizeStep(a)
                  /\ UNCHANGED <<workloadVars, claims, proofs, sinkVars, processVars>>)
    /\ \A t \in Callers :
          WF_vars(EffectuateStep(t)
                  /\ UNCHANGED <<stateVars, evidence, workloadVars, authorityVars, proofs, processVars>>)

FairSpec == Spec /\ Fairness

-----------------------------------------------------------------------------
TypeOK ==
    /\ StateTypeOK
    /\ WorkloadTypeOK
    /\ boot \in Nat /\ boot <= clock
    /\ authCall \in [Authorizers -> AuthStates \cup {Idle}]
    /\ evidence \subseteq EvidenceRecords
    /\ issued \subseteq Capabilities
    /\ claims \in [Stores -> SUBSET Capabilities]
    /\ call \in [Callers -> CallStates \cup {NoCall}]
    /\ effects \in [Channels -> Seq(EffectRecords)]
    /\ earlier \in [Channels -> Nat]
    /\ \A ch \in Channels : earlier[ch] <= Len(effects[ch])

(* An effect, named by its channel and its place there. *)
Occurrences == UNION {{ch} \X DOMAIN effects[ch] : ch \in Channels}

EffectAt(o) == effects[o[1]][o[2]]

(* Single use (I-6): a capability has at most one effect, whoever races    *)
(* for it at whichever sinks, and however often the process restarts, with *)
(* durable and with in-memory stores (sink.py:140-153, state.py:122-126).  *)
(* It rests on SharedStores.                                               *)
AtMostOneEffect ==
    \A o1, o2 \in Occurrences : EffectAt(o1).cap = EffectAt(o2).cap => o1 = o2

(* Sinks that answer to the same identity share one consumption store: the *)
(* deployment obligation that nothing in the code checks (sink.py:35-54).  *)
SharedStores ==
    \A r, s \in Sinks :
        /\ Context[r].sink_id = Context[s].sink_id
        /\ Context[r].boundary_id = Context[s].boundary_id
        => StoreOf[r] = StoreOf[s]

HappenedAt(o, cap, st) == EffectAt(o).cap = cap /\ StoreOf[EffectAt(o).sink] = st

(* What is left of single use in a deployment that gives two sinks of one  *)
(* identity separate stores: one effect of a capability for each store, no *)
(* matter how many sinks answer to its name or in what order their calls,  *)
(* failures and restarts come (sink.py:142-153).                           *)
OneEffectPerStore ==
    \A o1, o2 \in Occurrences :
        HappenedAt(o1, EffectAt(o2).cap, StoreOf[EffectAt(o2).sink]) => o1 = o2

(* Why single use survives races and restarts, as an inductive invariant.  *)
(* A capability is vouched for while the process that committed its        *)
(* evidence runs; after a restart with an in-memory store no claim is left *)
(* to stop it, but no evidence either.                                     *)
Vouched(cap) == cap.evidence_id.committed_at >= boot

AtHome(cap, s) ==
    /\ cap.sink_id = Context[s].sink_id
    /\ cap.boundary_id = Context[s].boundary_id

EvidenceIsRecent ==
    /\ \A e \in evidence : e.committed_at \in boot .. clock
    /\ \A a \in Authorizers : authCall[a].at # "idle" => authCall[a].now \in boot .. clock

PresentedAtHome ==
    /\ \A t \in Callers : call[t].at # "idle" => AtHome(call[t].cap, call[t].sink)
    /\ \A o \in Occurrences : AtHome(EffectAt(o).cap, EffectAt(o).sink)

VerifiedIsVouched ==
    /\ \A t \in Callers : call[t].at \in {"transition", "claim", "commit"} =>
          call[t].cap.evidence_id.committed_at \in boot .. clock
    /\ \A o \in Occurrences : EffectAt(o).cap.evidence_id.committed_at <= clock

EffectsClaimed ==
    \A o \in Occurrences :
        Vouched(EffectAt(o).cap) => Claimed(StoreOf[EffectAt(o).sink], EffectAt(o).cap)

HoldsAt(t, cap, st) ==
    call[t].at = "commit" /\ call[t].cap = cap /\ StoreOf[call[t].sink] = st

HeldAlone ==
    \A t \in Callers : call[t].at = "commit" =>
        LET cap == call[t].cap
            st == StoreOf[call[t].sink]
        IN  /\ Claimed(st, cap)
            /\ \A u \in Callers \ {t} : ~HoldsAt(u, cap, st)
            /\ \A o \in Occurrences : ~HappenedAt(o, cap, st)

(* Between its claim and its effect a capability is in the hands of one    *)
(* call alone among those that share a store, it has had no effect there   *)
(* yet, and every effect of the running process has its claim on record at *)
(* the sink it happened at, although no lock spans verify, claim and       *)
(* effect (sink.py:138-153).                                               *)
Custody ==
    /\ EvidenceIsRecent
    /\ PresentedAtHome
    /\ VerifiedIsVouched
    /\ EffectsClaimed
    /\ HeldAlone
    /\ OneEffectPerStore

(* A nonce buys one capability: however many authorizers race for it, and  *)
(* whatever fails after the reservation, a running process never issues a  *)
(* second capability for it (authority.py:46-48, state.py:54-55).          *)
OneCapabilityPerNonce ==
    \A cap1, cap2 \in issued :
        /\ cap1.nonce = cap2.nonce
        /\ cap1.issued_at >= boot /\ cap2.issued_at >= boot
        => cap1 = cap2

(* A nonce buys one effect (I-6): within the life of one process a nonce   *)
(* never leads to two effects, through whichever capabilities and sinks; a *)
(* process that starts again has forgotten its nonces, so the same nonce   *)
(* may then buy another (state.py:32, 54-55, sink.py:132-153).  Like       *)
(* AtMostOneEffect it rests on SharedStores.                               *)
OneEffectPerNonce ==
    \A o1, o2 \in Occurrences :
        /\ EffectAt(o1).cap.nonce = EffectAt(o2).cap.nonce
        /\ Vouched(EffectAt(o1).cap) /\ Vouched(EffectAt(o2).cap)
        => o1 = o2

(* Evidence before effect (I-4, I-5): every effect of the running process  *)
(* stands on evidence that is committed and on the one transition that     *)
(* spent its nonce, and nothing has been taken back since.                 *)
EffectBacked ==
    \A o \in Occurrences :
        LET e == EffectAt(o)
        IN  e.at >= boot => /\ Committed(e.cap.evidence_id)
                            /\ nonces[e.cap.nonce] = e.cap.transition_id

(* Exact-act binding (I-2): what takes effect is the act the capability    *)
(* was issued for, not another candidate that shares its nonce or its      *)
(* descriptor, and it takes effect at the sink it names (sink.py:65-113).  *)
ExactActBinding ==
    \A o \in Occurrences :
        LET e == EffectAt(o)
        IN  /\ e.candidate_digest = e.cap.candidate_digest
            /\ Act[e.candidate_digest.act].sink_id = Context[e.sink].sink_id
            /\ Act[e.candidate_digest.act].effect_class = Context[e.sink].effect_class

(* The effects of the running process on behalf of a source were paid for: *)
(* there are no more of them than the quota the source started with, and   *)
(* their costs are within its budget, although no sink ever looks at       *)
(* either (state.py:57-62).  Stated for runs that never reconfigure a      *)
(* source.                                                                 *)
EffectsWithinQuota ==
    \A s \in Sources :
        LET mine == {o \in Occurrences : /\ EffectAt(o).at >= boot
                                         /\ EffectAt(o).cap.transition_id.source = s}
            cost(o) == EffectAt(o).cap.transition_id.budget_before
                         - EffectAt(o).cap.transition_id.budget_after
        IN  /\ Cardinality(mine) <= DefaultQuota
            /\ FoldFunction(LAMBDA a, b : a + b, 0, [o \in mine |-> cost(o)]) <= DefaultBudget

(* A receipt tells the truth: the effect it refers to exists, is of its    *)
(* capability and its candidate, and no other receipt of the same process  *)
(* claims that effect (sink.py:160-189, effectors.py:59-65).  Processes    *)
(* count their effects from zero again, so a reference is of one process.  *)
ReceiptsTruthful ==
    \A r \in receipts :
        /\ \E o \in Occurrences :
              /\ EffectAt(o).reference = r.effect_reference
              /\ EffectAt(o).cap = r.capability_id
              /\ EffectAt(o).candidate_digest = r.candidate_digest
        /\ \A q \in receipts :
              /\ q.effect_reference = r.effect_reference
              /\ q.capability_id.issued_at >= boot /\ r.capability_id.issued_at >= boot
              => q = r

(* Strict non-bearer profile (I-8): at a sink that requires it, every      *)
(* effect was verified with a proof signed with the registered key that    *)
(* the authorized act names, for this capability, act, sink and nonce, and *)
(* dated within the freshness of the instant of verification, on either    *)
(* side; so neither the capability alone nor a proof for something else or *)
(* for another time is enough (sink.py:85-104, pop.py:36-48).              *)
StrictEffectsProven ==
    \A o \in Occurrences :
        LET e == EffectAt(o)
        IN  e.sink \in Strict =>
               \E proof \in proofs :
                  /\ proof.capability_id = e.cap
                  /\ proof.candidate_digest = e.cap.candidate_digest
                  /\ proof.sink_id = Context[e.sink].sink_id
                  /\ proof.boundary_id = Context[e.sink].boundary_id
                  /\ proof.nonce = e.cap.nonce
                  /\ proof.presenter = Act[e.cap.candidate_digest.act].presenter
                  /\ proof.presenter \in RegisteredKeys
                  /\ ProofFresh(proof, e.verified_at)

(* The proof a holder of the named key makes at this instant. *)
ProofNow(s, c, cap) ==
    [capability_id    |-> cap,
     candidate_digest |-> DigestNow(c),
     sink_id          |-> Context[s].sink_id,
     boundary_id      |-> Context[s].boundary_id,
     nonce            |-> Act[c].nonce,
     presented_at     |-> clock,
     presenter        |-> Act[c].presenter]

(* The two ends agree on every boundary of time and identity: at the very  *)
(* instant a capability is issued, its last one included, the sink it      *)
(* names accepts it, also when the sink's clock is behind by no more than  *)
(* the tolerated skew; a strict sink does so with a proof the named        *)
(* presenter makes at that instant, if the skew is within the proof's      *)
(* freshness too (authority.py:78, policy.py:47-50, sink.py:65-104).       *)
FreshCapabilityUsable ==
    \A cap \in issued, s \in Sinks :
        LET c == cap.candidate_digest.act
        IN  /\ cap.sink_id = Context[s].sink_id
            /\ cap.boundary_id = Context[s].boundary_id
            /\ cap.issued_at = clock /\ Offset[s] \in -MaxClockSkew .. 0
            /\ s \in Strict => Act[c].presenter \in RegisteredKeys /\ -Offset[s] <= ProofFreshness
            /\ c \notin Aliased
            => LocallyVerified(s, c, cap, ProofNow(s, c, cap), SinkClock(s))

(* What the authority issued, the sink can check: a call that passed the   *)
(* sink's own checks with a capability of the running process is never     *)
(* refused for missing evidence or an unknown transition, because the      *)
(* authority committed both first (authority.py:48-78).                    *)
GenuineNeverRefused ==
    [][\A t \in Callers :
          /\ call[t].at \in {"evidence", "transition"}
          /\ call[t].cap.issued_at >= boot
          /\ call[t].cand \notin Aliased
          /\ boot' = boot
          => call'[t].at # "idle"]_vars

(* The life of a capability, read off the system's state: consumed and     *)
(* waiting for its effect while a call stands between claim and commit,    *)
(* and usable as long as the process that issued it runs.                  *)
Life ==
    INSTANCE CapabilityLife WITH
        available <- {cap \in issued : /\ cap.issued_at >= boot
                                       /\ \A st \in Stores : ~Claimed(st, cap)},
        held <- {call[t].cap : t \in {k \in Callers : call[k].at = "commit"}},
        log <- [ch \in Channels |-> [i \in DOMAIN effects[ch] |-> effects[ch][i].cap]]

(* The system keeps the promise: with all its threads, checks, failures    *)
(* and restarts it does to capabilities only what CapabilityLife allows;   *)
(* in particular a capability that was consumed without an effect is never *)
(* usable again (sink.py:140-158).                                         *)
ImplementsCapabilityLife == Life!LifeSpec

(* Every call comes to an end, the losers of a race for a capability too.  *)
CallsComplete ==
    /\ \A t \in Callers : call[t].at # "idle" ~> call[t].at = "idle"
    /\ \A a \in Authorizers : authCall[a].at # "idle" ~> authCall[a].at = "idle"

-----------------------------------------------------------------------------
(* What the documentation says of the program, and the code does not do.   *)

(* "Missing/tampered/stale/mismatched state, evidence, capability or sink  *)
(* context produces no effect" (ARCHITECTURE.md, I-7): an effect comes     *)
(* about within its capability's lifetime.  effectuate reads the clock     *)
(* once, before the claim and the effect (sink.py:137).                    *)
StaleHasNoEffect ==
    \A o \in Occurrences : EffectAt(o).at <= EffectAt(o).cap.expires_at

(* "Post-authorization changes to target, payload, ... fail"               *)
(* (THREAT_MODEL.md): what takes effect has the payload that was           *)
(* authorized.  The effector reads the payload again after verify          *)
(* (effectors.py:61-64), through a reference the workload may share.       *)
MutatedHasNoEffect ==
    \A o \in Occurrences :
        EffectAt(o).candidate_digest = EffectAt(o).cap.candidate_digest

(* "Capability Consumption -> Sink Receipt -> External Effect"             *)
(* (IMPLEMENTATION_DETAILS.md): an effect has its receipt.  The code calls *)
(* the effector first and builds the receipt after (sink.py:150-189).      *)
ReceiptBeforeEffect ==
    \A o \in Occurrences : \E r \in receipts : r.capability_id = EffectAt(o).cap
=============================================================================
