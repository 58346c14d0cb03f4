--------------------------- MODULE FinalityModels ---------------------------
(***************************************************************************)
(* The data the protocol passes around: Candidate Acts, their two digests  *)
(* and the policy predicate (models.py, policy.py).                        *)
(*                                                                         *)
(* A candidate c is one CandidateAct object.  Act[c] holds its immutable   *)
(* fields, by which candidates are told apart (equal fields hash alike);   *)
(* its payload is kept apart, because the frozen dataclass keeps a         *)
(* reference to a payload that may be a mutable object.  SHA-256 over      *)
(* canonical bytes is taken as injective, so a digest IS the content that  *)
(* was hashed; canonicalisation is Canon, which maps payloads that encode  *)
(* alike (NFC and NFD forms of a text, say) to one value.                  *)
(***************************************************************************)
EXTENDS Integers, Sequences, FiniteSets, Functions

CONSTANTS
    Candidates,     \* the CandidateAct objects of this run
    Act,            \* [Candidates -> immutable fields of a CandidateAct]
    Payloads,       \* payload values
    Canon,          \* [Payloads -> canonical payloads]
    Sources,        \* candidate.source values
    Nonces,         \* candidate.nonce values
    Policy,         \* the authority's Policy record
    Absent          \* Python's None, and "no entry" of a dict

ASSUME ActAssumption ==
    \A c \in Candidates :
        /\ Act[c].source \in Sources
        /\ Act[c].nonce \in Nonces
        /\ Act[c].issued_at \in Int
        /\ Act[c].freshness \in Int
        /\ \A d \in Candidates : Act[c] = Act[d] => c = d

ASSUME CanonAssumption == DOMAIN Canon = Payloads

-----------------------------------------------------------------------------
(* CandidateAct.digest(): every field of the object, payload included. *)
Digest(c, p) == [act |-> c, payload |-> Canon[p]]

Digests == {Digest(c, p) : c \in Candidates, p \in Payloads}

(* build_hcad(candidate, sink_id, boundary_id).digest(): the descriptor    *)
(* leaves out authority_context (the presenter key) and status, and takes  *)
(* the sink's own identity when the sink rebuilds it.                      *)
Hcad(c, p, sink, boundary) ==
    [act_id           |-> Act[c].act_id,
     effect_class     |-> Act[c].effect_class,
     source           |-> Act[c].source,
     purpose          |-> Act[c].purpose,
     jurisdiction     |-> Act[c].jurisdiction,
     policy_epoch     |-> Act[c].policy_epoch,
     nonce            |-> Act[c].nonce,
     issued_at        |-> Act[c].issued_at,
     freshness        |-> Act[c].freshness,
     scope            |-> Act[c].scope,
     runtime_evidence |-> Act[c].runtime_evidence,
     sink_id          |-> sink,
     boundary_id      |-> boundary,
     payload          |-> Canon[p]]

StaleAt(c) == Act[c].issued_at + Act[c].freshness

-----------------------------------------------------------------------------
(* The artifacts (StateTransition, ValidationEvidence, Capability).  Each  *)
(* id is the hash of the record's core, so the core stands for the id, and *)
(* a record that names another holds it: a capability holds its evidence,  *)
(* which holds its transition.  Keys and signatures are left out: there is *)
(* one authority key, and a record is properly signed exactly when the     *)
(* authority made it.                                                      *)
TransitionIds ==
    [nonce : Nonces, source : Sources,
     before_version : Nat, after_version : Nat,
     quota_before : Int, quota_after : Int,
     budget_before : Int, budget_after : Int,
     candidate_digest : Digests]

Descriptors ==
    {Hcad(c, p, Act[c].sink_id, Act[c].boundary_id) : c \in Candidates, p \in Payloads}

Epochs == {Act[c].policy_epoch : c \in Candidates}

EvidenceRecords ==
    [descriptor_digest : Descriptors, candidate_digest : Digests,
     transition_id : TransitionIds, policy_epoch : Epochs,
     decision : {"ALLOW"}, committed_at : Nat]

Capabilities ==
    [candidate_digest : Digests, descriptor_digest : Descriptors,
     sink_id : {Act[c].sink_id : c \in Candidates},
     boundary_id : {Act[c].boundary_id : c \in Candidates},
     nonce : Nonces, scope : {Act[c].scope : c \in Candidates}, policy_epoch : Epochs,
     evidence_id : EvidenceRecords, transition_id : TransitionIds,
     issued_at : Nat, expires_at : Int]

(* No dict entry: None is not itself a transition id. *)
ASSUME AbsentAssumption == Absent \notin TransitionIds

(* Policy.validate(candidate, now): allowed when no reason was collected. *)
Allowed(c, now) ==
    /\ Act[c].status = "NON_EFFECTIVE"
    /\ Act[c].policy_epoch = Policy.policy_epoch
    /\ Act[c].purpose \in Policy.purposes
    /\ Act[c].jurisdiction \in Policy.jurisdictions
    /\ Act[c].sink_id \in Policy.sinks
    /\ Act[c].boundary_id \in Policy.boundaries
    /\ Act[c].effect_class \in Policy.effect_classes
    /\ Act[c].scope # <<>>
    /\ Range(Act[c].scope) \subseteq Policy.scopes
    /\ IsInjective(Act[c].scope)
    /\ Act[c].source \notin Policy.revoked
    /\ Act[c].freshness > 0
    /\ now >= Act[c].issued_at - Policy.max_future_skew
    /\ now <= StaleAt(c)
    /\ Policy.runtime_evidence \in {Absent, Act[c].runtime_evidence}
=============================================================================
