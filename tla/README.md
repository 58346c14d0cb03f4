# Execution finality: TLA+ models, checks and proofs

This directory specifies the Python reference in `src/src/finality_ref/`: an
authority turns a non-effective *Candidate Act* into a scoped *capability*
after it has advanced protected state and committed evidence, and a *Finality
Sink* checks the exact act, consumes the capability and only then lets the
effect happen. The specifications are translated from the code. Where the code
and the documentation disagree, a run shows it (see Findings).

## The system

| Component | Code | State | Operations |
|---|---|---|---|
| Data model, policy | `models.py`, `policy.py` | none (frozen records) | digests, `build_hcad`, `Policy.validate` |
| Protected state | `state.py` `ProtectedState` | per source version/quota/budget, nonce map, transitions, an `RLock` | `configure_source`, `transition_for_authorization`, `verify_transition`, `snapshot`, `get_transition` |
| Consumption stores | `state.py` `InMemoryConsumptionStore`, `SQLiteConsumptionStore` | claimed capability ids (dict, or table `consumed`) | `claim`, `is_claimed` |
| Evidence store | `evidence.py` | signed records by id | `commit`, `get`, `verify_allow` |
| Authority | `authority.py` | none of its own; drives the two above | `authorize` |
| Finality Sink | `sink.py` | none of its own | `verify`, `effectuate` |
| Guarded effectors | `effectors.py` | the list of effects, a lock, `fail_next` | `_commit`, `direct_effect` (always refuses) |
| Strict profile | `pop.py` | verifier registry | `Presenter.prove`, `verify` |
| Authenticators | `crypto.py` | keys | `sign`, `verify` |
| Canonicalization | `canonical.py`, `go/internal/canonical`, `node/canonical.mjs` | none | canonical bytes, hashes |
| Portable verifiers | `go/cmd/finalityverify`, `node/finality_verify.mjs` | none | check one vector file |
| Surface audit, profiles | `surface.py`, `profiles.py` | none | `audit`, constants |

Components interact by plain method calls on shared objects; there are no
messages. `authorize` and `effectuate` hold **no lock across their calls**: the
only locks are inside `ProtectedState`, the stores and the effector. All that is
hard follows from this.

* *Concurrency.* Authorizers race for a nonce and for the last of a quota;
  callers race for a capability, at one sink or at replicas of it. What was
  checked may have changed when it is used.
* *Failure in the middle.* Evidence commit fails after the reservation; the
  effector fails after the claim; the receipt cannot be signed after the effect;
  the database stays locked; the process ends anywhere.
* *Loss.* Protected state, evidence and in-memory claims go with the process;
  SQLite rows, handed-out capabilities and effects stay.
* *Time.* Freshness, lifetime, skew tolerance and proof freshness are compared
  with clock readings taken at different moments by different parties.
* *Aliasing.* The frozen `CandidateAct` only refers to its payload.
* *Several implementations.* Python, Go and Node must reject the same values,
  write the same bytes and judge the same case file alike, each on its own
  representation of strings and numbers.

What makes each component correct: the ledger of protected state adds up under
any interleaving; a store lets one claim of an id through; a nonce buys one
capability; a capability has at most one effect, of exactly the act it was
issued for; an effect is backed by committed evidence and a recorded
transition and paid from the source's quota; a genuine capability is not
refused; receipts tell the truth; every call ends; bytes stand for meanings in
every language; the audit judges every declared surface. `PROJECT.json` lists the
hazards line by line with the property aimed at each.

## Modules

```
FinalityModels            records, digests, policy
  |- ProtectedState       one step per method          - ProtectedStateProofs
  |    `- LockedState     statement by statement, refines ProtectedState
  |                                                    - LockedStateProofs
  `- Workload             clock and payloads (external)
EvidenceStore, ConsumptionStore
Authority    = ProtectedState + EvidenceStore + Workload
FinalitySink = ProtectedState + EvidenceStore + ConsumptionStore + Workload
Finality     = Authority + FinalitySink + restarts     - FinalityProofs
  `- PortableVerifier     the Go and Node verifiers, next to the sink

CallModel                 concurrent calls in several processes
  |- SQLiteClaims         the SQL transaction, statement by statement
  `- GuardedEffector      _commit, statement by statement
EffectPath   = SQLiteClaims + GuardedEffector          - EffectPathProofs

CapabilityLife            abstract specification, refined by Finality and by EffectPath

Canonicalization          four canonicalizers side by side
                                                       - CanonicalizationProofs
SurfaceAudit              the manifest audit           - SurfaceAuditProofs
MC*                       constants for TLC
```

The proofs about `Finality` build on each other, one module for each question:

```
ProtectedStateProofs   the ledger, and sums over finite sets
  |- LockedStateProofs   the lock, and the refinement of ProtectedState
  `- FinalityProofs      types, single use, and where a capability comes from
       `- BindingProofs      of which act, at which sink, with whose proof
            `- OutcomeProofs     receipts, the promise of CapabilityLife, what was paid
```

`Finality` is broad: every component, with one step for each part of a method
that runs without another shared object. `LockedState` and `EffectPath` are
deep: they take apart the methods that `Finality` treats as one step, down to
statements, and show that nothing is lost. `EffectPath` is the lower half of
`effectuate` (`sink.py:142-158`) over several operating-system processes that
share one SQLite file, which `Finality`, one process, does not have.

| Module | State | Actions and code |
|---|---|---|
| `FinalityModels` | constants only | `Digest` (`CandidateAct.digest`), `Hcad` (`build_hcad`), `Allowed` (`Policy.validate`), record sets |
| `ProtectedState` | `sources`, `nonces`, `transitions` are the class's dicts; `configured`, `granted` are history | `ConfigureSource`, `TransitionForAuthorization`; `TransitionVerified` is `verify_transition` |
| `LockedState` | adds `lock`, `pc`, `request`, `local` per thread | one action per statement group: `Acquire`, `Check`, `ReadBefore`, `WriteVersion`, `WriteQuota`, `WriteNonce`, `WriteTransition`, `Configure`, `SnapshotVersion`, `SnapshotQuota`, `Find` and `Judge` (`verify_transition` 93-105, `get_transition`), `Release` |
| `Workload` | `clock`, `payload` | `Tick`, `MutatePayload` (external) |
| `EvidenceStore` | `evidence` | `CommitRecord`, `CommitRaises` |
| `ConsumptionStore` | `claims` per store | `Claim`, `ClaimRaises`, `Reopen` |
| `SQLiteClaims` | `rows` (committed), `uncommitted`, `writer`, `at`, `arg`; `wins` is history | `Connect`, `BeginImmediate`, `BusyTimeout`, `Insert`, `Rollback`, `Commit`, `StatementFails`, `Return` (`claim`), `Die` |
| `GuardedEffector` | per process `mutex`, `failNext`, `records`; per call `step`, `given`, `ordinal`; `injections`, `failures` are history | `EnterCommit`, `AcquireMutex`, `TestFailNext`, `FailCommit`, `CountRecords`, `AppendRecord`, `ReleaseMutex` (`_commit`, 52-66), `SetFailNext`, `EffectorLost` |
| `EffectPath` | `presented`, `log` are history | `BeginPath`, `ClaimPath`, `CommitPath`, `EffectPathStep`, `InjectFailure`, `Crash` |
| `Authority` | `authCall` per thread, `issued` | `BeginAuthorize`/`RefuseAuthorize` (40-44), `ReserveTransition`/`RefuseTransition` (48), `CommitEvidence`/`FailEvidence` (50-76), `IssueCapability` (78-112) |
| `FinalitySink` | `call` per thread, `proofs`, `effects` per channel, `receipts` | `Prove` (`Presenter.prove`, every argument free), `BeginEffectuate`/`RefuseEffectuate` (60-104), `VerifyEvidence` (106-131), `VerifyTransition` (132-134), `ClaimCapability`/`RefuseClaim` (142-148), `CommitEffect`/`FailEffect` (150-158), `IssueReceipt`/`FailReceipt` (160-189) |
| `Finality` | adds `boot`, when the running process started, and `earlier`, the effects of its predecessors | `Authorize`, `Effectuate`, `MakeProof`, `Reconfigure`, `Environment`, `Restart` |
| `PortableVerifier` | none | `CaseFile` (what `generate_finality_case.py` exports), `CandidateHolds`, `TransitionHolds`, `CapabilityHolds` (`finalityverify`, `finality_verify.mjs`), `Admissible` (`sink.py:59-134` without the clock) |
| `Canonicalization` | `doc`, one document | `Accepts`, `Written`, `Bytes` (`_normalize` and `_dump`, `appendCanonical`, `normalizeCanonical` and `encodeCanonical`); `Put`, `Rename`, `MoveToEnd`, `Delete`, `Nest`, `Retype` are what an owner of a dict does to it |
| `SurfaceAudit` | `surfaces`, `pos`, `seen`, `findings`, `at` | `Declare`, `BeginAudit`, `AuditSurface`, `Conclude` |
| `CapabilityLife` | `issued`, `available`, `held`, `log` | `Issue`, `Consume`, `TakeEffect`, `Void` |

Next to some definitions stand *fault* variants (`CanReserveAnyNonce`,
`ProceedOnReplay`, ...): the same step with a plausible bug. No specification
uses them; substituted for the real definition each one breaks the property
named with it in `PROJECT.json`, which shows that the property can fail.

### Abstractions

* *Digests.* SHA-256 over canonical bytes is injective, so a digest is the
  content hashed. Payloads that canonicalize alike (NFC, NFD) share one image
  under `Canon`. An id (`transition_id`, `evidence_id`, `capability_id`) is the
  record's core.
* *Signatures.* One authority key; callers hold every capability ever issued
  and can copy, keep and replay it, and present it with any candidate anywhere,
  but cannot make or alter one. `authority_id` and `key_id` are left out.
  Presenters sign only with keys they hold.
* *Constant fields* (`act_class`, `destination`, `schema`) travel with the
  candidate and are not told apart.
* *Steps.* What runs between two calls on shared objects is one step. Within a
  step the payload is read once, although `authorize` hashes it up to three
  times there and the effector twice; a write in between would give a record that does not verify
  against its own id, which the evidence store refuses (`FailEvidence`) or a
  sink refuses (`RefuseEffectuate`): both are modelled as always possible.
* *Time.* One clock that never goes back, and a fixed offset per sink. The
  `now_ns` argument by which a caller can override the clock is not modelled.
* *Restart* ends the whole process; a crash inside one call is the same as its
  failing effect, or a restart. The clock moves on by one at a restart.
* Replacing Python attributes from outside (`replace_for_adversarial_test`, a
  policy swapped at run time) is not modelled, except that evidence commits and
  effects may fail at any time, and `fail_next` in `GuardedEffector`.
* *Effect references* are channel, digest and ordinal; the ordinal counts the
  effects of one process (`effectors.py:62`), so a reference may come again
  after a restart, and `ReceiptsTruthful` speaks of the receipts of one process.
* *Statements.* In `LockedState` the stores of quota and budget (`state.py:88`)
  are one statement, and so are their copies (`state.py:110`): a snapshot torn
  exactly between these two would not show. `LookupsCurrent` covers the lookups.
* *SQLite.* Its write lock, its unique key, atomic commit and rollback on close
  are taken from its documentation; WAL readers see committed rows.
  `is_claimed` is one read of `rows` and changes nothing.
* *Canonical bytes* are sequences of JSON tokens: separators follow from the
  structure, and escaping is one function of a text. NFC is a table (`Nfc`), the
  same in all runtimes; that Python, Go and Node carry different versions of the
  Unicode tables is outside. Numbers are integers or floats; booleans, which every
  runtime writes as a word like `null`, are left out; what a JSON parser
  makes of `1.0`, `-0` or an escaped lone surrogate before canonicalization is
  decoding, not modelled. The local profile writes bytes as the dict
  `{"$bytes_hex": ...}`, so it does not tell the two apart; `Meaning` says so.
  A text is a sequence of code points. Python can hold a high and a low surrogate
  as two of them (and refuses both), Node cannot: in UTF-16 they are one character.
  `CanHold` leaves such texts out for Node.
* *Portable verifiers.* Case files are what the generator would write for any
  capability with any candidate and any sink, so records are always properly
  signed and hash to their ids. The verifiers do not compare `evidence_id` of
  the capability with the file's evidence, nor the transition's nonce, source
  and epoch with the candidate's, and they read no clock: on such files the other checks
  imply these, and `VerifiersAgree` leaves the lifetime out on both sides. With
  real clocks, nanosecond timestamps are beyond 2^53; the repository's vectors
  use small ones, and the model has values on both sides of the limit.

### Assumptions on the deployment

These are hypotheses of the theorems that name them, not assumptions of the
modules; a module's ASSUMEs are types of its constants, and that `Absent`, which
stands for a free lock, no transition and no proof, is neither a thread nor a proof.

| Hypothesis | What it says | Why |
|---|---|---|
| `SharedStores` | sinks with the same `sink_id` and `boundary_id` use the same consumption store | the code cannot check it, and single use does not hold without it; what is left is `OneEffectPerStore`, proved for all deployments and checked by `workload` on one that violates it |
| `Aliased = {}` | the workload keeps no reference into the payload of an act it submitted | the frozen dataclass only refers to the payload; the finding `mutation` shows what happens otherwise |
| `SinksServePolicy` | a sink that acts are addressed to serves their effect class and the policy's epoch and scopes | authority and sink are configured apart (`policy.py`, `sink.py:35-54`); a capability for a sink that does not serve it is refused, as it should be |
| `Configurations = {}`, `DefaultQuota >= 0`, `DefaultBudget >= 0` | no source is configured again, and none starts below nothing | `EffectsWithinQuota` compares with what a source started with; across a reconfiguration `QuotaConserved` and `BudgetConserved` speak of each period |

Durable claims are as durable as SQLite commits.

## Runs

| Run | Question | Properties | Bounds |
|---|---|---|---|
| `protected_state` | does the ledger add up? | `StateTypeOK` `NonceSpentOnce` `QuotaConserved` `BudgetConserved` `VersionChain` `NoOverdraft` | 4 candidates, 3 nonces, 2 sources, quota 2, budget 3, costs 0..2, two reconfigurations (one to quota 0) |
| `locked_state` | does the locked code implement those steps? | `ImplementsProtectedState` `SnapshotNotTorn` `LookupsCurrent` `LockIsReleased` `LockedTypeOK` | 2 threads, 3 candidates, 2 nonces, quota 2 |
| `effect_path` | is single use kept statement by statement, across processes that share a file? | `PathImplementsLife` `PathsReturn` `WonOnce` `NoOrphanedLock` `ReferencesUnique` `FailuresInjected` `ClaimTypeOK` | 3 calls in 2 processes, 2 capabilities, 1 injected failure, calls and crashes repeat while they change something |
| `canonical` | do four canonicalizers agree, and do bytes stand for meanings? | `OneDomain` `OneEncoding` `DigestsSeparate` | documents of up to 3 values, 6 text keys and a number as key, scalars of every type, integers at and one past the limit on both sides |
| `surface` | is the verdict right about every declaration? | `VerdictRight` `DuplicatesReported` `AuditTypeOK` | up to 3 declarations, 2 names, all combinations of their fields |
| `races` | what do races for a nonce and a capability do? | `AtMostOneEffect` `ExactActBinding` `StrictEffectsProven` `FreshCapabilityUsable` `GenuineNeverRefused` `TypeOK` | 1 authorizer, 2 callers, 2 replicas (one strict, the other a tick behind and without a receipt key), 2 candidates, 2 presenters, 1 proof of anything dated -1 or 2, clock 0..2 |
| `restart` | are single use and the promise about a capability kept when in-memory claims are lost, and does every call end? | `Custody` `OneEffectPerNonce` `ImplementsCapabilityLife` `CallsComplete` | one restart at 0, clock 0..2, 2 authorizers, 2 callers |
| `quota` | are effects paid for, does each receipt name its own effect, and do the portable verifiers judge as the sink does? | `EffectsWithinQuota` `ReceiptsTruthful` `VerifiersAgree` | 4 acts, 3 nonces, costs 1 and 2, quota 2, budget 3, 1 authorizer, 2 callers, 2 sinks on one channel (one cannot sign receipts), clock at 0, portable integers up to 2 |
| `workload` | do payload writes, reconfiguration and a store of its own at a second sink break backing or single use? | `OneCapabilityPerNonce` `EffectBacked` `OneEffectPerStore` | one aliased candidate, 2 payloads, 2 authorizers, 2 callers, 2 sinks of one identity with two stores |

The bounds are the smallest in which the rivals exist: two threads are enough
for every race the code has, because each race is decided by one shared object
(nonce map, store, effector) between a winner and a loser; two candidates with
one nonce and one descriptor differ in what the descriptor leaves out; a clock
of 0..2 with freshness 2 and a time-to-live of 1 passes through before, at and
after every deadline. In `races` the proof's date lies
before, within and after its freshness as the clock moves. In `quota` three cheap
grants exceed only the quota and two dear ones only the budget, and two effects at
two sinks give two receipts that could be confused; its clock stands still, since
nothing there depends on time. `races` and `quota` have one authorizer, because
reservations are atomic (`locked_state` shows that they are); two race in
`restart` and `workload`. In `effect_path` two calls
share a process, where they meet at the effector, and the third is in another,
where it meets them at the file. Three values make a document with two entries
that collide or swap, or one entry inside a container. Bounds named in the
models: `MaxClock`, `MaxProofs`, `ProofTimes` (when a
presenter may date a proof), `RestartTimes`, `MaxInjections`, `MaxSize`,
`MaxSurfaces`. Authorizers and callers are symmetric
in `races`, `quota` and `workload`; `restart` and `effect_path` check liveness
and use no symmetry. Deadlock is checked in every run.

### Fairness

`Finality!FairSpec` is weak fairness of each started call's next step: a Python
thread that can run is scheduled again, locks are held for bounded work, SQLite
answers a waiter within its 30 seconds with the lock or an error. Nothing is
assumed of starting calls, of time, of writes, or of a thread that waits for the
RLock. In `LockedState` the lock holder's steps are weakly fair; in
`EffectPath` (`PathSpec`) each started call's, `BusyTimeout` among them: `claim`
waits for the file's lock for 30 seconds at most (`state.py:154`), and the
effector's lock is held for four statements that do not wait.

### Findings

| Run | The code | The documentation |
|---|---|---|
| `stale` | `sink.py:137` reads the clock once; evidence lookup, claim and effect come later, so an effect may follow its capability's expiry | `docs/ARCHITECTURE.md:41`, I-7: stale state or capability "produces no effect" |
| `mutation` | `effectors.py:61-64` reads the payload again after `verify` hashed it, without comparing | `docs/THREAT_MODEL.md:42`: changes to the payload after authorization fail |
| `receipt` | `sink.py:153` commits the effect, `160-189` builds the receipt after | `docs/IMPLEMENTATION_DETAILS.md:21`, `README.md:47-49`: receipt, then effect |

Limits that the documentation states itself, or that a reader should know, and
that show in how the properties are stated: after a restart a nonce can be
authorized again (`OneCapabilityPerNonce` speaks of one process); a capability
consumed without an effect is lost (`Void` in `CapabilityLife`); the version of
a source is monotonic only between two calls of `configure_source`, which sets
it to 0 again (`VersionChain` speaks of the time since).

## Proofs

For every value of the constants, checked by TLAPS:

| Module | Theorems | Hypothesis |
|---|---|---|
| `ProtectedStateProofs` | `StateTypeCorrect` `NonceSpentOnceCorrect` `QuotaConservedCorrect` `VersionChainCorrect` `NoOverdraftCorrect` `BudgetConservedCorrect` | |
| `LockedStateProofs` | `LockedInvariantCorrect` `LockedTypeCorrect` `SnapshotNotTornCorrect` `LookupsCurrentCorrect` `ImplementsProtectedStateCorrect` | |
| `FinalityProofs` | `TypeCorrect` `CustodyCorrect` `OneEffectPerStoreCorrect` | |
| | `AtMostOneEffectCorrect` | `SharedStores` |
| | `ProvenanceCorrect` `OneCapabilityPerNonceCorrect` `EffectBackedCorrect` | |
| | `OneEffectPerNonceCorrect` | `SharedStores` |
| `BindingProofs` | `BindingCorrect` `GenuineNeverRefusedCorrect` `StrictEffectsProvenCorrect` | |
| | `ExactActBindingCorrect` `VerifiersAgreeCorrect` | `Aliased = {}` |
| | `FreshCapabilityUsableCorrect` | `SinksServePolicy` |
| `OutcomeProofs` | `ReceiptedCorrect` `ClaimsOfIssuedCorrect` | |
| | `ReceiptsTruthfulCorrect` | `Aliased = {}` |
| | `ImplementsCapabilityLifeCorrect` | `SharedStores` |
| | `EffectsWithinQuotaCorrect` | `SharedStores`, no reconfiguration |
| `EffectPathProofs` | `ClaimTypeCorrect` `WonOnceCorrect` `NoOrphanedLockCorrect` `ReferencesUniqueCorrect` `PathImplementsLifeCorrect` `FailuresInjectedCorrect` | |
| `SurfaceAuditProofs` | `AuditTypeCorrect` `VerdictRightCorrect` `DuplicatesReportedCorrect` | |
| `CanonicalizationProofs` | `OneDomainCorrect` `OneEncodingCorrect` `DigestsSeparateCorrect` | |

### The ledger and its sums

A grant's version is one that `granted` does not hold yet, so the set grows by
exactly one. That needs `granted` to be finite and the versions below the current
one to be the used ones, which is why `VersionChain` belongs to the inductive
invariant for the quota (`Ledger`). For the budget the same grant has to add
exactly its charge to a fold over the set. The induction theorems of the library
take the hypothesis as an operator, which no prover here can instantiate, so the
lemmas about `Total` argue with a smallest counterexample instead: the proper
subsets of a finite set are well founded, so a set of subsets on which a sum
goes wrong has a minimal member (`SmallestSubset`), and taking one element out of
it gives a contradiction. From this: the sum exists, does not depend on the order
in which elements are chosen (`SumWithout`), grows by the value of a new element
(`TotalOfMore`), grows with the set (`TotalGrows`) and survives renaming
(`TotalRenamed`).

### The lock

`LockedInvariant` says for each thread by its program counter what it may rely
on: what its check found still holds at the first write (`GrantHolds`), how much
of a grant is written (`GrantWritten`), and how much of a snapshot is copied
(`CopyCurrent`, `CopyWhole`). For all threads together: only the lock's holder is
inside, and the sum of a source's quota and version stays what was configured,
but for the one thread between its two writes. Refinement shows a grant as whole
from its first write on; each later write changes only what the mapping already
shows. A torn snapshot would break the sum. A lookup works in two statements too,
and what it found (`FoundCurrent`) is still what is recorded when it answers
(`AnswerCurrent`), since only the holder of the lock writes.

### Single use

Single use is not inductive by itself: nothing in "no two effects of one
capability" stops a second caller that has already passed the checks. `Custody`
adds why it must fail. (1) Whoever stands between claim and effect has the claim
on record, holds the capability alone among the calls on its store, and it has
had no effect there (`HeldAlone`). (2) Every effect whose evidence was committed
by the running process has its claim on record in the store of its sink
(`EffectsClaimed`). (3) Every call past the evidence check carries evidence of
the running process (`VerifiedIsVouched`, from `EvidenceIsRecent`). A claim that
succeeds therefore finds a capability without holder and without effect in that
store (lemma `UnclaimedIsFree`), and a commit adds the first effect there. A
restart may empty the in-memory store, but it empties the evidence with it, and
old evidence lies before the new `boot`: (2) asks nothing of old effects and (3)
lets no old capability past the check. So single use survives restarts with
either store. (4) Calls and effects are at sinks of the capability's identity
(`PresentedAtHome`); where these share a store, two rivals meet in it, and one
effect for each store is one effect.

### Provenance, binding, outcome

*Provenance.* `authorize` holds no lock between its reservation and its
capability, so the invariant says what an authorizer holds there: its transition
is on record, is for its candidate's nonce, is no other authorizer's, and no
capability stands on it yet (`ReservationsHeld`); the evidence it will name is
committed (`EvidenceInHand`). Hence one capability for each transition, one
transition for each nonce, and every effect of the process has both on record.

*Binding.* Every capability is `CapabilityCore` of a candidate the policy allowed,
and a call past the local checks carries the capability's own candidate to a sink
both name, even while the workload writes payloads: only the digest
may differ, and only for an aliased candidate. From this follow that what takes
effect is what was authorized, that the second half of `verify` cannot refuse
what the first half accepted, and that the portable verifiers, which repeat these
comparisons on a file, come to the sink's verdict. `Proven` adds to each call at a
strict sink the proof it was accepted with, dated within the freshness of its
verification on either side (`sink.py:99` takes the distance); what presenters sign
is otherwise free.

*Outcome.* `Receipted` follows a reference from the effect through the call that
owes a receipt to the receipt: each is for an effect that happened, and no two are
for the same one. References are only unique within a process, so the invariant
separates the effects of the running process (`Ours`) from earlier ones.
The refinement of `CapabilityLife` needs that claims are of issued capabilities at
a store of a sink they name (`ClaimsOfIssued`): one just issued is then claimed
nowhere, and one whose claim succeeds at its store is claimed at no other.
A restart voids what was held. The quota follows by counting: an effect's
transition is among those granted to its source (`Paid`), no two effects share
one, so there are no more effects than grants, and their costs are a part of the
sum that was charged.

### The path to an effect

A claim on disk is won once because the write lock is held by exactly the calls
inside their transaction (`WriterInside`): a call at its `COMMIT` found no row
and nobody can have added one since (`CommitsFresh`), and a row whose claim has
not returned yet belongs to one call (`ReturnsOnce`). The open transaction's
row is its writer's own (`OneRowOpen`), so a commit adds that row and nothing else.
The lemma `PathMakesClaims` carries this over to the whole path. References are unique because a
call past the lock is the one that holds it (`InsideAlone`), so that the length
it measured is still the length when it appends (`Measured`). For the refinement
of `CapabilityLife`, `PathInv` says that a call is in its claim or in its commit but
not in both, and that a capability whose effect is still owed is owed by one call.
Injected failures are counted with those still pending (`FailuresCounted`).

### The audit

The verdict follows from a loop invariant: the findings up to `pos` hold a blocking
one exactly when a surface before `pos` is exposed. Duplicates are counted with the
keys seen: the two make up the declarations read (`DuplicatesCounted`).

### Canonical bytes

The constants here are the texts (any set of code point sequences), what NFC does
to them (any idempotent table), the limit of integers, the hex digits of blobs and
how deep a document nests. Every argument goes by the least depth at which a claim
would fail: a set of naturals has a least element because the intervals `0 .. n` are
well founded by inclusion (lemma `Least`), which needs no induction theorem. In the
same way each recursive definition is shown to have a solution (`ValuesDef`,
`BytesDef`, `MeaningDef`), without which nothing is known of it.

*One domain.* A surrogate is a code point from D800 to DFFF to Python, a byte 237
followed by one of at least 160 to Go, and a unit without its partner to Node. In
UTF-8 a byte 237 only starts the three bytes of one code point (`GoTextIs`); in
UTF-16 every unit of a pair has its partner next to it, and a code point that is a
surrogate has none unless its neighbour is one too (`PairsAreWell`, `WellAreSplit`).
Hence all three accept the same texts, those without surrogates, with
the exception of the pairs that Node cannot hold.

*One encoding.* Node compares UTF-8 bytes, Go strings, Python code points. UTF-8
keeps the order (`Utf8Order`, block by block in `EncodingPrecedes`), and the order is
strict and total. The place of a key is its rank among the keys of the map; ranks of
a finite set in a total order are different and fill `1 .. n` (`Ranks`), so the entries
have exactly one arrangement (`OneOrder`).

*Digests.* Two encodings are `Separate` when no reader finds both at one place of
some bytes unless they are equal: one is then no prefix of the other. A group in
brackets can be decoded if its members can, since no member starts with the closing
bracket (`GroupDecode`); a member of a map starts with its key. `Matches` couples
this with meaning, for atoms, lists and maps (`AtomsMatch`, `ListMatches`,
`MapMatches`). Two maps with one meaning have the same set of keys, hence the same
key at each place.

### Only model-checked

Liveness (`CallsComplete`, `LockIsReleased`, `PathsReturn`), which TLAPS does not
reach. Every other property of a passing run is a theorem. The case files behind
`VerifiersAgree` use `Digest` as an injective function of the content; that the bytes
support this is `DigestsSeparate`, and the hash itself is cryptography.

## Not modelled

* `crypto.py` beyond its use: HMAC and Ed25519 are cryptography, not state.
* `profiles.py` (a table), `errors.py`, `__init__.py`.
* `replace_for_adversarial_test` of the evidence store, a test hook, and
  `verify_allow`, which only reads and which nothing in the package calls.
* The policy is a constant of the deployment: no operation of the code changes
  it, and a new policy epoch is a new authority and a new sink.
* Decoding JSON text, escaping, the conformance commands that print a digest,
  vector generators beyond what a case file holds, `benchmark.py`, examples,
  scripts, the vendored `golang.org/x/text`.

## Plan

Done: all modules above, and a theorem for every safety property, action property and
refinement that a passing run checks. Left: the scripts and generators around the
package, should they come to keep state.
