------------------------------ MODULE Workload ------------------------------
(***************************************************************************)
(* What the protocol does not control: time and the compute plane that     *)
(* holds the Candidate Acts.  Modelled from how the code uses them:        *)
(* authority, sinks and presenters read a clock (time.time_ns by default), *)
(* and CandidateAct.payload is a reference into the workload's own data,   *)
(* which a workload that kept the reference can still write to.            *)
(***************************************************************************)
EXTENDS FinalityModels

CONSTANTS
    MaxClock,       \* bound: the clock stops here
    Aliased         \* candidates whose payload object the workload still writes

ASSUME WorkloadAssumption == MaxClock \in Nat /\ Aliased \subseteq Candidates

VARIABLES clock, payload

workloadVars == <<clock, payload>>

WorkloadInit ==
    /\ clock = 0
    /\ payload \in [Candidates -> Payloads]
    /\ \A c, d \in Candidates : payload[c] = payload[d]

(* The bound on time.  A run's MaxClock lies beyond the last deadline. *)
Tick ==
    /\ clock < MaxClock
    /\ clock' = clock + 1
    /\ UNCHANGED payload

(* An in-place write to the payload the frozen candidate refers to. *)
MutatePayload(c, p) ==
    /\ c \in Aliased
    /\ p # payload[c]
    /\ payload' = [payload EXCEPT ![c] = p]
    /\ UNCHANGED clock

DigestNow(c) == Digest(c, payload[c])

WorkloadTypeOK == clock \in Nat /\ payload \in [Candidates -> Payloads]
=============================================================================
