---------------------------- MODULE MCLockedState ----------------------------
(* Two threads, two nonces of one source with quota 2: two candidates race *)
(* for a nonce and the third for the rest of the quota, while the other    *)
(* thread may reconfigure the source or take a snapshot.                   *)
EXTENDS LockedState

BaseAct ==
    [act_id |-> "act", effect_class |-> "egress", source |-> "s1",
     purpose |-> "p", jurisdiction |-> "EU", policy_epoch |-> 1, nonce |-> "n1",
     issued_at |-> 0, freshness |-> 2, sink_id |-> "sink", boundary_id |-> "b",
     scope |-> <<"send">>, runtime_evidence |-> "ev", presenter |-> "k1",
     status |-> "NON_EFFECTIVE"]

MCCandidates == {"c1", "c2", "c3"}

MCAct ==
    [c \in MCCandidates |->
        CASE c = "c1" -> BaseAct
          [] c = "c2" -> [BaseAct EXCEPT !.act_id = "act2"]
          [] c = "c3" -> [BaseAct EXCEPT !.nonce = "n2"]]

MCCanon == [p \in {"p1"} |-> p]

MCPolicy == [policy_epoch |-> 1]

MCConfigurations == {[quota |-> 1, budget |-> 3]}
=============================================================================
