-------------------------- MODULE MCProtectedState --------------------------
(* Three nonces over two sources; two candidates share a nonce, a third    *)
(* shares their source, a fourth has its own; quotas of 2 and budgets that *)
(* run out before or after the quota, and a reconfiguration to zero quota. *)
EXTENDS ProtectedState

BaseAct ==
    [act_id |-> "act", effect_class |-> "egress", source |-> "s1",
     purpose |-> "p", jurisdiction |-> "EU", policy_epoch |-> 1, nonce |-> "n1",
     issued_at |-> 0, freshness |-> 2, sink_id |-> "sink", boundary_id |-> "b",
     scope |-> <<"send">>, runtime_evidence |-> "ev", presenter |-> "k1",
     status |-> "NON_EFFECTIVE"]

MCCandidates == {"c1", "c2", "c3", "c4"}

MCAct ==
    [c \in MCCandidates |->
        CASE c = "c1" -> BaseAct
          [] c = "c2" -> [BaseAct EXCEPT !.act_id = "act2"]
          [] c = "c3" -> [BaseAct EXCEPT !.nonce = "n2"]
          [] c = "c4" -> [BaseAct EXCEPT !.nonce = "n3", !.source = "s2"]]

MCCanon == [p \in {"p1", "p2"} |-> p]

MCPolicy == [policy_epoch |-> 1]

MCConfigurations == {[quota |-> 0, budget |-> 5], [quota |-> 2, budget |-> 2]}
=============================================================================
