------------------------------ MODULE MCFinality ------------------------------
(* Small deployments of the whole system; each .cfg picks one.             *)
EXTENDS PortableVerifier, TLC

BaseAct ==
    [act_id |-> "act", effect_class |-> "egress", source |-> "s1",
     purpose |-> "p", jurisdiction |-> "EU", policy_epoch |-> 1, nonce |-> "n1",
     issued_at |-> 0, freshness |-> 2, sink_id |-> "sink", boundary_id |-> "b",
     scope |-> <<"send">>, runtime_evidence |-> "ev", presenter |-> "k1",
     status |-> "NON_EFFECTIVE"]

(* twin shares base's descriptor and differs in its presenter only;        *)
(* second and third are other acts with nonces of their own, at another    *)
(* sink, and third is stale a tick earlier.                                *)
MCAct ==
    [c \in Candidates |->
        CASE c = "base"   -> BaseAct
          [] c = "twin"   -> [BaseAct EXCEPT !.presenter = "k2"]
          [] c = "second" -> [BaseAct EXCEPT !.nonce = "n2", !.act_id = "act2",
                                             !.sink_id = "sink2"]
          [] c = "third"  -> [BaseAct EXCEPT !.nonce = "n3", !.act_id = "act3",
                                             !.sink_id = "sink2", !.freshness = 1]]

(* Two texts that differ as strings and are one after NFC, and a third. *)
MCCanon == [p \in Payloads |-> IF p = "nfd" THEN "nfc" ELSE p]

MCPolicy ==
    [policy_epoch |-> 1, purposes |-> {"p"}, jurisdictions |-> {"EU"},
     sinks |-> {"sink", "sink2"}, boundaries |-> {"b"}, effect_classes |-> {"egress"},
     scopes |-> {"send", "read"}, revoked |-> {}, runtime_evidence |-> "ev",
     max_future_skew |-> 1]

Identity(s) == IF s = "other" THEN "sink2" ELSE "sink"

MCContext ==
    [s \in Sinks |->
        [sink_id |-> Identity(s), boundary_id |-> "b", policy_epoch |-> 1,
         scopes |-> {"send"}, effect_class |-> "egress"]]

MCStoreOf == [s \in Sinks |-> IF s \in {"other", "replica"} THEN "memory" ELSE "db"]
MCChannelOf == [s \in Sinks |-> "channel"]
MCOffset == [s \in Sinks |-> IF s = "mirror" THEN -1 ELSE 0]
MCStoreOfMemory == [s \in Sinks |-> "memory"]
MCProofTimes == {-1, 2}
MCConfigurations == {[quota |-> 1, budget |-> 1]}

(* Threads run the same code: no property names one of them. *)
Threads == Permutations(Authorizers) \cup Permutations(Callers)
=============================================================================
