---------------------------- MODULE EvidenceStore ----------------------------
(***************************************************************************)
(* EvidenceStore (evidence.py): the signed records the authority committed.*)
(* An evidence_id is the hash of the record's core, so the core stands for *)
(* it and the dict is a set.  commit() raises when the store is failing or *)
(* when the id is already there, and then records nothing.                 *)
(***************************************************************************)
VARIABLE evidence

EvidenceInit == evidence = {}

CommitRecord(e) ==
    /\ e \notin evidence
    /\ evidence' = evidence \cup {e}

CommitRaises(e) == UNCHANGED evidence

(* The dict goes with its process. *)
EvidenceLost == evidence' = {}

Committed(e) == e \in evidence
=============================================================================
