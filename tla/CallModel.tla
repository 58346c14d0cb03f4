------------------------------ MODULE CallModel ------------------------------
(***************************************************************************)
(* Concurrent calls in several processes, for the modules that follow the  *)
(* code statement by statement.                                            *)
(***************************************************************************)
CONSTANTS
    Calls,          \* the concurrent calls
    Processes,
    ProcessOf,      \* [Calls -> Processes]
    Capabilities,   \* capability ids
    None            \* no call

ASSUME CallAssumption == ProcessOf \in [Calls -> Processes] /\ None \notin Calls

CallsOf(p) == {k \in Calls : ProcessOf[k] = p}
=============================================================================
