--------------------------- MODULE CapabilityLife ---------------------------
(***************************************************************************)
(* What the protocol promises about one capability, without threads,       *)
(* checks, stores or restarts.  It is issued once; it may be consumed      *)
(* once; only a consumed capability takes effect, and then it is used up.  *)
(* A capability that is voided, because its effect failed after it was     *)
(* consumed or because the process that could vouch for it is gone, never  *)
(* becomes usable again: at-most-once is preferred to retry.               *)
(***************************************************************************)
EXTENDS Sequences

CONSTANT Channels

VARIABLES
    issued,         \* every capability ever handed out
    available,      \* those that may still be consumed
    held,           \* those consumed, their effect still to come
    log             \* per channel, the capabilities that took effect, in order

lifeVars == <<issued, available, held, log>>

LifeInit ==
    /\ issued = {} /\ available = {} /\ held = {}
    /\ log = [ch \in Channels |-> <<>>]

Issue ==
    \E cap \in issued' \ issued :
        /\ issued' = issued \cup {cap}
        /\ available' = available \cup {cap}
        /\ UNCHANGED <<held, log>>

Consume ==
    \E cap \in available :
        /\ available' = available \ {cap}
        /\ held' = held \cup {cap}
        /\ UNCHANGED <<issued, log>>

TakeEffect ==
    \E cap \in held, ch \in Channels :
        /\ held' = held \ {cap}
        /\ log' = [log EXCEPT ![ch] = Append(@, cap)]
        /\ UNCHANGED <<issued, available>>

Void ==
    /\ available' \subseteq available
    /\ held' \subseteq held
    /\ UNCHANGED <<issued, log>>

LifeNext == Issue \/ Consume \/ TakeEffect \/ Void

LifeSpec == LifeInit /\ [][LifeNext]_lifeVars
=============================================================================
