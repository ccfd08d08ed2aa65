----------------------------- MODULE AuditOutbox -----------------------------
(***************************************************************************)
(* What the offline queue promises its callers: an audit it accepted is    *)
(* held until it was delivered at least once, and never taken back.        *)
(***************************************************************************)
EXTENDS Naturals

CONSTANT Audits

VARIABLES accepted, held, delivered

vars == <<accepted, held, delivered>>

Init ==
    /\ accepted = {}
    /\ held = {}
    /\ delivered = [a \in Audits |-> 0]

Accept(a) ==
    /\ a \notin accepted
    /\ accepted' = accepted \cup {a}
    /\ held' = held \cup {a}
    /\ UNCHANGED delivered

Deliver(a) ==
    /\ a \in accepted
    /\ delivered' = [delivered EXCEPT ![a] = @ + 1]
    /\ UNCHANGED <<accepted, held>>

Release(a) ==
    /\ a \in held
    /\ delivered[a] > 0
    /\ held' = held \ {a}
    /\ UNCHANGED <<accepted, delivered>>

Next == \E a \in Audits : Accept(a) \/ Deliver(a) \/ Release(a)

Spec == Init /\ [][Next]_vars
=============================================================================
