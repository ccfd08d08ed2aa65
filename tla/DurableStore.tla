---------------------------- MODULE DurableStore ----------------------------
(* What a user of the local store may rely on: the batches that were           *)
(* acknowledged stay when the process dies, the synced ones also when the      *)
(* machine does, and nothing is there that nobody asked to write.  Of a batch  *)
(* that is written between a failed append and the next log neither is         *)
(* promised.  A store is refused when it is opened only after its record of    *)
(* the tables broke, or while it is still empty.                               *)
CONSTANTS Batches, SyncBatches

VARIABLES
    state,    \* "open", "closed", "refused": the last open found a corruption
    asked,    \* batches given to Write
    visible,  \* batches a read finds, or would find after an open
    kept,     \* acknowledged: they outlive the process, the synced ones the machine
    lost,     \* of these, those that a crash of the machine took
    torn,     \* an append has failed and the log may be out of step
    broken    \* the record of the tables may be refused

vars == <<state, asked, visible, kept, lost, torn, broken>>

Init == /\ state = "closed" /\ torn = FALSE /\ broken = FALSE
        /\ asked = {} /\ visible = {} /\ kept = {} /\ lost = {}

Ask(b) == /\ state = "open"
          /\ asked' = asked \cup {b}
          /\ UNCHANGED <<state, visible, kept, lost, torn, broken>>

\* All batches of a group at once
Write(S) ==
    /\ state = "open" /\ S \subseteq asked \ visible
    /\ visible' = visible \cup S
    /\ kept' = IF torn THEN kept ELSE kept \cup S
    /\ UNCHANGED <<state, asked, lost, torn, broken>>

Tear == /\ state = "open" /\ torn' = ~torn
        /\ UNCHANGED <<state, asked, visible, kept, lost, broken>>
Break == /\ state = "open" /\ broken' = TRUE
         /\ UNCHANGED <<state, asked, visible, kept, lost, torn>>

\* What was in flight may be found, or not
Survives(S, V) == S \subseteq V /\ V \subseteq visible \cup asked

\* The store is closed, or its process dies
ProcessDies(V) ==
    /\ state = "open" /\ state' = "closed"
    /\ Survives(kept \ lost, V)
    /\ visible' = V /\ torn' = FALSE
    /\ UNCHANGED <<asked, kept, lost, broken>>
MachineDies(V) ==
    /\ state' = "closed"
    /\ Survives(kept \cap SyncBatches, V)
    /\ visible' = V /\ torn' = FALSE
    /\ lost' = lost \cup (kept \ V)
    /\ broken' \in {broken, FALSE}
    /\ UNCHANGED <<asked, kept>>

\* An open finds what was there, and writes a new record of the tables
Renew == /\ state = "closed" /\ broken' = FALSE
         /\ UNCHANGED <<state, asked, visible, kept, lost, torn>>
Open == /\ state = "closed" /\ state' = "open"
        /\ UNCHANGED <<asked, visible, kept, lost, torn, broken>>
Refuse == /\ state = "closed" /\ state' = "refused"
          /\ broken \/ visible = {}
          /\ UNCHANGED <<asked, visible, kept, lost, torn, broken>>
Retry == /\ state = "refused" /\ state' = "closed"
         /\ UNCHANGED <<asked, visible, kept, lost, torn, broken>>

Next == \/ \E b \in Batches : Ask(b)
        \/ \E S \in SUBSET Batches : Write(S) \/ ProcessDies(S) \/ MachineDies(S)
        \/ Tear \/ Break \/ Renew \/ Open \/ Refuse \/ Retry

Spec == Init /\ [][Next]_vars
=============================================================================
