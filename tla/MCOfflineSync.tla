---------------------------- MODULE MCOfflineSync ----------------------------
EXTENDS OfflineSyncProps, TLC

CONSTANTS a1, a2, a3, c1, c2, listener, none

TwoAudits    == {a1, a2}
ThreeAudits  == {a1, a2, a3}
OneCaller    == {c1}
TwoCallers   == {c1, c2}
FailedPuts   == {"putFails"}
Symmetry == Permutations(Audits) \cup Permutations(Callers)
=============================================================================
