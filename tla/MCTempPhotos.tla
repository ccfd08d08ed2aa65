----------------------------- MODULE MCTempPhotos -----------------------------
EXTENDS TempPhotos, TLC

CONSTANTS p1, p2, n1, n2, d1, d2, k1, k2, l1, l2

OnePhoto   == {p1}
NoNos      == {}
TwoNos     == {n1, n2}
TwoDevices == {d1, d2}
TwoTasks   == {k1, k2}
OneLoad    == {l1}

\* One call at a time on each device.
TaskEach == k1 :> d1 @@ k2 :> d2

Symmetry == Permutations(AssetNos)
=============================================================================
