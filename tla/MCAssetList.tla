----------------------------- MODULE MCAssetList -----------------------------
EXTENDS AssetList

CONSTANTS alice, bob, cc1, cc2, f1, f2, l1, l2, absent

OneUser        == {alice}
TwoUsers       == {alice, bob}
OneCostCenter  == {cc1}
TwoCostCenters == {cc1, cc2}
OneFetch       == {f1}
TwoFetches     == {f1, f2}
OneLoad        == {l1}

Owner      == [role |-> "owner", costCenters |-> {}, all |-> TRUE]
Admin(ccs) == [role |-> "admin", costCenters |-> ccs, all |-> FALSE]

\* Not a set of cost centers.
AbsentList == {absent}

TableOf(a, b) == [u \in Users |-> IF u = alice THEN a ELSE b]

\* Not listed, or listed for one cost center.
ListedOrNot == {EmptyTable, TableOf(Admin({cc1}), NoEntry)}

=============================================================================
