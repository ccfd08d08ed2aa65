----------------------------- MODULE MCAppParts -----------------------------
(* Parts of the app that are models of their own, each on a small instance,    *)
(* checked side by side: a behaviour belongs to one part, and the variables of *)
(* the others stay as they start.                                              *)
EXTENDS MCTempPhotos, AssetList, DashboardStats

CONSTANTS alice, a1, a2, y1, y2, t1

VARIABLE part

-----------------------------------------------------------------------------
\* One user, listed; two loads that overlap.
OneUser        == {alice}
TwoCostCenters == {"cc1", "cc2"}
Listed         == [u \in {alice} |-> [role |-> "admin", costCenters |-> {"cc1"}, all |-> FALSE]]
NobodyOrListed == {EmptyTable, Listed}
OneFetch       == {"f1"}
TwoListLoads   == {"l1", "l2"}
AbsentList     == {"absent"}

\* The user is signed in and sees the dashboard, and a frame is due.
SignedIn ==
    /\ serverTable = Listed /\ sdkTable = Listed /\ prefsTable = Listed
    /\ account = alice /\ subscribed = TRUE
    /\ user = alice /\ authLoading = FALSE /\ rightsFetched = TRUE
    /\ allowedUsers = Listed
    /\ fetches = [f \in Fetches |-> "idle"]
    /\ notified = FALSE /\ repaint = TRUE
    /\ page = "tabs" /\ shownDenied = FALSE /\ tab = 2
    /\ crashes = 0

\* The session as the provider sees it, and more: every frame may pass on any of these
\* rights, and the app may be restarted at any time and any number of times.
PassedOn == {NoRights, [owner |-> FALSE, costCenters |-> {"cc1"}],
             [owner |-> TRUE, costCenters |-> {}]}

ListStep ==
    \/ \E l \in ListLoads : ListLoadStep(l) \/ Retry(l)
    \/ Expire
    \/ UNCHANGED sessionVars /\ (ProviderLost \/ \E r \in PassedOn : GetRights(~made, r))

\* Two assets accepted one by one, two years, a load of the audited set beside the run's own
TwoAssets == {a1, a2}
TwoYears  == {y1, y2}
OneTrack  == {t1}

PartsSymmetry == Symmetry \cup Permutations(Assets)

-----------------------------------------------------------------------------
NoPhotos    == Init /\ \A p \in Photos : docs[p] = NoDoc
NoListYet   == ProviderInit /\ SignedIn
NoDashboard == StatsInit /\ logs = {}

PartsInit ==
    \/ part = "photos" /\ Init /\ NoListYet /\ NoDashboard
    \/ part = "list" /\ NoListYet /\ NoPhotos /\ NoDashboard
    \/ part = "dashboard" /\ StatsInit /\ NoPhotos /\ NoListYet

PartsNext ==
    \/ part = "photos" /\ Next /\ UNCHANGED <<part, allVars, statsVars>>
    \/ part = "list" /\ ListStep /\ UNCHANGED <<part, vars, statsVars>>
    \/ part = "dashboard" /\ StatsNext /\ UNCHANGED <<part, vars, allVars>>

PartsSpec == PartsInit /\ [][PartsNext]_<<part, vars, allVars, statsVars>>
=============================================================================
