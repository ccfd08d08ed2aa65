------------------------------ MODULE MCAppLive ------------------------------
(* The session and the audited set, checked side by side with what must happen *)
(* in each: a behaviour belongs to one part, and the other one is at rest.     *)
EXTENDS Session, AuditTracking

CONSTANTS alice, bob, cc1, cc2, f1, f2, a1, a2, a3, y1, y2, t1

VARIABLE part

-----------------------------------------------------------------------------
\* Two users, two fetches that overlap; nobody listed; alice only; both, alice with more
\* rights.
TwoUsers       == {alice, bob}
TwoCostCenters == {cc1, cc2}
TwoFetches     == {f1, f2}

Owner      == [role |-> "owner", costCenters |-> {}, all |-> TRUE]
Admin(ccs) == [role |-> "admin", costCenters |-> ccs, all |-> FALSE]

TableOf(a, b) == [u \in {alice, bob} |-> IF u = alice THEN a ELSE b]

ThreeTables ==
    {EmptyTable, TableOf(Admin({cc1}), NoEntry), TableOf(Admin({cc1, cc2}), Owner)}

\* Three assets accepted in batches of two, two years, a load beside the run's own.
ThreeAssets == {a1, a2, a3}
TwoYears    == {y1, y2}
OneTrack    == {t1}

-----------------------------------------------------------------------------
\* Nobody is signed in, the login page is shown.
SessionAtRest ==
    /\ serverTable = EmptyTable /\ sdkTable = NoTable /\ prefsTable = NoTable
    /\ account = NoUser /\ subscribed = TRUE
    /\ user = NoUser /\ authLoading = FALSE /\ rightsFetched = TRUE
    /\ allowedUsers = EmptyTable
    /\ fetches = [f \in Fetches |-> "idle"]
    /\ notified = FALSE /\ repaint = FALSE
    /\ page = "login" /\ shownDenied = TRUE /\ tab = 2
    /\ crashes = 0

\* The audited set is loaded, it is empty.
TrackingAtRest ==
    /\ logs = {}
    /\ auditYear = ThisYear /\ audited = {} /\ logsLoading = FALSE
    /\ tracks = [t \in Tracks |-> IdleTrack]
    /\ bulk = NoBulk

LiveInit ==
    \/ part = "session" /\ SessionInit /\ TrackingAtRest
    \/ part = "tracking" /\ TrackingInit /\ SessionAtRest

LiveNext ==
    \/ part = "session" /\ SessionNext /\ UNCHANGED <<part, trackingVars>>
    \/ part = "tracking" /\ TrackingNext /\ UNCHANGED <<part, sessionVars>>

LiveSpec ==
    /\ LiveInit /\ [][LiveNext]_<<part, sessionVars, trackingVars>>
    /\ SessionFairness
    /\ TrackingFairness
=============================================================================
