------------------------------- MODULE Session -------------------------------
(***************************************************************************)
(* Who is signed in and with which rights: lib/providers/auth_provider and *)
(* the gate of lib/screens/home_screen.  The rights of all users are one   *)
(* table in the settings document; the device keeps a copy in its          *)
(* preferences and starts from it.  Every sign-in starts a fetch of the    *)
(* table that nobody awaits, so fetches of several sign-ins overlap.       *)
(*                                                                         *)
(* A step is the code between two awaits, or one frame of the user         *)
(* interface.  What a frame showed stays on the screen, with the closures  *)
(* it captured, until the next one.                                        *)
(***************************************************************************)
EXTENDS Integers, FiniteSets

CONSTANTS
    Users, NoUser,
    CostCenters,
    NoEntry,      \* a user the table does not list
    Tables,       \* the tables the settings document may hold
    NoTable,      \* no copy on the device
    Fetches,      \* bound: fetches of the table that may overlap
    MaxCrashes    \* bound: restarts in a behaviour

UserEntry == [role : {"owner", "admin"}, costCenters : SUBSET CostCenters, all : BOOLEAN]

Table == [Users -> UserEntry \cup {NoEntry}]

EmptyTable == [u \in Users |-> NoEntry]

Tabs        == 0..3       \* Survey, Search, Dashboard, Temp Photos
PrivateTabs == {0, 3}

ASSUME SessionAssumption ==
    /\ NoUser \notin Users
    /\ NoEntry \notin UserEntry
    /\ Tables \subseteq Table
    /\ EmptyTable \in Tables
    /\ NoTable \notin Tables
    /\ MaxCrashes \in Nat

VARIABLES
    serverTable,   \* settings document: allowedUsers
    sdkTable,      \* the copy the Firestore library answers from when offline
    prefsTable,    \* SharedPreferences: the copy the app starts from
    account,       \* the user Firebase Auth has signed in, kept across restarts
    subscribed,    \* the listener of auth changes is registered
    user, authLoading, rightsFetched, allowedUsers,
    fetches,       \* per fetch: "idle", "asked", "saving"
    notified,      \* notifyListeners was called since the last frame
    repaint,       \* setState was called since the last frame
    page,          \* what the last frame showed: "nothing", "login", "spinner", "tabs"
    shownDenied,   \* needsLogin as the last frame captured it
    tab,           \* HomeScreen._currentIndex
    crashes

remote  == <<serverTable, sdkTable, account>>
rights  == <<user, authLoading, rightsFetched, allowedUsers>>
screen  == <<page, shownDenied, tab>>
sessionVars == <<remote, prefsTable, subscribed, rights, fetches, notified, repaint,
                 screen, crashes>>

SessionTypeOK ==
    /\ serverTable \in Tables
    /\ sdkTable \in Tables \cup {NoTable}
    /\ prefsTable \in Tables \cup {NoTable}
    /\ account \in Users \cup {NoUser}
    /\ user \in Users \cup {NoUser}
    /\ allowedUsers \in Tables
    /\ subscribed \in BOOLEAN /\ authLoading \in BOOLEAN /\ rightsFetched \in BOOLEAN
    /\ fetches \in [Fetches -> {"idle", "asked", "saving"}]
    /\ notified \in BOOLEAN /\ repaint \in BOOLEAN /\ shownDenied \in BOOLEAN
    /\ page \in {"nothing", "login", "spinner", "tabs"}
    /\ tab \in Tabs
    /\ crashes \in 0..MaxCrashes

-----------------------------------------------------------------------------
(* The getters of AuthProvider *)

\* _currentUserEntry
CurrentUserEntry == IF user = NoUser THEN NoEntry ELSE allowedUsers[user]

Authorized ==
    /\ user # NoUser
    /\ CurrentUserEntry # NoEntry
    /\ rightsFetched \/ allowedUsers # EmptyTable

IsAppLoading ==
    authLoading \/ (user # NoUser /\ ~rightsFetched /\ allowedUsers = EmptyTable)

NoRights == [owner |-> FALSE, costCenters |-> {}]

\* role and allowedCostCenters as their readers use them: a list with '*' reads as
\* null, and null reads as no cost center.
CurrentRights ==
    LET e == CurrentUserEntry IN
    IF e = NoEntry \/ authLoading THEN NoRights
    ELSE [owner |-> e.role = "owner",
          costCenters |-> IF e.all THEN {} ELSE e.costCenters]

-----------------------------------------------------------------------------
SessionInit ==
    /\ serverTable \in Tables
    /\ sdkTable = NoTable /\ prefsTable = NoTable
    /\ account = NoUser
    /\ subscribed = FALSE
    /\ user = NoUser /\ authLoading = TRUE /\ rightsFetched = FALSE
    /\ allowedUsers = EmptyTable
    /\ fetches = [f \in Fetches |-> "idle"]
    /\ notified = FALSE /\ repaint = TRUE
    /\ page = "nothing" /\ shownDenied = TRUE /\ tab = 2
    /\ crashes = 0

\* _initAuthListener up to the subscription.
LoadCachedUsers ==
    /\ ~subscribed
    /\ subscribed' = TRUE
    /\ IF prefsTable = NoTable
       THEN UNCHANGED <<allowedUsers, notified>>
       ELSE allowedUsers' = prefsTable /\ notified' = TRUE
    /\ UNCHANGED <<remote, prefsTable, user, authLoading, rightsFetched, fetches, repaint,
                   screen, crashes>>

\* Mutant of AuthStateChanged: a sign-out resets rightsFetched, a sign-in does not.
AuthStateKeepsRights ==
    /\ subscribed
    /\ authLoading \/ user # account
    /\ user' = account
    /\ authLoading' = FALSE
    /\ notified' = TRUE
    /\ IF account = NoUser
       THEN rightsFetched' = FALSE
       ELSE UNCHANGED rightsFetched
    /\ UNCHANGED <<remote, prefsTable, subscribed, allowedUsers, fetches, repaint, screen, crashes>>

\* Mutant of AuthStateChanged: the sign-out is not announced.
AuthStateUnannounced ==
    /\ subscribed
    /\ authLoading \/ user # account
    /\ user' = account
    /\ authLoading' = FALSE
    /\ notified' = (notified \/ authLoading \/ account # NoUser)
    /\ IF account = NoUser
       THEN rightsFetched' = TRUE /\ UNCHANGED fetches
       ELSE /\ rightsFetched' = FALSE
            /\ \E f \in Fetches :
                 fetches[f] = "idle" /\ fetches' = [fetches EXCEPT ![f] = "asked"]
    /\ UNCHANGED <<remote, prefsTable, subscribed, allowedUsers, repaint, screen, crashes>>

\* The event of authStateChanges: the first one after the subscription, and one for
\* every sign-in and sign-out.
AuthStateChanged ==
    /\ subscribed
    /\ authLoading \/ user # account
    /\ user' = account
    /\ authLoading' = FALSE
    /\ notified' = TRUE
    /\ IF account = NoUser
       THEN rightsFetched' = TRUE /\ UNCHANGED fetches
       ELSE /\ rightsFetched' = FALSE
            /\ \E f \in Fetches :
                 fetches[f] = "idle" /\ fetches' = [fetches EXCEPT ![f] = "asked"]
    /\ UNCHANGED <<remote, prefsTable, subscribed, allowedUsers, repaint, screen, crashes>>

-----------------------------------------------------------------------------
(* _fetchAllowedUsersFromFirestore *)

\* The answer, from the server or from the library's copy.  The copy in the
\* preferences is written at once, or the write fails; listeners learn later.
FetchAnswered(f) ==
    /\ fetches[f] = "asked"
    /\ \E t \in {serverTable, sdkTable} \ {NoTable} :
         /\ allowedUsers' = t
         /\ sdkTable' = t
         /\ prefsTable' \in {prefsTable, t}
    /\ fetches' = [fetches EXCEPT ![f] = "saving"]
    /\ UNCHANGED <<serverTable, account, subscribed, user, authLoading, rightsFetched,
                   notified, repaint, screen, crashes>>

\* finally, after the preferences were written or not.
FetchDone(f) ==
    /\ fetches[f] = "saving"
    /\ fetches' = [fetches EXCEPT ![f] = "idle"]
    /\ rightsFetched' = TRUE
    /\ notified' = TRUE
    /\ UNCHANGED <<remote, prefsTable, subscribed, user, authLoading, allowedUsers, repaint,
                   screen, crashes>>

\* Mutant of FetchFails: only a fetch that was answered counts as done.
FetchFailsForGood(f) ==
    /\ fetches[f] = "asked"
    /\ fetches' = [fetches EXCEPT ![f] = "idle"]
    /\ notified' = TRUE
    /\ UNCHANGED <<remote, prefsTable, subscribed, rights, repaint, screen, crashes>>

\* No answer, or a document without allowedUsers: what the app has, it keeps.
FetchFails(f) ==
    /\ fetches[f] = "asked"
    /\ fetches' = [fetches EXCEPT ![f] = "idle"]
    /\ rightsFetched' = TRUE
    /\ notified' = TRUE
    /\ UNCHANGED <<remote, prefsTable, subscribed, user, authLoading, allowedUsers, repaint,
                   screen, crashes>>

-----------------------------------------------------------------------------
(* The user, the administrators, the device *)

\* Offered by the login page only.
Login(u) ==
    /\ page = "login"
    /\ account' = u
    /\ UNCHANGED <<serverTable, sdkTable, prefsTable, subscribed, rights, fetches,
                   notified, repaint, screen, crashes>>

Logout ==
    /\ page = "tabs" /\ account # NoUser
    /\ account' = NoUser
    /\ UNCHANGED <<serverTable, sdkTable, prefsTable, subscribed, rights, fetches,
                   notified, repaint, screen, crashes>>

ServerTableChanges ==
    /\ serverTable' \in Tables \ {serverTable}
    /\ UNCHANGED <<sdkTable, account, prefsTable, subscribed, rights, fetches, notified,
                   repaint, screen, crashes>>

\* Mutant of TapTab: every tab can be chosen by whoever is signed in.
TapAnyTab(i) ==
    /\ page = "tabs"
    /\ tab' = i
    /\ repaint' = TRUE
    /\ UNCHANGED <<remote, prefsTable, subscribed, rights, fetches, notified, page,
                   shownDenied, crashes>>

\* onDestinationSelected, with needsLogin as the frame captured it.
TapTab(i) ==
    /\ page = "tabs"
    /\ ~(shownDenied /\ i \in PrivateTabs)
    /\ tab' = i
    /\ repaint' = TRUE
    /\ UNCHANGED <<remote, prefsTable, subscribed, rights, fetches, notified, page,
                   shownDenied, crashes>>

\* HomeScreen.build.  Leaving a private tab is done in a callback after the frame; the
\* _redirected flag it sets is cleared by a zero timer, before the next frame.
HomeBuild(assetsLoading) ==
    LET denied  == user = NoUser \/ ~Authorized
        spinner == IsAppLoading \/ (Authorized /\ assetsLoading)
        leave   == user # NoUser /\ ~spinner /\ denied /\ tab \in PrivateTabs
    IN
    /\ notified \/ repaint
    /\ notified' = FALSE
    /\ repaint' = leave
    /\ tab' = (IF leave THEN 1 ELSE tab)
    /\ shownDenied' = denied
    /\ page' = (IF user = NoUser THEN "login" ELSE IF spinner THEN "spinner" ELSE "tabs")
    /\ UNCHANGED <<remote, prefsTable, subscribed, rights, fetches, crashes>>

\* The process is killed and started again.
SessionRestart ==
    /\ crashes < MaxCrashes
    /\ crashes' = crashes + 1
    /\ subscribed' = FALSE
    /\ user' = NoUser /\ authLoading' = TRUE /\ rightsFetched' = FALSE
    /\ allowedUsers' = EmptyTable
    /\ fetches' = [f \in Fetches |-> "idle"]
    /\ notified' = FALSE /\ repaint' = TRUE
    /\ page' = "nothing" /\ shownDenied' = TRUE /\ tab' = 2
    /\ UNCHANGED <<remote, prefsTable>>

-----------------------------------------------------------------------------
FetchStep(f) == FetchAnswered(f) \/ FetchFails(f) \/ FetchDone(f)

\* Every step but the frames and the restarts.
SessionStep ==
    \/ LoadCachedUsers \/ AuthStateChanged
    \/ \E f \in Fetches : FetchStep(f)
    \/ \E u \in Users : Login(u)
    \/ Logout
    \/ ServerTableChanges
    \/ \E i \in Tabs : TapTab(i)

SessionNext ==
    \/ SessionStep
    \/ \E b \in BOOLEAN : HomeBuild(b)
    \/ SessionRestart

SessionSpec == SessionInit /\ [][SessionNext]_sessionVars

\* The program runs its own steps, a fetch is answered or fails, frames are drawn.
\* What users and administrators do is not assumed.
SessionFairness ==
    /\ WF_sessionVars(LoadCachedUsers)
    /\ WF_sessionVars(AuthStateChanged)
    /\ \A f \in Fetches : WF_sessionVars(FetchStep(f))
    /\ WF_sessionVars(\E b \in BOOLEAN : HomeBuild(b))

FairSession == SessionSpec /\ SessionFairness

-----------------------------------------------------------------------------
\* A signed-in user whose rights are not marked as fetched has a fetch under way: no
\* order of sign-ins, answers and failures leaves the first spinner without an end.
WaitingHasFetch ==
    user # NoUser /\ ~rightsFetched => \E f \in Fetches : fetches[f] # "idle"

SessionInv == SessionTypeOK /\ WaitingHasFetch

\* No private tab stays on the screen of a user the frame found to have no rights,
\* although taps are judged by what an earlier frame captured (home_screen.dart:104).
NoPrivateTabDenied == ~(page = "tabs" /\ shownDenied /\ tab \in PrivateTabs)

\* The app does not stay in its first spinner.
RightsSettle == IsAppLoading ~> ~IsAppLoading

\* home_screen.dart:79: while the rights are being loaded, the loading page is shown.
NoVerdictWhileLoading ==
    ~(page = "tabs" /\ shownDenied /\ user # NoUser /\ ~rightsFetched)

\* home_screen.dart:48: the login page is for a user who is really signed out.
LoginPageWhenSignedOut ==
    page = "login" /\ ~notified /\ ~repaint => ~authLoading
=============================================================================
