---------------------------- MODULE AppPartsProofs ----------------------------
(***************************************************************************)
(* Proofs about the session and about the list of assets, for any users,   *)
(* tables, rights and cost centers, any loads and fetches that overlap and *)
(* any number of restarts; and about the audited set, the bulk accept and  *)
(* the statistics of the dashboard, for any assets and years, any number   *)
(* of loads that overlap and any size of a batch; and about the temporary  *)
(* photographs, for any photos, numbers and devices, any calls and loads   *)
(* that overlap and any faults.                                            *)
(***************************************************************************)
EXTENDS TempPhotos, AssetList, DashboardStats, FiniteSetTheorems, TLAPS

-----------------------------------------------------------------------------
(* The session.                                                            *)

\* The login page, the spinner and the tabs: a frame keeps the types, and changes nothing
\* but the screen and the two requests for a frame.
LEMMA HomeBuildKeeps ==
  ASSUME SessionInv, NEW b, HomeBuild(b)
  PROVE  SessionInv' /\ NoPrivateTabDenied'
<1> DEFINE denied  == user = NoUser \/ ~Authorized
           spinner == IsAppLoading \/ (Authorized /\ b)
           leave   == user # NoUser /\ ~spinner /\ denied /\ tab \in PrivateTabs
<1>1. /\ notified' = FALSE /\ repaint' = leave
      /\ tab' = (IF leave THEN 1 ELSE tab)
      /\ shownDenied' = denied
      /\ page' = (IF user = NoUser THEN "login" ELSE IF spinner THEN "spinner" ELSE "tabs")
      /\ UNCHANGED <<remote, prefsTable, subscribed, rights, fetches, crashes>>
  BY Zenon DEF HomeBuild
<1>2. denied \in BOOLEAN /\ leave \in BOOLEAN
  OBVIOUS
<1>3. tab' \in Tabs
  BY <1>1 DEF SessionInv, SessionTypeOK, Tabs
<1>4. SessionTypeOK'
  BY <1>1, <1>2, <1>3 DEF SessionInv, SessionTypeOK, remote, rights
<1>5. WaitingHasFetch'
  BY <1>1 DEF SessionInv, WaitingHasFetch, rights
<1>6. NoPrivateTabDenied'
  <2> SUFFICES ASSUME page' = "tabs", shownDenied' PROVE tab' \notin PrivateTabs
    BY DEF NoPrivateTabDenied
  <2>1. user # NoUser /\ ~spinner /\ denied
    BY <1>1
  <2> QED BY <1>1, <2>1 DEF PrivateTabs
<1> QED BY <1>4, <1>5, <1>6 DEF SessionInv

LEMMA SessionInitKeeps == SessionInit => SessionInv /\ NoPrivateTabDenied
<1> SUFFICES ASSUME SessionInit PROVE SessionInv /\ NoPrivateTabDenied
  OBVIOUS
<1>1. fetches \in [Fetches -> {"idle", "asked", "saving"}]
  BY DEF SessionInit
<1>2. /\ crashes \in 0..MaxCrashes /\ tab \in Tabs
  BY SessionAssumption DEF SessionInit, Tabs
<1>3. SessionTypeOK
  BY <1>1, <1>2, SessionAssumption DEF SessionInit, SessionTypeOK
<1> QED BY <1>3 DEF SessionInit, SessionInv, WaitingHasFetch, NoPrivateTabDenied

LEMMA FetchKeeps ==
  ASSUME SessionInv, NEW f \in Fetches, FetchStep(f)
  PROVE  SessionInv' /\ (page' = page /\ shownDenied' = shownDenied /\ tab' = tab)
<1>1. CASE FetchAnswered(f)
  <2>1. PICK t \in {serverTable, sdkTable} \ {NoTable} :
          allowedUsers' = t /\ sdkTable' = t /\ prefsTable' \in {prefsTable, t}
    BY <1>1 DEF FetchAnswered
  <2>2. t \in Tables
    BY DEF SessionInv, SessionTypeOK
  <2>3. /\ fetches' = [fetches EXCEPT ![f] = "saving"] /\ fetches'[f] = "saving"
        /\ fetches' \in [Fetches -> {"idle", "asked", "saving"}]
    BY <1>1 DEF FetchAnswered, SessionInv, SessionTypeOK
  <2>4. UNCHANGED <<serverTable, account, subscribed, user, authLoading, rightsFetched,
                    notified, repaint, screen, crashes>>
    BY <1>1 DEF FetchAnswered
  <2>5. SessionTypeOK'
    BY <2>1, <2>2, <2>3, <2>4 DEF SessionInv, SessionTypeOK, screen
  <2> QED BY <2>3, <2>4, <2>5 DEF SessionInv, WaitingHasFetch, screen
<1>2. CASE FetchFails(f) \/ FetchDone(f)
  <2>1. /\ fetches' = [fetches EXCEPT ![f] = "idle"] /\ rightsFetched' = TRUE
        /\ notified' = TRUE
        /\ UNCHANGED <<remote, prefsTable, subscribed, user, authLoading, allowedUsers,
                       repaint, screen, crashes>>
    BY <1>2 DEF FetchFails, FetchDone
  <2> QED BY <2>1 DEF SessionInv, SessionTypeOK, WaitingHasFetch, remote, screen
<1> QED BY <1>1, <1>2 DEF FetchStep

LEMMA SessionStepKeeps ==
  ASSUME SessionInv, NoPrivateTabDenied, SessionStep
  PROVE  SessionInv' /\ NoPrivateTabDenied'
<1> USE DEF SessionInv
<1>1. CASE LoadCachedUsers
  BY <1>1, ZenonT(40)
     DEF LoadCachedUsers, SessionTypeOK, WaitingHasFetch, NoPrivateTabDenied, remote, screen
<1>2. CASE AuthStateChanged
  <2>1. /\ user' = account /\ authLoading' = FALSE /\ notified' = TRUE
        /\ UNCHANGED <<remote, prefsTable, subscribed, allowedUsers, repaint, screen, crashes>>
    BY <1>2 DEF AuthStateChanged
  <2>2. CASE account = NoUser
    <3>1. rightsFetched' = TRUE /\ fetches' = fetches
      BY <1>2, <2>2 DEF AuthStateChanged
    <3> QED BY <2>1, <3>1 DEF SessionTypeOK, WaitingHasFetch, NoPrivateTabDenied, remote,
                              screen
  <2>3. CASE account # NoUser
    <3>1. PICK f \in Fetches : fetches' = [fetches EXCEPT ![f] = "asked"]
      BY <1>2, <2>3 DEF AuthStateChanged
    <3>2. rightsFetched' = FALSE /\ fetches'[f] = "asked"
          /\ fetches' \in [Fetches -> {"idle", "asked", "saving"}]
      BY <1>2, <2>3, <3>1 DEF AuthStateChanged, SessionTypeOK
    <3> QED BY <2>1, <3>2 DEF SessionTypeOK, WaitingHasFetch, NoPrivateTabDenied, remote,
                              screen
  <2> QED BY <2>2, <2>3
<1>3. ASSUME NEW f \in Fetches, FetchStep(f) PROVE SessionInv' /\ NoPrivateTabDenied'
  BY <1>3, FetchKeeps DEF NoPrivateTabDenied
<1>4. ASSUME NEW u \in Users, Login(u) PROVE SessionInv' /\ NoPrivateTabDenied'
  BY <1>4 DEF Login, SessionTypeOK, WaitingHasFetch, NoPrivateTabDenied, rights, screen
<1>5. CASE Logout
  BY <1>5 DEF Logout, SessionTypeOK, WaitingHasFetch, NoPrivateTabDenied, rights, screen
<1>6. CASE ServerTableChanges
  BY <1>6 DEF ServerTableChanges, SessionTypeOK, WaitingHasFetch, NoPrivateTabDenied, rights,
              screen
<1>7. ASSUME NEW i \in Tabs, TapTab(i) PROVE SessionInv' /\ NoPrivateTabDenied'
  BY <1>7 DEF TapTab, SessionTypeOK, WaitingHasFetch, NoPrivateTabDenied, remote, rights
<1> QED BY <1>1, <1>2, <1>3, <1>4, <1>5, <1>6, <1>7 DEF SessionStep

LEMMA SessionRestartKeeps ==
  ASSUME SessionInv, SessionRestart
  PROVE  SessionInv' /\ NoPrivateTabDenied'
<1>1. crashes' \in 0..MaxCrashes
  BY SessionAssumption DEF SessionRestart, SessionInv, SessionTypeOK
<1>2. /\ subscribed' = FALSE /\ user' = NoUser /\ authLoading' = TRUE
      /\ rightsFetched' = FALSE /\ allowedUsers' = EmptyTable
      /\ fetches' = [f \in Fetches |-> "idle"]
      /\ notified' = FALSE /\ repaint' = TRUE
      /\ page' = "nothing" /\ shownDenied' = TRUE /\ tab' = 2
      /\ UNCHANGED <<remote, prefsTable>>
  BY DEF SessionRestart
<1>3. fetches' \in [Fetches -> {"idle", "asked", "saving"}] /\ tab' \in Tabs
  BY <1>2 DEF Tabs
<1>4. SessionTypeOK'
  BY <1>1, <1>2, <1>3, SessionAssumption DEF SessionInv, SessionTypeOK, remote
<1> QED BY <1>2, <1>4 DEF SessionInv, WaitingHasFetch, NoPrivateTabDenied

LEMMA SessionStutterKeeps ==
  ASSUME SessionInv, NoPrivateTabDenied, UNCHANGED sessionVars
  PROVE  SessionInv' /\ NoPrivateTabDenied'
BY DEF sessionVars, remote, rights, screen, SessionInv, SessionTypeOK, WaitingHasFetch,
       NoPrivateTabDenied

-----------------------------------------------------------------------------
\* However sign-ins, answers, failures and restarts are ordered, a signed-in user whose
\* rights are not marked as fetched has a fetch under way, and no private tab is on the
\* screen of a user the frame found to have no rights.
LEMMA SessionIsSound == SessionSpec => [](SessionInv /\ NoPrivateTabDenied)
<1>1. SessionInv /\ NoPrivateTabDenied /\ [SessionNext]_sessionVars
        => (SessionInv /\ NoPrivateTabDenied)'
  BY SessionStepKeeps, HomeBuildKeeps, SessionRestartKeeps, SessionStutterKeeps
     DEF SessionNext
<1> QED BY <1>1, SessionInitKeeps, PTL DEF SessionSpec

\* The first spinner always has a fetch under way that will end it
\* (_fetchAllowedUsersFromFirestore of lib/providers/auth_provider.dart, not awaited).
THEOREM SpinnerHasFetch == SessionSpec => []SessionInv
BY SessionIsSound, PTL

\* Taps are judged by what an earlier frame captured, and still no private tab stays open
\* without rights (HomeScreen.build, lib/screens/home_screen.dart).
THEOREM PrivateTabsStayClosed == SessionSpec => []NoPrivateTabDenied
BY SessionIsSound, PTL

-----------------------------------------------------------------------------
(* The list.                                                               *)

AnyListInv ==
    /\ SessionInv /\ NoPrivateTabDenied
    /\ AssetTypeOK /\ SpinnerHasLoad /\ ContextFollowsRights

\* A key whose list has a time, or is about to get one, has a list of the last 30 days or
\* none at all: FreshIsRecent and what keeps it through the second write of a load.
Timed(k) ==
    cachedTime[k] = "fresh" \/ \E l \in ListLoads : loads[l].pc = "stamp" /\ loads[l].rights = k

TimedIsRecent == \A k \in Keys : Timed(k) => cachedList[k] = NoList \/ k \in recent

-----------------------------------------------------------------------------
(* The operators the actions are built from *)

LEMMA KeyTypes ==
  ASSUME NEW r \in Rights
  PROVE  Key(r) \in Keys /\ Key(r) \in Rights /\ Scope(Key(r)) = Scope(r)
BY DEF Key, Keys, Rights, Scope

LEMMA KeysAreRights == Keys \subseteq Rights
BY KeyTypes DEF Keys

LEMMA ScopeTypes == ASSUME NEW r \in Rights PROVE Scope(r) \subseteq CostCenters
BY DEF Scope, Rights

LEMMA NoRightsTypes == NoRights \in Rights /\ NoLoad \in ListLoad /\ NoLoad.pc = "idle"
BY DEF NoRights, Rights, NoLoad, ListLoad

\* What the session grants are rights.
LEMMA CurrentRightsTypes == ASSUME SessionTypeOK PROVE CurrentRights \in Rights
<1> DEFINE e == CurrentUserEntry
<1>1. CASE e = NoEntry \/ authLoading
  BY <1>1, NoRightsTypes DEF CurrentRights
<1>2. CASE ~(e = NoEntry \/ authLoading)
  <2>1. user \in Users /\ allowedUsers \in Table
    BY <1>2, SessionAssumption DEF CurrentUserEntry, SessionTypeOK
  <2>2. e \in UserEntry
    BY <1>2, <2>1 DEF CurrentUserEntry, Table
  <2>3. e.costCenters \subseteq CostCenters /\ (e.role = "owner") \in BOOLEAN
    BY <2>2 DEF UserEntry
  <2>4. CurrentRights = [owner |-> e.role = "owner",
                         costCenters |-> IF e.all THEN {} ELSE e.costCenters]
    BY <1>2 DEF CurrentRights
  <2> HIDE DEF e
  <2>5. (IF e.all THEN {} ELSE e.costCenters) \subseteq CostCenters
    BY <2>3
  <2> QED BY <2>3, <2>4, <2>5, Zenon DEF Rights
<1> QED BY <1>1, <1>2

\* A step of one load: the others stay.
LEMMA GotoTypes ==
  ASSUME AssetTypeOK, NEW l \in ListLoads,
         NEW pc \in {"idle", "unstamp", "reload", "query", "stamp"}, NEW r \in Rights,
         Goto(l, pc, r)
  PROVE  /\ loads' \in [ListLoads -> ListLoad]
         /\ loads'[l].pc = pc /\ loads'[l].rights = r
         /\ \A m \in ListLoads \ {l} : loads'[m] = loads[m]
<1>1. [pc |-> pc, rights |-> r] \in ListLoad
  BY DEF ListLoad
<1> QED BY <1>1 DEF Goto, AssetTypeOK

\* A step of a load keeps what holds of the session: it asks for a frame, if anything.
LEMMA LoadLeavesSession ==
  ASSUME SessionInv, NoPrivateTabDenied, UNCHANGED sessionRest, repaint' \in BOOLEAN
  PROVE  SessionInv' /\ NoPrivateTabDenied'
BY DEF SessionInv, SessionTypeOK, WaitingHasFetch, NoPrivateTabDenied, sessionRest, remote,
       rights, screen

\* A load goes on as pc and the spinner is right: it runs no longer, or it did and this
\* load still runs or was not what it waited for.
LEMMA LoadKeepsInv ==
  ASSUME AnyListInv, NEW l \in ListLoads,
         NEW pc \in {"idle", "unstamp", "reload", "query", "stamp"}, NEW r \in Rights,
         Goto(l, pc, r),
         UNCHANGED sessionRest, repaint' \in BOOLEAN, UNCHANGED <<made, context>>,
         assets' \subseteq CostCenters, assetsLoading' \in BOOLEAN, error' \in BOOLEAN,
         cachedList' \in [Keys -> {NoList} \cup SUBSET CostCenters],
         cachedTime' \in [Keys -> {"fresh", "stale"}], recent' \subseteq Keys,
         \/ assetsLoading' = FALSE
         \/ pc \in {"reload", "query"}
         \/ assetsLoading' = assetsLoading /\ loads[l].pc \notin {"reload", "query"}
  PROVE  AnyListInv'
<1> USE DEF AnyListInv
<1>1. SessionInv' /\ NoPrivateTabDenied'
  BY LoadLeavesSession
<1>2. /\ loads' \in [ListLoads -> ListLoad]
      /\ loads'[l].pc = pc /\ loads'[l].rights = r
      /\ \A m \in ListLoads \ {l} : loads'[m] = loads[m]
  BY GotoTypes
<1>3. AssetTypeOK'
  BY <1>2 DEF AssetTypeOK
<1>4. SpinnerHasLoad'
  BY <1>2 DEF SpinnerHasLoad
<1>5. ContextFollowsRights'
  BY DEF ContextFollowsRights, CurrentRights, CurrentUserEntry, sessionRest, rights
<1> QED BY <1>1, <1>3, <1>4, <1>5

\* What is in the cache under the rights of now.
LEMMA CacheTypes ==
  ASSUME AssetTypeOK
  PROVE  /\ Key(context) \in Keys /\ Key(context) \in Rights /\ context \in Rights
         /\ cachedList[Key(context)] # NoList => cachedList[Key(context)] \subseteq CostCenters
BY KeyTypes DEF AssetTypeOK

-----------------------------------------------------------------------------
(* Every schedule *)

LEMMA LoadStepKeeps ==
  ASSUME AnyListInv, NEW l \in ListLoads, ListLoadStep(l) \/ Retry(l)
  PROVE  AnyListInv'
<1>1. /\ AssetTypeOK /\ loads[l] \in ListLoad /\ loads[l].rights \in Rights
      /\ assets \subseteq CostCenters /\ assetsLoading \in BOOLEAN /\ error \in BOOLEAN
      /\ cachedList \in [Keys -> {NoList} \cup SUBSET CostCenters]
      /\ cachedTime \in [Keys -> {"fresh", "stale"}] /\ recent \subseteq Keys
      /\ repaint \in BOOLEAN /\ context \in Rights
  BY DEF AnyListInv, AssetTypeOK, ListLoad, SessionInv, SessionTypeOK
<1>2. /\ Key(context) \in Keys /\ Key(context) \in Rights /\ NoRights \in Rights
      /\ Scope(loads[l].rights) \subseteq CostCenters
  BY <1>1, CacheTypes, NoRightsTypes, ScopeTypes
<1>3. CASE ServeFromCache(l)
  <2>1. cachedList[Key(context)] \subseteq CostCenters
    BY <1>1, <1>3, CacheTypes DEF ServeFromCache
  <2> QED BY <1>1, <1>2, <1>3, <2>1, LoadKeepsInv DEF ServeFromCache, Show, cache
<1>4. CASE SkipLoad(l)
  BY <1>1, <1>2, <1>4, LoadKeepsInv DEF SkipLoad, Show, cache
<1>5. CASE Query(l)
  BY <1>1, <1>2, <1>5, LoadKeepsInv DEF Query, listVars, cache
<1>6. CASE QueryReturns(l)
  <2>1. cachedList' \in [Keys -> {NoList} \cup SUBSET CostCenters]
    BY <1>1, <1>2, <1>6 DEF QueryReturns, Show
  <2> QED BY <1>1, <1>2, <1>6, <2>1, LoadKeepsInv DEF QueryReturns, Show
<1>7. CASE QueryReturnsUnstored(l)
  BY <1>1, <1>2, <1>7, LoadKeepsInv DEF QueryReturnsUnstored, cache
<1>8. CASE QueryFails(l)
  BY <1>1, <1>2, <1>8, LoadKeepsInv DEF QueryFails, cache
<1>9. CASE StampCache(l)
  <2>1. cachedTime' \in [Keys -> {"fresh", "stale"}]
    BY <1>1, <1>9 DEF StampCache
  <2> QED BY <1>1, <1>2, <1>9, <2>1, LoadKeepsInv DEF StampCache, listVars
<1>10. CASE Unstamp(l)
  <2>1. cachedTime' \in [Keys -> {"fresh", "stale"}]
    BY <1>1, <1>10 DEF Unstamp
  <2> QED BY <1>1, <1>2, <1>10, <2>1, LoadKeepsInv DEF Unstamp, listVars
<1>11. CASE Retry(l)
  <2>1. cachedList' \in [Keys -> {NoList} \cup SUBSET CostCenters]
    BY <1>1, <1>11 DEF Retry
  <2> QED BY <1>1, <1>2, <1>11, <2>1, LoadKeepsInv DEF Retry, listVars
<1>12. CASE StampFails(l)
  BY <1>1, <1>2, <1>12, LoadKeepsInv DEF StampFails, cache
<1> QED BY <1>3, <1>4, <1>5, <1>6, <1>7, <1>8, <1>9, <1>10, <1>11, <1>12 DEF ListLoadStep

\* The session's own steps: whoever changes the rights announces it, at once or, for a
\* fetch, when it is done.
LEMMA SessionStepAnnounced ==
  ASSUME AnyListInv, SessionStep, UNCHANGED assetVars
  PROVE  AnyListInv'
<1> USE DEF AnyListInv
<1>1. SessionInv' /\ NoPrivateTabDenied'
  BY SessionStepKeeps
<1>2. AssetTypeOK' /\ SpinnerHasLoad'
  BY DEF assetVars, listVars, cache, AssetTypeOK, SpinnerHasLoad
<1>3. ContextFollowsRights'
  <2> USE DEF ContextFollowsRights, CurrentRights, CurrentUserEntry
  <2>1. CASE LoadCachedUsers
    BY <2>1 DEF LoadCachedUsers, assetVars
  <2>2. CASE AuthStateChanged
    BY <2>2 DEF AuthStateChanged
  <2>3. ASSUME NEW f \in Fetches, FetchStep(f) PROVE ContextFollowsRights'
    <3>1. CASE FetchAnswered(f)
      BY <3>1 DEF FetchAnswered, SessionInv, SessionTypeOK
    <3>2. CASE FetchFails(f) \/ FetchDone(f)
      BY <3>2 DEF FetchFails, FetchDone
    <3> QED BY <2>3, <3>1, <3>2 DEF FetchStep
  <2>4. ASSUME NEW u \in Users, Login(u) PROVE ContextFollowsRights'
    BY <2>4 DEF Login, assetVars, rights
  <2>5. CASE Logout
    BY <2>5 DEF Logout, assetVars, rights
  <2>6. CASE ServerTableChanges
    BY <2>6 DEF ServerTableChanges, assetVars, rights
  <2>7. ASSUME NEW i \in Tabs, TapTab(i) PROVE ContextFollowsRights'
    BY <2>7 DEF TapTab, assetVars, rights
  <2> QED BY <2>1, <2>2, <2>3, <2>4, <2>5, <2>6, <2>7 DEF SessionStep
<1> QED BY <1>1, <1>2, <1>3
\* A frame passes the rights on, if a change was announced; the first one with a user makes
\* the provider and its first load.
LEMMA FrameKeeps == ASSUME AnyListInv, Frame PROVE AnyListInv'
<1> USE DEF AnyListInv
<1> DEFINE makes == ~made /\ user # NoUser
<1>1. /\ HomeBuild(assetsLoading /\ assets = {})
      /\ made' = (made \/ makes)
      /\ context' = (IF makes \/ (made /\ notified) THEN CurrentRights ELSE context)
      /\ \/ ~makes /\ UNCHANGED loads
         \/ makes /\ \E l \in ListLoads : loads[l].pc = "idle" /\ Goto(l, "reload", NoRights)
      /\ UNCHANGED <<listVars, cache>>
  BY Zenon DEF Frame, GetRights
<1>2. SessionInv' /\ NoPrivateTabDenied'
  BY <1>1, HomeBuildKeeps
<1>3. /\ notified' = FALSE
      /\ UNCHANGED <<user, authLoading, allowedUsers, fetches>>
  BY <1>1 DEF HomeBuild, rights
<1>4. CurrentRights' = CurrentRights /\ CurrentRights \in Rights
  BY <1>3, CurrentRightsTypes DEF CurrentRights, CurrentUserEntry, SessionInv
<1>5. /\ loads' \in [ListLoads -> ListLoad]
      /\ makes => \E l \in ListLoads : loads'[l].pc = "reload"
      /\ ~makes => loads' = loads
  <2>1. CASE ~makes /\ UNCHANGED loads
    BY <2>1 DEF AssetTypeOK
  <2>2. ASSUME NEW l \in ListLoads, makes, Goto(l, "reload", NoRights)
        PROVE  /\ loads' \in [ListLoads -> ListLoad]
               /\ makes => \E m \in ListLoads : loads'[m].pc = "reload"
               /\ ~makes => loads' = loads
    BY <2>2, GotoTypes, NoRightsTypes
  <2> QED BY <1>1, <2>1, <2>2
<1>6. AssetTypeOK'
  BY <1>1, <1>4, <1>5 DEF AssetTypeOK, listVars, cache
<1>7. SpinnerHasLoad'
  BY <1>1, <1>5 DEF SpinnerHasLoad, listVars
<1>8. ContextFollowsRights'
  BY <1>1, <1>3, <1>4 DEF ContextFollowsRights
<1> QED BY <1>2, <1>6, <1>7, <1>8

LEMMA ExpireTypes ==
  ASSUME AssetTypeOK, Expire
  PROVE  cachedTime' \in [Keys -> {"fresh", "stale"}] /\ recent' \subseteq Keys
BY DEF Expire, AssetTypeOK

LEMMA ListNextKeeps == ASSUME AnyListInv, ListNext PROVE AnyListInv'
<1> USE DEF AnyListInv
<1>1. CASE Expire
  <2>1. UNCHANGED <<sessionVars, made, context, listVars, cachedList, loads>>
    BY <1>1 DEF Expire
  <2>2. SessionInv' /\ NoPrivateTabDenied'
    BY <2>1, SessionStutterKeeps
  <2>3. AssetTypeOK' /\ SpinnerHasLoad'
    BY <1>1, <2>1, ExpireTypes DEF AssetTypeOK, SpinnerHasLoad, listVars
  <2>4. ContextFollowsRights'
    BY <2>1 DEF ContextFollowsRights, CurrentRights, CurrentUserEntry, sessionVars, rights
  <2> QED BY <2>2, <2>3, <2>4
<1>2. CASE RestartOfAll
  <2>1. /\ SessionRestart /\ made' = FALSE /\ context' = NoRights
        /\ assets' = {} /\ assetsLoading' = TRUE /\ error' = FALSE
        /\ loads' = [l \in ListLoads |-> NoLoad] /\ UNCHANGED cache
    BY <1>2 DEF RestartOfAll, ProviderLost
  <2>2. SessionInv' /\ NoPrivateTabDenied'
    BY <2>1, SessionRestartKeeps
  <2>3. AssetTypeOK'
    BY <2>1, NoRightsTypes DEF AssetTypeOK, cache
  <2> QED BY <2>1, <2>2, <2>3 DEF SpinnerHasLoad, ContextFollowsRights
<1> QED BY <1>1, <1>2, SessionStepAnnounced, FrameKeeps, LoadStepKeeps DEF ListNext

LEMMA ListStutterKeeps == ASSUME AnyListInv, UNCHANGED allVars PROVE AnyListInv'
<1> USE DEF AnyListInv
<1>1. UNCHANGED sessionVars /\ UNCHANGED assetVars
  BY DEF allVars
<1>2. SessionInv' /\ NoPrivateTabDenied'
  BY <1>1, SessionStutterKeeps
<1>3. AssetTypeOK' /\ SpinnerHasLoad'
  BY <1>1 DEF assetVars, listVars, cache, AssetTypeOK, SpinnerHasLoad
<1>4. ContextFollowsRights'
  BY <1>1 DEF ContextFollowsRights, CurrentRights, CurrentUserEntry, sessionVars, rights,
              assetVars
<1> QED BY <1>2, <1>3, <1>4

LEMMA ListInitKeeps == ListInit => AnyListInv /\ TimedIsRecent
<1> SUFFICES ASSUME ListInit PROVE AnyListInv /\ TimedIsRecent
  OBVIOUS
<1>1. SessionInv /\ NoPrivateTabDenied
  BY SessionInitKeeps DEF ListInit
<1>2. /\ made = FALSE /\ context = NoRights
      /\ assets = {} /\ assetsLoading = TRUE /\ error = FALSE
      /\ cachedList = [k \in Keys |-> NoList]
      /\ cachedTime = [k \in Keys |-> "stale"]
      /\ recent = {}
      /\ loads = [l \in ListLoads |-> NoLoad]
  BY DEF ListInit, ProviderInit
<1>3. AssetTypeOK
  BY <1>2, NoRightsTypes DEF AssetTypeOK
<1> QED BY <1>1, <1>2, <1>3, NoRightsTypes
        DEF AnyListInv, SpinnerHasLoad, ContextFollowsRights, TimedIsRecent

-----------------------------------------------------------------------------
(* The cache and its times *)

\* A step of one load that leaves the cache as it is, and is not a step to the second write.
LEMMA CacheUntouched ==
  ASSUME AssetTypeOK, TimedIsRecent, UNCHANGED cache, NEW l \in ListLoads,
         NEW pc \in {"idle", "unstamp", "reload", "query"}, NEW r \in Rights, Goto(l, pc, r)
  PROVE  TimedIsRecent'
<1>1. loads'[l].pc = pc /\ \A m \in ListLoads \ {l} : loads'[m] = loads[m]
  BY GotoTypes
<1> QED BY <1>1 DEF TimedIsRecent, Timed, cache

\* A load answers before it writes a time, and a retry removes the list before its time.
LEMMA LoadKeepsTimes ==
  ASSUME AssetTypeOK, TimedIsRecent, NEW l \in ListLoads, ListLoadStep(l) \/ Retry(l)
  PROVE  TimedIsRecent'
<1>1. /\ loads[l] \in ListLoad /\ loads[l].rights \in Rights
      /\ cachedList \in [Keys -> {NoList} \cup SUBSET CostCenters]
      /\ cachedTime \in [Keys -> {"fresh", "stale"}]
      /\ Key(context) \in Keys /\ Key(context) \in Rights /\ NoRights \in Rights
      /\ context \in Rights
  BY CacheTypes, NoRightsTypes DEF AssetTypeOK, ListLoad
<1>2. CASE ServeFromCache(l) \/ SkipLoad(l) \/ Query(l)
  BY <1>1, <1>2, CacheUntouched DEF ServeFromCache, SkipLoad, Query
<1>3. CASE QueryReturnsUnstored(l) \/ QueryFails(l) \/ StampFails(l)
  BY <1>1, <1>3, CacheUntouched DEF QueryReturnsUnstored, QueryFails, StampFails
<1>4. CASE QueryReturns(l)
  <2>1. /\ cachedList' = [cachedList EXCEPT ![Key(context)] = assets']
        /\ recent' = recent \cup {Key(context)} /\ cachedTime' = cachedTime
        /\ Goto(l, "stamp", Key(context))
    BY <1>4 DEF QueryReturns
  <2>2. /\ loads'[l].rights = Key(context)
        /\ \A m \in ListLoads \ {l} : loads'[m] = loads[m]
    BY <1>1, <2>1, GotoTypes
  <2> QED BY <1>1, <2>1, <2>2 DEF TimedIsRecent, Timed
<1>5. CASE StampCache(l)
  <2>1. /\ loads[l].pc = "stamp" /\ Goto(l, "idle", NoRights)
        /\ cachedTime' = [cachedTime EXCEPT ![loads[l].rights] = "fresh"]
        /\ cachedList' = cachedList /\ recent' = recent
    BY <1>5 DEF StampCache
  <2>2. loads'[l].pc = "idle" /\ \A m \in ListLoads \ {l} : loads'[m] = loads[m]
    BY <1>1, <2>1, GotoTypes
  <2> QED BY <1>1, <2>1, <2>2 DEF TimedIsRecent, Timed
<1>6. CASE Unstamp(l)
  <2>1. /\ loads[l].pc = "unstamp" /\ Goto(l, "reload", NoRights)
        /\ cachedTime' = [cachedTime EXCEPT ![loads[l].rights] = "stale"]
        /\ cachedList' = cachedList /\ recent' = recent
    BY <1>6 DEF Unstamp
  <2>2. loads'[l].pc = "reload" /\ \A m \in ListLoads \ {l} : loads'[m] = loads[m]
    BY <1>1, <2>1, GotoTypes
  <2> QED BY <1>1, <2>1, <2>2 DEF TimedIsRecent, Timed
<1>7. CASE Retry(l)
  <2>1. /\ Goto(l, "unstamp", Key(context))
        /\ cachedList' = [cachedList EXCEPT ![Key(context)] = NoList]
        /\ cachedTime' = cachedTime /\ recent' = recent
    BY <1>7 DEF Retry
  <2>2. loads'[l].pc = "unstamp" /\ \A m \in ListLoads \ {l} : loads'[m] = loads[m]
    BY <1>1, <2>1, GotoTypes
  <2> QED BY <1>1, <2>1, <2>2 DEF TimedIsRecent, Timed
<1> QED BY <1>2, <1>3, <1>4, <1>5, <1>6, <1>7 DEF ListLoadStep

LEMMA TimesKept ==
  ASSUME AssetTypeOK, TimedIsRecent, [ListNext]_allVars
  PROVE  TimedIsRecent'
<1>1. ASSUME UNCHANGED <<cache, loads>> PROVE TimedIsRecent'
  BY <1>1 DEF TimedIsRecent, Timed, cache
<1>2. CASE Frame
  <2>1. ASSUME NEW l \in ListLoads, Goto(l, "reload", NoRights) PROVE TimedIsRecent'
    BY <1>2, <2>1, CacheUntouched, NoRightsTypes DEF Frame, GetRights
  <2> QED BY <1>1, <1>2, <2>1 DEF Frame, GetRights
<1>3. CASE RestartOfAll
  BY <1>3, NoRightsTypes DEF RestartOfAll, ProviderLost, cache, TimedIsRecent, Timed
<1>4. CASE Expire
  <2>1. PICK k \in Keys :
          /\ \A l \in ListLoads : loads[l].pc = "stamp" => loads[l].rights # k
          /\ cachedTime' = [cachedTime EXCEPT ![k] = "stale"]
          /\ recent' = recent \ {k}
    BY <1>4 DEF Expire
  <2> QED BY <1>4, <2>1 DEF Expire, TimedIsRecent, Timed, AssetTypeOK
<1> QED BY <1>1, <1>2, <1>3, <1>4, LoadKeepsTimes DEF ListNext, allVars, assetVars

-----------------------------------------------------------------------------
(* The theorems *)

LEMMA AnyListIsSound == ListSpec => []AnyListInv
<1>1. AnyListInv /\ [ListNext]_allVars => AnyListInv'
  BY ListNextKeeps, ListStutterKeeps
<1> QED BY <1>1, ListInitKeeps, PTL DEF ListSpec

\* The rights the provider has are those of the session as soon as an announced change was
\* drawn, whatever sign-ins, fetches and frames overlap (the proxy provider of main.dart).
THEOREM ContextIsCurrent == ListSpec => []ContextFollowsRights
BY AnyListIsSound, PTL DEF AnyListInv

\* Whatever loads overlap, fail and are retried, the list's spinner runs only while a load
\* runs that will end it (lib/providers/asset_provider.dart).
THEOREM ListSpinnerHasLoad == ListSpec => []ListInv
BY AnyListIsSound, PTL DEF AnyListInv, ListInv

\* Whatever restarts and failed writes come between a list and its time, and whatever
\* rights change meanwhile, a list the cache would serve is of the last 30 days
\* (loadAssetsWithCacheLogic, fetchAssetsFromServer and retry of asset_provider.dart).
THEOREM CacheIsRecent == ListSpec => []FreshIsRecent
<1>1. AnyListInv /\ TimedIsRecent /\ [ListNext]_allVars => TimedIsRecent'
  BY TimesKept DEF AnyListInv
<1>2. TimedIsRecent => FreshIsRecent
  BY DEF TimedIsRecent, Timed, FreshIsRecent
<1> QED BY <1>1, <1>2, AnyListIsSound, ListInitKeeps, PTL DEF ListSpec

-----------------------------------------------------------------------------
(* The audited set, the bulk accept and the dashboard.                      *)

HasLog(a, L) == \E y \in Years : <<a, y>> \in L

\* Before the refresh, an asset of the run is waiting, in the batch under way, counted as
\* failed, or has a log: what AllAccountedFor becomes when nothing waits any more.
RunKeepsAccount ==
    bulk.pc = "commit" =>
        \A a \in bulk.need : a \in bulk.todo \cup bulk.chunk \cup bulk.failed \/ HasLog(a, logs)

\* What a load has been answered are assets with a log of the year it asked for.
AnswersHaveLogs ==
    \A t \in Tracks : tracks[t].answer \subseteq AuditedIn(tracks[t].year, logs)

TrackingInv ==
    /\ TrackingTypeOK
    /\ RunKeepsAccount /\ AllAccountedFor
    /\ AuditedOfOneYear /\ AnswersHaveLogs

\* All of the invariant but the part of the loads, and the part of the run.
LoadsInv == AuditedOfOneYear /\ AnswersHaveLogs
RunInv == RunKeepsAccount /\ AllAccountedFor

-----------------------------------------------------------------------------
(* The operators the actions are built from *)

LEMMA IdleTypes == IdleTrack \in TrackState /\ NoBulk \in BulkState
BY TrackingAssumption DEF IdleTrack, TrackState, NoBulk, BulkState

\* Logs are only added.
LEMMA MoreLogs ==
  ASSUME NEW L, NEW M, L \subseteq M
  PROVE  /\ \A y \in Years : AuditedIn(y, L) \subseteq AuditedIn(y, M)
         /\ \A a : HasLog(a, L) => HasLog(a, M)
BY DEF AuditedIn, HasLog

\* A step that leaves the loads alone keeps what is known of them.
LEMMA LoadsKept ==
  ASSUME LoadsInv, logs \subseteq logs', UNCHANGED <<audited, tracks>>
  PROVE  LoadsInv'
<1>1. \A y \in Years : AuditedIn(y, logs) \subseteq AuditedIn(y, logs')
  BY MoreLogs
<1> QED BY <1>1 DEF LoadsInv, AuditedOfOneYear, AnswersHaveLogs, AuditedIn

\* A step that leaves the run alone keeps its account.
LEMMA RunKept ==
  ASSUME RunInv, logs \subseteq logs', UNCHANGED bulk
  PROVE  RunInv'
BY MoreLogs DEF RunInv, RunKeepsAccount, AllAccountedFor, HasLog

LEMMA AskType ==
  ASSUME TrackingTypeOK, NEW t \in Tracks, NEW y \in Years, Ask(t, y)
  PROVE  tracks' \in [Tracks -> TrackState]
<1>1. [IdleTrack EXCEPT !.pc = "asked", !.year = y] \in TrackState
  BY DEF IdleTrack, TrackState
<1> QED BY <1>1 DEF Ask, TrackingTypeOK

LEMMA AskAnswers ==
  ASSUME TrackingTypeOK, AnswersHaveLogs, NEW t \in Tracks, NEW y \in Years, Ask(t, y),
         UNCHANGED logs
  PROVE  AnswersHaveLogs'
<1>1. tracks'[t].answer = {}
  BY DEF Ask, TrackingTypeOK, IdleTrack
<1>2. \A u \in Tracks \ {t} : tracks'[u] = tracks[u]
  BY DEF Ask, TrackingTypeOK
<1> QED BY <1>1, <1>2 DEF AnswersHaveLogs, AuditedIn

LEMMA BeginRetryLoads ==
  ASSUME TrackingTypeOK, LoadsInv, NEW t \in Tracks, BeginRetry(t), logs \subseteq logs'
  PROVE  /\ LoadsInv'
         /\ auditYear' \in Years /\ audited' \subseteq Assets /\ logsLoading' \in BOOLEAN
         /\ tracks' \in [Tracks -> TrackState]
<1>1. [IdleTrack EXCEPT !.pc = "reloading"] \in TrackState
  BY IdleTypes DEF TrackState
<1>2. tracks' \in [Tracks -> TrackState]
  BY <1>1 DEF BeginRetry, TrackingTypeOK
<1>3. tracks'[t].answer = {} /\ \A u \in Tracks \ {t} : tracks'[u] = tracks[u]
  BY DEF BeginRetry, TrackingTypeOK, IdleTrack
<1>4. \A y \in Years : AuditedIn(y, logs) \subseteq AuditedIn(y, logs')
  BY MoreLogs
<1>5. AnswersHaveLogs'
  BY <1>3, <1>4 DEF LoadsInv, AnswersHaveLogs, AuditedIn
<1>6. AuditedOfOneYear'
  BY TrackingAssumption DEF BeginRetry, AuditedOfOneYear
<1> QED BY <1>2, <1>5, <1>6 DEF LoadsInv, BeginRetry, TrackingTypeOK

\* The load t ends with the assets S as the audited set.
LEMMA SettleKeeps ==
  ASSUME TrackingInv, NEW t \in Tracks, NEW S \in SUBSET Assets, Settle(t, S),
         NEW y \in Years, S \subseteq AuditedIn(y, logs)
  PROVE  TrackingInv'
<1>1. TrackingTypeOK'
  <2>1. tracks' \in [Tracks -> TrackState]
    BY IdleTypes DEF Settle, TrackingInv, TrackingTypeOK
  <2>2. bulk' \in BulkState /\ bulk'.chunk \cap bulk'.todo = {}
    BY IdleTypes DEF Settle, TrackingInv, TrackingTypeOK, NoBulk
  <2> QED BY <2>1, <2>2 DEF Settle, TrackingInv, TrackingTypeOK
<1>2. LoadsInv'
  <2>1. AuditedOfOneYear'
    BY DEF Settle, AuditedOfOneYear, AuditedIn
  <2>2. tracks'[t].answer = {} /\ \A u \in Tracks \ {t} : tracks'[u] = tracks[u]
    BY DEF Settle, TrackingInv, TrackingTypeOK, IdleTrack
  <2> QED BY <2>1, <2>2 DEF Settle, LoadsInv, TrackingInv, AnswersHaveLogs, AuditedIn
<1>3. RunInv'
  <2>1. CASE bulk' = bulk
    BY <2>1, RunKept DEF Settle, TrackingInv, RunInv
  <2>2. CASE bulk' = NoBulk
    BY <2>2 DEF NoBulk, RunInv, RunKeepsAccount, AllAccountedFor
  <2> QED BY <2>1, <2>2 DEF Settle
<1> QED BY <1>1, <1>2, <1>3 DEF TrackingInv, LoadsInv, RunInv

\* The loop goes on with a run b whose assets are waiting, failed, or have a log.
LEMMA ProceedKeeps ==
  ASSUME TrackingInv, NEW b \in BulkState, Proceed(b),
         logs \subseteq logs', logs' \subseteq Pairs,
         \A a \in b.need : a \in b.todo \cup b.failed \/ HasLog(a, logs')
  PROVE  TrackingInv'
<1>1. CASE /\ b.todo # {}
           /\ \E c \in SUBSET b.todo :
                /\ c # {}
                /\ bulk' = [b EXCEPT !.pc = "commit", !.chunk = c, !.todo = @ \ c,
                                     !.chunkYear = auditYear]
           /\ UNCHANGED tracking
  <2>1. PICK c \in SUBSET b.todo :
            bulk' = [b EXCEPT !.pc = "commit", !.chunk = c, !.todo = @ \ c,
                              !.chunkYear = auditYear]
    BY <1>1
  <2>2. /\ b.todo \in SUBSET Assets /\ c \in SUBSET Assets /\ b.todo \ c \in SUBSET Assets
        /\ auditYear \in Years
    BY DEF BulkState, TrackingInv, TrackingTypeOK
  <2>3. bulk' \in BulkState
    BY <2>1, <2>2 DEF BulkState
  <2>4. /\ bulk'.pc = "commit" /\ bulk'.chunk = c /\ bulk'.todo = b.todo \ c
        /\ bulk'.need = b.need /\ bulk'.failed = b.failed
    BY <2>1 DEF BulkState
  <2>5. TrackingTypeOK'
    BY <1>1, <2>3, <2>4 DEF tracking, TrackingInv, TrackingTypeOK
  <2>6. RunInv'
    BY <2>4 DEF RunInv, RunKeepsAccount, AllAccountedFor
  <2>7. LoadsInv'
    BY <1>1, LoadsKept DEF tracking, TrackingInv, LoadsInv
  <2> QED BY <2>5, <2>6, <2>7 DEF TrackingInv, LoadsInv, RunInv
<1>2. CASE /\ b.todo = {}
           /\ bulk' = [b EXCEPT !.pc = "refresh", !.chunk = {}]
           /\ BeginRetry(BulkTrack)
  <2>1. bulk' \in BulkState
    BY <1>2 DEF BulkState
  <2>2. /\ bulk'.pc = "refresh" /\ bulk'.chunk = {}
        /\ bulk'.need = b.need /\ bulk'.failed = b.failed
    BY <1>2 DEF BulkState
  <2>3. /\ LoadsInv'
        /\ auditYear' \in Years /\ audited' \subseteq Assets /\ logsLoading' \in BOOLEAN
        /\ tracks' \in [Tracks -> TrackState]
    BY <1>2, BeginRetryLoads DEF TrackingInv, LoadsInv, Tracks
  <2>4. RunInv'
    BY <1>2, <2>2 DEF RunInv, RunKeepsAccount, AllAccountedFor, HasLog
  <2> QED BY <2>1, <2>2, <2>3, <2>4 DEF TrackingInv, TrackingTypeOK, LoadsInv, RunInv
<1> QED BY <1>1, <1>2 DEF Proceed

\* The batch under way is answered, written if it does not count as failed.
LEMMA AfterCommitKeeps ==
  ASSUME TrackingInv, NEW F \in SUBSET bulk.chunk, AfterCommit(F), bulk.pc = "commit",
         logs \subseteq logs', logs' \subseteq Pairs,
         \A a \in bulk.chunk : a \in F \/ HasLog(a, logs')
  PROVE  TrackingInv'
<1> DEFINE b == [bulk EXCEPT !.failed = bulk.failed \cup F]
<1>1. bulk \in BulkState /\ bulk.chunk \in SUBSET Assets /\ bulk.failed \in SUBSET Assets
  BY DEF TrackingInv, TrackingTypeOK, BulkState
<1>2. CASE bulk.alive /\ Proceed(b)
  <2>1. b \in BulkState
    <3>1. bulk.failed \cup F \in SUBSET Assets
      BY <1>1
    <3> QED BY <1>1, <3>1 DEF BulkState
  <2>2. b.need = bulk.need /\ b.todo = bulk.todo /\ b.failed = bulk.failed \cup F
    BY <1>1 DEF BulkState
  <2>3. \A a \in bulk.need :
            a \in bulk.todo \cup bulk.chunk \cup bulk.failed \/ HasLog(a, logs')
    BY MoreLogs DEF TrackingInv, RunKeepsAccount
  <2>4. \A a \in b.need : a \in b.todo \cup b.failed \/ HasLog(a, logs')
    BY <2>2, <2>3
  <2> HIDE DEF b
  <2> QED BY <1>2, <2>1, <2>4, ProceedKeeps
<1>3. CASE bulk' = NoBulk /\ UNCHANGED tracking
  <2>1. TrackingTypeOK'
    BY <1>3, IdleTypes DEF tracking, TrackingInv, TrackingTypeOK, NoBulk
  <2>2. LoadsInv'
    BY <1>3, LoadsKept DEF tracking, TrackingInv, LoadsInv
  <2>3. RunInv'
    BY <1>3 DEF NoBulk, RunInv, RunKeepsAccount, AllAccountedFor
  <2> QED BY <2>1, <2>2, <2>3 DEF TrackingInv, LoadsInv, RunInv
<1> QED BY <1>2, <1>3 DEF AfterCommit

\* A batch that is written gives each of its assets a log.
LEMMA WriteChunkLogs ==
  ASSUME TrackingTypeOK, WriteChunk
  PROVE  /\ logs \subseteq logs' /\ logs' \subseteq Pairs
         /\ \A a \in bulk.chunk : HasLog(a, logs')
<1>1. bulk.chunk \subseteq Assets /\ bulk.chunkYear \in Years
  BY DEF TrackingTypeOK, BulkState
<1> QED BY <1>1 DEF TrackingTypeOK, WriteChunk, Pairs, HasLog

-----------------------------------------------------------------------------
(* The invariant is inductive *)

LEMMA InitKeeps == TrackingInit => TrackingInv
<1> SUFFICES ASSUME TrackingInit PROVE TrackingInv
  OBVIOUS
<1>1. PICK t \in UserTracks :
          tracks = [u \in Tracks |-> IF u = t THEN [IdleTrack EXCEPT !.pc = "reloading"]
                                              ELSE IdleTrack]
  BY DEF TrackingInit
<1>2. [IdleTrack EXCEPT !.pc = "reloading"] \in TrackState
  BY IdleTypes DEF TrackState
<1>3. tracks \in [Tracks -> TrackState]
  BY <1>1, <1>2, IdleTypes
<1>4. \A u \in Tracks : tracks[u].answer = {}
  BY <1>1 DEF IdleTrack
<1>5. TrackingTypeOK
  BY <1>3, IdleTypes, TrackingAssumption DEF TrackingInit, TrackingTypeOK, NoBulk
<1>6. AuditedOfOneYear /\ AnswersHaveLogs
  BY <1>4, TrackingAssumption DEF TrackingInit, AuditedOfOneYear, AnswersHaveLogs
<1>7. RunKeepsAccount /\ AllAccountedFor
  BY DEF TrackingInit, NoBulk, RunKeepsAccount, AllAccountedFor
<1> QED BY <1>5, <1>6, <1>7 DEF TrackingInv

\* Every step of the provider, the run and the other devices keeps it.
LEMMA StayKeeps ==
  ASSUME TrackingInv, Stay
  PROVE  TrackingInv'
<1> USE DEF TrackingInv
<1>1. ASSUME NEW t \in Tracks, TrackAsks(t) PROVE TrackingInv'
  <2>1. Ask(t, auditYear) /\ auditYear \in Years /\ UNCHANGED <<logs, auditYear, audited, bulk>>
    BY <1>1 DEF TrackAsks, TrackingTypeOK
  <2>2. tracks' \in [Tracks -> TrackState] /\ AnswersHaveLogs'
    BY <2>1, AskType, AskAnswers
  <2>3. RunInv'
    BY <2>1, RunKept DEF RunInv
  <2>4. logsLoading' = TRUE
    BY <1>1 DEF TrackAsks
  <2> QED BY <2>1, <2>2, <2>3, <2>4 DEF RunInv, TrackingTypeOK, AuditedOfOneYear, AuditedIn
<1>2. ASSUME NEW t \in Tracks, TrackAnswered(t) PROVE TrackingInv'
  <2> DEFINE S == AuditedIn(tracks[t].year, logs)
             r == [tracks[t] EXCEPT !.pc = "answered", !.answer = S]
  <2>1. tracks[t] \in TrackState /\ S \in SUBSET Assets
    BY DEF TrackingTypeOK, AuditedIn
  <2>2. r \in TrackState /\ r.answer = S /\ r.year = tracks[t].year
    BY <2>1 DEF TrackState
  <2>3. tracks' = [tracks EXCEPT ![t] = r]
    BY <1>2, <2>1 DEF TrackAnswered, TrackState, TrackingTypeOK
  <2> HIDE DEF r
  <2>4. tracks' \in [Tracks -> TrackState]
    BY <2>2, <2>3 DEF TrackingTypeOK
  <2>5. AnswersHaveLogs'
    BY <1>2, <2>2, <2>3 DEF TrackAnswered, TrackingTypeOK, AnswersHaveLogs, AuditedIn
  <2>6. RunInv'
    BY <1>2, RunKept DEF TrackAnswered, RunInv
  <2> QED BY <1>2, <2>4, <2>5, <2>6
             DEF TrackAnswered, RunInv, TrackingTypeOK, AuditedOfOneYear, AuditedIn
<1>3. ASSUME NEW t \in Tracks, TrackReturns(t) PROVE TrackingInv'
  <2>1. tracks[t] \in TrackState
    BY DEF TrackingTypeOK
  <2>2. /\ tracks[t].answer \in SUBSET Assets /\ tracks[t].year \in Years
        /\ tracks[t].answer \subseteq AuditedIn(tracks[t].year, logs)
    BY <2>1 DEF TrackState, AnswersHaveLogs
  <2> QED BY <1>3, <2>2, SettleKeeps DEF TrackReturns
<1>4. ASSUME NEW t \in Tracks, TrackFails(t) PROVE TrackingInv'
  <2>1. ThisYear \in Years /\ {} \subseteq AuditedIn(ThisYear, logs) /\ Settle(t, {})
    BY <1>4, TrackingAssumption DEF TrackFails
  <2> QED BY <2>1, SettleKeeps
<1>5. ASSUME NEW t \in UserTracks, RefreshTap(t) PROVE TrackingInv'
  <2>1. t \in Tracks /\ BeginRetry(t) /\ UNCHANGED <<logs, bulk>>
    BY <1>5 DEF RefreshTap, Tracks
  <2>2. /\ LoadsInv'
        /\ auditYear' \in Years /\ audited' \subseteq Assets /\ logsLoading' \in BOOLEAN
        /\ tracks' \in [Tracks -> TrackState]
    BY <2>1, BeginRetryLoads DEF LoadsInv
  <2>3. RunInv'
    BY <2>1, RunKept DEF RunInv
  <2> QED BY <2>1, <2>2, <2>3 DEF RunInv, LoadsInv, TrackingTypeOK
<1>6. ASSUME NEW t \in UserTracks, NEW y \in Years, SetAuditYear(t, y) PROVE TrackingInv'
  <2>1. t \in Tracks /\ Ask(t, y) /\ UNCHANGED <<logs, audited, bulk>>
    BY <1>6 DEF SetAuditYear, Tracks
  <2>2. tracks' \in [Tracks -> TrackState] /\ AnswersHaveLogs'
    BY <2>1, AskType, AskAnswers
  <2>3. RunInv'
    BY <2>1, RunKept DEF RunInv
  <2>4. auditYear' = y /\ logsLoading' = TRUE
    BY <1>6 DEF SetAuditYear
  <2> QED BY <2>1, <2>2, <2>3, <2>4 DEF RunInv, TrackingTypeOK, AuditedOfOneYear, AuditedIn
<1>7. CASE BulkTap
  <2>1. bulk' \in BulkState /\ bulk'.pc = "dialog" /\ bulk'.chunk \cap bulk'.todo = {}
    BY <1>7, IdleTypes DEF BulkTap, TrackingTypeOK, NoBulk, BulkState
  <2>2. LoadsInv'
    BY <1>7, LoadsKept DEF BulkTap, tracking, LoadsInv
  <2> QED BY <1>7, <2>1, <2>2
             DEF BulkTap, tracking, LoadsInv, TrackingTypeOK, RunKeepsAccount, AllAccountedFor
<1>8. CASE BulkCancel
  <2>1. bulk' \in BulkState /\ bulk'.pc = "idle" /\ bulk'.chunk \cap bulk'.todo = {}
    BY <1>8, IdleTypes DEF BulkCancel, NoBulk
  <2>2. LoadsInv'
    BY <1>8, LoadsKept DEF BulkCancel, tracking, LoadsInv
  <2> QED BY <1>8, <2>1, <2>2
             DEF BulkCancel, tracking, LoadsInv, TrackingTypeOK, RunKeepsAccount, AllAccountedFor
<1>9. CASE BulkConfirm
  <2> DEFINE b == [bulk EXCEPT !.todo = Assets \ audited, !.need = Assets \ audited]
  <2>1. bulk \in BulkState /\ Assets \ audited \in SUBSET Assets
    BY DEF TrackingTypeOK
  <2>2. b \in BulkState /\ b.need = b.todo
    BY <2>1 DEF BulkState
  <2>3. Proceed(b) /\ logs' = logs /\ logs \subseteq Pairs
    BY <1>9 DEF BulkConfirm, TrackingTypeOK
  <2> HIDE DEF b
  <2> QED BY <2>2, <2>3, ProceedKeeps
<1>10. CASE ChunkCommits
  <2>1. WriteChunk /\ AfterCommit({}) /\ bulk.pc = "commit"
    BY <1>10 DEF ChunkCommits
  <2> QED BY <2>1, WriteChunkLogs, AfterCommitKeeps
<1>11. CASE ChunkFails
  <2>1. AfterCommit(bulk.chunk) /\ bulk.pc = "commit"
    BY <1>11 DEF ChunkFails
  <2>2. logs \subseteq logs' /\ logs' \subseteq Pairs
    BY <1>11, WriteChunkLogs DEF ChunkFails, TrackingTypeOK
  <2> QED BY <2>1, <2>2, AfterCommitKeeps
<1>12. ASSUME NEW a \in Assets, SubmitAudit(a) PROVE TrackingInv'
  <2>1. logs \subseteq logs' /\ logs' \subseteq Pairs
    BY <1>12, TrackingAssumption DEF SubmitAudit, TrackingTypeOK, Pairs
  <2>2. UNCHANGED <<auditYear, audited, logsLoading, tracks, bulk>>
    BY <1>12 DEF SubmitAudit, tracking
  <2>3. LoadsInv' /\ RunInv'
    BY <2>1, <2>2, LoadsKept, RunKept DEF LoadsInv, RunInv
  <2> QED BY <2>1, <2>2, <2>3 DEF LoadsInv, RunInv, TrackingTypeOK
<1> QED BY <1>1, <1>2, <1>3, <1>4, <1>5, <1>6, <1>7, <1>8, <1>9, <1>10, <1>11, <1>12
           DEF Stay, TrackStep, BulkStep

LEMMA LeaveKeeps ==
  ASSUME TrackingInv, LeaveDashboard
  PROVE  TrackingInv'
<1>1. bulk \in BulkState
  BY DEF TrackingInv, TrackingTypeOK
<1>2. bulk' \in BulkState
  BY <1>1 DEF LeaveDashboard, BulkState
<1>3. /\ bulk'.pc = bulk.pc /\ bulk'.todo = bulk.todo /\ bulk'.chunk = bulk.chunk
      /\ bulk'.need = bulk.need /\ bulk'.failed = bulk.failed
  BY <1>1 DEF LeaveDashboard, BulkState
<1>4. logs' = logs /\ UNCHANGED <<auditYear, audited, logsLoading, tracks>>
  BY DEF LeaveDashboard, tracking
<1>5. LoadsInv'
  BY <1>4, LoadsKept DEF TrackingInv, LoadsInv
<1>6. RunInv'
  BY <1>3, <1>4 DEF TrackingInv, RunInv, RunKeepsAccount, AllAccountedFor, HasLog
<1> QED BY <1>2, <1>3, <1>4, <1>5, <1>6 DEF TrackingInv, TrackingTypeOK, LoadsInv, RunInv

LEMMA TrackingInvariant == TrackingSpec => []TrackingInv
<1>1. TrackingInv /\ [TrackingNext]_trackingVars => TrackingInv'
  <2> SUFFICES ASSUME TrackingInv, [TrackingNext]_trackingVars PROVE TrackingInv'
    OBVIOUS
  <2>1. CASE Stay
    BY <2>1, StayKeeps
  <2>2. CASE LeaveDashboard
    BY <2>2, LeaveKeeps
  <2>3. CASE UNCHANGED trackingVars
    BY <2>3 DEF trackingVars, tracking, TrackingInv, TrackingTypeOK, RunKeepsAccount, AllAccountedFor,
                AuditedOfOneYear, AnswersHaveLogs, AuditedIn, HasLog
  <2> QED BY <2>1, <2>2, <2>3 DEF TrackingNext
<1> QED BY InitKeeps, <1>1, PTL DEF TrackingSpec

-----------------------------------------------------------------------------
(* The theorems *)

\* The state of the loads and of the bulk accept is well-typed, and no asset is both in
\* the batch under way and waiting for a later one (_handleBulkAccept).
THEOREM TrackingTypeCorrect == TrackingSpec => []TrackingTypeOK
BY TrackingInvariant, PTL DEF TrackingInv

\* When a bulk accept goes on to its refresh, each asset it set out to accept has a log or
\* was counted as failed, with any batches refused or written without an answer.
THEOREM BulkAccountsForAll == TrackingSpec => []AllAccountedFor
BY TrackingInvariant, PTL DEF TrackingInv

\* Whatever loads of the audited set overlap, the assets shown as audited all have a log
\* of one and the same year (_loadAuditedAssetNos, setAuditYear, retry).
THEOREM AuditedIsOfOneYear == TrackingSpec => []AuditedOfOneYear
BY TrackingInvariant, PTL DEF TrackingInv

-----------------------------------------------------------------------------
(* The statistics of the dashboard *)

\* The audited sets of a year that are shown, counted, or on their way.
Snapshots(y) ==
    (IF setYear = y THEN {audited} ELSE {})
    \cup {tracks[t].answer : t \in {u \in Tracks : tracks[u].year = y}}
    \cup (IF stats # NoStats /\ stats.of = y THEN {stats.audited} ELSE {})

\* Logs are only added: of one year, what was found earlier is part of what is found later.
SnapshotsGrow ==
    \A y \in Years : \A A \in Snapshots(y) :
        /\ A \subseteq AuditedIn(y, logs)
        /\ \A B \in Snapshots(y) : A \subseteq B \/ B \subseteq A

StatsInv ==
    /\ TrackingInv /\ SnapshotsGrow /\ drawn \in BOOLEAN /\ setYear \in Years
    /\ drawn => /\ stats # NoStats /\ Cardinality(stats.audited) = Cardinality(audited)
                /\ stats.audited = audited \/ stats.of # setYear

\* A step has no sets of a year but those of before, an empty one, and what the server has
\* now.
NoOthers ==
    /\ logs \subseteq logs'
    /\ \A y \in Years : Snapshots(y)' \subseteq Snapshots(y) \cup {{}, AuditedIn(y, logs)}

LEMMA GrowthKept ==
  ASSUME SnapshotsGrow, NoOthers
  PROVE  SnapshotsGrow'
<1> SUFFICES ASSUME NEW y \in Years, NEW A \in Snapshots(y)'
             PROVE  /\ A \subseteq AuditedIn(y, logs')
                    /\ \A B \in Snapshots(y)' : A \subseteq B \/ B \subseteq A
  BY DEF SnapshotsGrow, AuditedIn
<1>1. AuditedIn(y, logs) \subseteq AuditedIn(y, logs')
  BY DEF NoOthers, AuditedIn
<1>2. ASSUME NEW B \in Snapshots(y)'
      PROVE  B \subseteq AuditedIn(y, logs) /\ B \in Snapshots(y) \cup {{}, AuditedIn(y, logs)}
  <2>1. B \in Snapshots(y) \cup {{}, AuditedIn(y, logs)}
    BY <1>2 DEF NoOthers
  <2> QED BY <2>1 DEF SnapshotsGrow
<1>3. ASSUME NEW B \in Snapshots(y)' PROVE A \subseteq B \/ B \subseteq A
  <2>1. CASE A \in Snapshots(y) /\ B \in Snapshots(y)
    BY <2>1 DEF SnapshotsGrow
  <2>2. CASE A \notin Snapshots(y) \/ B \notin Snapshots(y)
    BY <1>2, <1>3, <2>2
  <2> QED BY <2>1, <2>2
<1> QED BY <1>1, <1>2, <1>3

\* The year of the set, after a step in which no load sets it and one in which t does.
LEMMA YearStays ==
  ASSUME setYear' = YearOfSet, \A t \in Tracks : ~Settles(t)
  PROVE  setYear' = setYear
BY DEF YearOfSet

LEMMA YearOfLoad ==
  ASSUME setYear' = YearOfSet, NEW t \in Tracks, Settles(t),
         \A u \in Tracks \ {t} : ~Settles(u)
  PROVE  setYear' = tracks[t].year
<1>1. (CHOOSE u \in Tracks : Settles(u)) \in Tracks /\ Settles(CHOOSE u \in Tracks : Settles(u))
  BY Zenon
<1>2. (CHOOSE u \in Tracks : Settles(u)) = t
  BY <1>1
<1> QED BY <1>2 DEF YearOfSet

\* A load t begins, or ends, with the answer of r.
LEMMA TrackSnapshots ==
  ASSUME TrackingTypeOK, NEW t \in Tracks, NEW r, tracks' = [tracks EXCEPT ![t] = r],
         stats' = stats, logs \subseteq logs',
         audited' \in Snapshots(setYear') \cup {{}, AuditedIn(setYear', logs)},
         r.answer \in {{}, AuditedIn(r.year, logs)}
  PROVE  NoOthers
<1> SUFFICES ASSUME NEW y \in Years, NEW A \in Snapshots(y)'
             PROVE  A \in Snapshots(y) \cup {{}, AuditedIn(y, logs)}
  BY DEF NoOthers
<1>1. CASE A = audited' /\ setYear' = y
  BY <1>1
<1>2. CASE \E u \in Tracks : A = tracks'[u].answer /\ tracks'[u].year = y
  <2>1. PICK u \in Tracks : A = tracks'[u].answer /\ tracks'[u].year = y
    BY <1>2
  <2>2. CASE u = t
    BY <2>1, <2>2 DEF TrackingTypeOK
  <2>3. CASE u # t
    BY <2>1, <2>3 DEF Snapshots, TrackingTypeOK
  <2> QED BY <2>2, <2>3
<1>3. CASE stats # NoStats /\ A = stats.audited /\ stats.of = y
  BY <1>3 DEF Snapshots
<1> QED BY <1>1, <1>2, <1>3 DEF Snapshots

\* A step that leaves the sets alone.
LEMMA SameSnapshots ==
  ASSUME UNCHANGED <<audited, tracks, stats, setYear>>, logs \subseteq logs'
  PROVE  NoOthers
BY DEF NoOthers, Snapshots

\* A step of the stay that leaves the loads alone.
LEMMA QuietSnapshots ==
  ASSUME setYear' = YearOfSet, UNCHANGED <<audited, tracks, stats>>, logs \subseteq logs'
  PROVE  NoOthers
<1>1. \A t \in Tracks : ~Settles(t)
  BY DEF Settles
<1> QED BY <1>1, YearStays, SameSnapshots

\* A load t begins, or goes on: the set of before stays, or is emptied.
LEMMA GoesOnSnapshots ==
  ASSUME TrackingTypeOK, NEW t \in Tracks, NEW r, tracks' = [tracks EXCEPT ![t] = r],
         setYear' = YearOfSet, stats' = stats, logs \subseteq logs', audited' \in {audited, {}},
         r.pc # "idle", r.answer \in {{}, AuditedIn(r.year, logs)}
  PROVE  NoOthers
<1>1. \A u \in Tracks : ~Settles(u)
  BY DEF Settles, TrackingTypeOK
<1>2. audited' \in Snapshots(setYear') \cup {{}, AuditedIn(setYear', logs)}
  BY <1>1, YearStays DEF Snapshots
<1> QED BY <1>2, TrackSnapshots

LEMMA RetrySnapshots ==
  ASSUME TrackingTypeOK, NEW t \in Tracks, BeginRetry(t), setYear' = YearOfSet,
         stats' = stats, logs \subseteq logs'
  PROVE  NoOthers
<1> DEFINE r == [IdleTrack EXCEPT !.pc = "reloading"]
<1>1. audited' = {} /\ tracks' = [tracks EXCEPT ![t] = r]
  BY DEF BeginRetry
<1>2. r.answer = {} /\ r.pc # "idle"
  BY DEF IdleTrack
<1> HIDE DEF r
<1> QED BY <1>1, <1>2, GoesOnSnapshots

LEMMA AskSnapshots ==
  ASSUME TrackingTypeOK, NEW t \in Tracks, NEW y, Ask(t, y), setYear' = YearOfSet,
         UNCHANGED <<audited, stats, logs>>
  PROVE  NoOthers
<1> DEFINE r == [IdleTrack EXCEPT !.pc = "asked", !.year = y]
<1>1. r.answer = {} /\ r.pc # "idle"
  BY DEF IdleTrack
<1>2. tracks' = [tracks EXCEPT ![t] = r]
  BY DEF Ask
<1> HIDE DEF r
<1> QED BY <1>1, <1>2, GoesOnSnapshots

LEMMA SettleSnapshots ==
  ASSUME TrackingTypeOK, NEW t \in Tracks, tracks[t].pc # "idle",
         NEW S \in {tracks[t].answer, {}}, Settle(t, S), setYear' = YearOfSet, stats' = stats
  PROVE  NoOthers
<1>1. /\ audited' = S /\ logs' = logs /\ tracks' = [tracks EXCEPT ![t] = IdleTrack]
      /\ IdleTrack.answer = {} /\ IdleTrack.pc = "idle"
  BY DEF Settle, IdleTrack
<1>2. Settles(t) /\ \A u \in Tracks \ {t} : ~Settles(u)
  BY <1>1 DEF Settles, TrackingTypeOK
<1>3. setYear' = tracks[t].year
  BY <1>2, YearOfLoad
<1>4. audited' \in Snapshots(setYear') \cup {{}, AuditedIn(setYear', logs)}
  BY <1>1, <1>3 DEF Snapshots
<1> QED BY <1>1, <1>4, TrackSnapshots

LEMMA ProceedSnapshots ==
  ASSUME TrackingTypeOK, NEW b, Proceed(b), setYear' = YearOfSet, stats' = stats,
         logs \subseteq logs'
  PROVE  NoOthers
<1>1. CASE UNCHANGED tracking
  BY <1>1, QuietSnapshots DEF tracking
<1>2. CASE BeginRetry(BulkTrack)
  BY <1>2, RetrySnapshots DEF Tracks
<1> QED BY <1>1, <1>2 DEF Proceed

LEMMA StaySnapshots ==
  ASSUME TrackingTypeOK, Stay, setYear' = YearOfSet, stats' = stats
  PROVE  NoOthers
<1>1. ASSUME NEW t \in Tracks, TrackAsks(t) PROVE NoOthers
  BY <1>1, AskSnapshots DEF TrackAsks
<1>2. ASSUME NEW t \in Tracks, TrackAnswered(t) PROVE NoOthers
  <2> DEFINE r == [tracks[t] EXCEPT !.pc = "answered", !.answer = AuditedIn(tracks[t].year, logs)]
  <2>1. tracks[t] \in TrackState
    BY DEF TrackingTypeOK
  <2>2. r.year = tracks[t].year /\ r.pc # "idle"
    BY <2>1 DEF TrackState
  <2>3. r.answer = AuditedIn(r.year, logs)
    BY <2>1, <2>2 DEF TrackState
  <2>4. tracks' = [tracks EXCEPT ![t] = r]
    BY <1>2, <2>1 DEF TrackAnswered, TrackState, TrackingTypeOK
  <2>5. audited' = audited /\ logs' = logs
    BY <1>2 DEF TrackAnswered
  <2> HIDE DEF r
  <2> QED BY <2>2, <2>3, <2>4, <2>5, GoesOnSnapshots
<1>3. ASSUME NEW t \in Tracks, TrackReturns(t) \/ TrackFails(t) PROVE NoOthers
  <2>1. tracks[t].pc # "idle"
    BY <1>3 DEF TrackReturns, TrackFails
  <2>2. Settle(t, tracks[t].answer) \/ Settle(t, {})
    BY <1>3 DEF TrackReturns, TrackFails
  <2> QED BY <2>1, <2>2, SettleSnapshots
<1>4. ASSUME NEW t \in UserTracks, RefreshTap(t) PROVE NoOthers
  BY <1>4, RetrySnapshots DEF RefreshTap, Tracks
<1>5. ASSUME NEW t \in UserTracks, NEW y \in Years, SetAuditYear(t, y) PROVE NoOthers
  BY <1>5, AskSnapshots DEF SetAuditYear, Tracks
<1>6. ASSUME BulkTap \/ BulkCancel PROVE NoOthers
  BY <1>6, QuietSnapshots DEF BulkTap, BulkCancel, tracking
<1>7. CASE BulkConfirm
  BY <1>7, ProceedSnapshots DEF BulkConfirm
<1>8. ASSUME NEW F, AfterCommit(F), logs \subseteq logs' PROVE NoOthers
  <2>1. CASE Proceed([bulk EXCEPT !.failed = @ \cup F])
    BY <1>8, <2>1, ProceedSnapshots
  <2>2. CASE UNCHANGED tracking
    BY <1>8, <2>2, QuietSnapshots DEF tracking
  <2> QED BY <1>8, <2>1, <2>2 DEF AfterCommit
<1>9. CASE BulkStep
  <2>1. logs \subseteq logs' /\ (AfterCommit({}) \/ AfterCommit(bulk.chunk))
    BY <1>9 DEF BulkStep, ChunkCommits, ChunkFails, WriteChunk
  <2> QED BY <1>8, <2>1
<1>10. ASSUME NEW a \in Assets, SubmitAudit(a) PROVE NoOthers
  BY <1>10, QuietSnapshots DEF SubmitAudit, tracking
<1> QED BY <1>1, <1>2, <1>3, <1>4, <1>5, <1>6, <1>7, <1>9, <1>10 DEF Stay, TrackStep

LEMMA YearTypes ==
  ASSUME TrackingTypeOK, setYear \in Years, setYear' = YearOfSet
  PROVE  setYear' \in Years
<1>1. CASE \E t \in Tracks : Settles(t)
  <2>1. (CHOOSE t \in Tracks : Settles(t)) \in Tracks
    BY <1>1, Zenon
  <2> QED BY <1>1, <2>1 DEF YearOfSet, TrackingTypeOK, TrackState
<1>2. CASE \A t \in Tracks : ~Settles(t)
  BY <1>2, YearStays
<1> QED BY <1>1, <1>2

\* Of two sets of assets of the same size, none is a part of the other but itself.
LEMMA SameSizeSameSet ==
  ASSUME NEW A \in SUBSET Assets, NEW B \in SUBSET Assets, A \subseteq B \/ B \subseteq A,
         Cardinality(A) = Cardinality(B)
  PROVE  A = B
<1>1. IsFiniteSet(A) /\ IsFiniteSet(B)
  BY TrackingAssumption, FS_Subset
<1> QED BY <1>1, FS_Subset

LEMMA StatsInitKeeps == ASSUME StatsInit PROVE StatsInv
<1>1. TrackingInv
  BY InitKeeps DEF StatsInit
<1>2. audited = {} /\ \A t \in Tracks : tracks[t].answer = {}
  BY DEF StatsInit, TrackingInit, IdleTrack
<1>3. \A y \in Years : \A A \in Snapshots(y) : A = {}
  BY <1>2 DEF StatsInit, Snapshots
<1> QED BY <1>1, <1>3, TrackingAssumption DEF StatsInit, StatsInv, SnapshotsGrow

LEMMA StatsKeep ==
  ASSUME StatsInv, [StatsNext]_statsVars
  PROVE  StatsInv'
<1>t. TrackingTypeOK /\ TrackingInv /\ SnapshotsGrow /\ setYear \in Years
  BY DEF StatsInv, TrackingInv
<1>1. CASE StayAnnounced
  <2>1. /\ Stay /\ stats' = stats /\ setYear' = YearOfSet
        /\ drawn' = (drawn /\ UNCHANGED <<auditYear, audited, logsLoading, bulk>>)
    BY <1>1 DEF StayAnnounced
  <2>2. TrackingInv' /\ SnapshotsGrow' /\ setYear' \in Years
    BY <1>t, <2>1, StayKeeps, StaySnapshots, GrowthKept, YearTypes
  <2>3. drawn' \in BOOLEAN
    BY <2>1
  <2>5. drawn' => stats' # NoStats /\ Cardinality(stats'.audited) = Cardinality(audited')
    BY <2>1 DEF StatsInv
  <2>4. drawn' => stats'.audited = audited' \/ stats'.of # setYear'
    <3> SUFFICES ASSUME drawn', stats'.of = setYear' PROVE stats'.audited = audited'
      OBVIOUS
    <3>1. /\ stats # NoStats /\ Cardinality(stats.audited) = Cardinality(audited)
          /\ audited' = audited
      BY <2>1 DEF StatsInv
    <3>2. PICK y \in Years : stats'.of = y /\ setYear' = y
      BY <2>1, <2>2
    <3>4. stats'.audited \in Snapshots(y)' /\ audited' \in Snapshots(y)'
      BY <2>1, <3>1, <3>2 DEF Snapshots
    <3>3. /\ stats'.audited \subseteq Assets /\ audited' \subseteq Assets
          /\ stats'.audited \subseteq audited' \/ audited' \subseteq stats'.audited
      BY <2>2, <3>2, <3>4 DEF SnapshotsGrow, AuditedIn
    <3> QED BY <2>1, <3>1, <3>3, SameSizeSameSet
  <2> QED BY <2>1, <2>2, <2>3, <2>4, <2>5 DEF StatsInv
<1>2. CASE LeaveAnnounced
  <2>1. LeaveDashboard /\ stats' = NoStats /\ drawn' = FALSE /\ setYear' = setYear
    BY <1>2 DEF LeaveAnnounced
  <2>2. UNCHANGED <<audited, tracks, logs>>
    BY <2>1 DEF LeaveDashboard, tracking
  <2>3. \A y \in Years : Snapshots(y)' \subseteq Snapshots(y)
    BY <2>1, <2>2 DEF Snapshots
  <2>4. SnapshotsGrow'
    BY <1>t, <2>2, <2>3, GrowthKept DEF NoOthers
  <2> QED BY <1>t, <2>1, <2>4, LeaveKeeps DEF StatsInv
<1>3. CASE DrawDashboard
  <2>1. /\ drawn' = TRUE /\ UNCHANGED <<trackingVars, setYear>>
        /\ stats' = (IF StatsStale THEN [year |-> auditYear, audited |-> audited, of |-> setYear]
                     ELSE stats)
    BY <1>3 DEF DrawDashboard
  <2>2. UNCHANGED <<logs, auditYear, audited, logsLoading, tracks, bulk, setYear>>
    BY <2>1 DEF trackingVars, tracking
  <2>3. TrackingInv'
    BY <1>t, <2>2 DEF TrackingInv, TrackingTypeOK, RunKeepsAccount, AllAccountedFor,
                      AuditedOfOneYear, AnswersHaveLogs, AuditedIn, HasLog
  <2>4. CASE StatsStale
    <3>1. stats'.audited = audited /\ stats'.of = setYear /\ stats' # NoStats
      <4>1. auditYear \in Years /\ audited \in SUBSET Assets
        BY <1>t DEF TrackingTypeOK
      <4> QED BY <1>t, <2>1, <2>4, <4>1, StatsAssumption
    <3>2. \A y \in Years : Snapshots(y)' \subseteq Snapshots(y)
      BY <2>2, <3>1 DEF Snapshots
    <3>3. SnapshotsGrow'
      BY <1>t, <2>2, <3>2, GrowthKept DEF NoOthers
    <3> QED BY <1>t, <2>1, <2>2, <2>3, <3>1, <3>3 DEF StatsInv
  <2>5. CASE ~StatsStale
    <3>1. stats # NoStats /\ Cardinality(stats.audited) = Cardinality(audited) /\ stats' = stats
      BY <2>1, <2>5 DEF StatsStale
    <3>2. stats.audited = audited \/ stats.of # setYear
      <4>1. CASE stats.of = setYear
        <5>1. stats.audited \in Snapshots(setYear) /\ audited \in Snapshots(setYear)
          BY <3>1, <4>1 DEF Snapshots
        <5>2. /\ stats.audited \subseteq Assets /\ audited \subseteq Assets
              /\ stats.audited \subseteq audited \/ audited \subseteq stats.audited
          BY <1>t, <5>1 DEF SnapshotsGrow, AuditedIn
        <5> QED BY <3>1, <5>2, SameSizeSameSet
      <4> QED BY <4>1
    <3>3. SnapshotsGrow'
      BY <1>t, <2>2, <3>1, SameSnapshots, GrowthKept
    <3> QED BY <1>t, <2>1, <2>2, <2>3, <3>1, <3>2, <3>3 DEF StatsInv
  <2> QED BY <2>4, <2>5
<1>4. CASE UNCHANGED statsVars
  <2>1. UNCHANGED <<logs, auditYear, audited, logsLoading, tracks, bulk, stats, drawn, setYear>>
    BY <1>4 DEF statsVars, trackingVars, tracking
  <2>2. TrackingInv'
    BY <1>t, <2>1 DEF TrackingInv, TrackingTypeOK, RunKeepsAccount, AllAccountedFor,
                      AuditedOfOneYear, AnswersHaveLogs, AuditedIn, HasLog
  <2>3. SnapshotsGrow'
    BY <1>t, <2>1, SameSnapshots, GrowthKept
  <2> QED BY <2>1, <2>2, <2>3 DEF StatsInv
<1> QED BY <1>1, <1>2, <1>3, <1>4 DEF StatsNext

\* The dashboard that was drawn last shows statistics of the audited set of now, although it
\* compares sizes only, or statistics of a set of another year: of one year, the sets that
\* loads bring are snapshots of logs that grow (_calculateStatsIfNeeded).
THEOREM StatisticsAreCurrent == StatsSpec => []StatsAreCurrent
<1>1. StatsInit => StatsInv
  BY StatsInitKeeps
<1>2. StatsInv /\ [StatsNext]_statsVars => StatsInv'
  BY StatsKeep
<1>3. StatsInv => StatsAreCurrent
  BY DEF StatsInv, StatsAreCurrent
<1> QED BY <1>1, <1>2, <1>3, PTL DEF StatsSpec

-----------------------------------------------------------------------------
(* The temporary photographs.                                              *)

\* A document that was written once.
Known(p) == docs[p].state \in {"there", "gone"}

Saving(t) == task[t].kind = "save" /\ task[t].pc \in {"upload", "write"}

\* Devices and calls know of written documents only, but for the one call that is about
\* to write a document for the first time.
OnlyKnown ==
    /\ \A d \in Devices : \A e \in shown[d] : Known(e.id)
    /\ \A l \in Loads : \A e \in load[l].answer : Known(e.id)
    /\ \A t \in Tasks : task[t].pc # "idle" /\ ~Saving(t) => Known(task[t].id)
    /\ \A t \in Tasks : Saving(t) => docs[task[t].id].state = "taken"
    /\ \A t, u \in Tasks : Saving(t) /\ Saving(u) /\ task[t].id = task[u].id => t = u

\* An accept has its number, and marks the photo only when its asset was created.
AcceptsInOrder ==
    \A t \in Tasks :
        /\ task[t].pc \in {"create", "mark"} => task[t].number \in AssetNos
        /\ task[t].pc = "mark" => <<task[t].id, task[t].number>> \in created

UnmarkedUntilThere == \A p \in Photos : docs[p].state # "there" => docs[p].merged = NoNumber

PhotosInv ==
    /\ PhotoTypeOK
    /\ OnlyKnown /\ AcceptsInOrder /\ UnmarkedUntilThere
    /\ MergedHasAsset

\* What a step may do to the documents, whoever takes it.
DocsKept ==
    \A p \in Photos :
        /\ Known(p) => Known(p)'
        /\ docs[p].state = "gone" => docs'[p].state = "gone"
        /\ docs[p].merged # NoNumber /\ docs'[p].state = "there" => docs'[p].merged # NoNumber

-----------------------------------------------------------------------------
(* The operators the actions are built from *)

LEMMA IdlePhotoTypes == IdleTask \in TaskState /\ IdleLoad \in LoadState
<1>1. /\ (CHOOSE p \in Photos : TRUE) \in Photos
      /\ (CHOOSE d \in Devices : TRUE) \in Devices
  BY PhotosAssumption
<1> QED BY <1>1 DEF IdleTask, IdleLoad, TaskState, LoadState, Pictures

\* A request changes its own document only, and in the order of the calls.
LEMMA RequestKeeps ==
  ASSUME PhotosInv, NEW t \in Tasks, Request(t)
  PROVE  /\ docs' \in [Photos -> Doc]
         /\ stored' \in [Photos -> BOOLEAN] /\ uploads' \in [Photos -> Pictures]
         /\ created' \subseteq Photos \X AssetNos /\ created \subseteq created'
         /\ \A p \in Photos \ {task[t].id} : docs'[p] = docs[p]
         /\ task[t].pc \in {"upload", "create"} => docs' = docs
         /\ task[t].pc = "create" => <<task[t].id, task[t].number>> \in created'
         /\ task[t].pc = "write" => docs'[task[t].id].state = "there"
         /\ UnmarkedUntilThere' /\ MergedHasAsset' /\ DocsKept
<1> DEFINE p == task[t].id
<1> USE DEF PhotosInv
<1>1. /\ task[t] \in TaskState /\ p \in Photos /\ docs[p] \in Doc
      /\ docs \in [Photos -> Doc]
  BY DEF PhotoTypeOK, TaskState
<1>2. CASE UploadPicture(t)
  <2>1. stored' \in [Photos -> BOOLEAN] /\ uploads' \in [Photos -> Pictures]
    BY <1>1, <1>2 DEF UploadPicture, PhotoTypeOK, Pictures
  <2> QED BY <1>2, <2>1 DEF UploadPicture, PhotoTypeOK, UnmarkedUntilThere, MergedHasAsset,
                            DocsKept, Known
<1>3. CASE SetDoc(t)
  <2> DEFINE n == [state |-> "there", ref |-> task[t].ref, pic |-> task[t].pic,
                   merged |-> NoNumber]
  <2>1. n \in Doc
    BY <1>1 DEF TaskState, Doc
  <2>2. docs' = [docs EXCEPT ![p] = n]
    BY <1>3 DEF SetDoc
  <2>3. docs[p].state = "taken" /\ docs[p].merged = NoNumber
    BY <1>1, <1>3 DEF SetDoc, OnlyKnown, Saving, UnmarkedUntilThere
  <2>4. /\ docs' \in [Photos -> Doc] /\ docs'[p] = n
        /\ \A q \in Photos \ {p} : docs'[q] = docs[q]
    BY <1>1, <2>1, <2>2
  <2>5. n.state = "there" /\ n.merged = NoNumber
    OBVIOUS
  <2>6. created' = created /\ stored' = stored /\ uploads' = uploads /\ task[t].pc = "write"
    BY <1>3 DEF SetDoc
  <2> HIDE DEF n
  <2>7. UnmarkedUntilThere' /\ MergedHasAsset' /\ DocsKept
    BY <2>3, <2>4, <2>5, <2>6 DEF UnmarkedUntilThere, MergedHasAsset, DocsKept, Known
  <2> QED BY <2>4, <2>5, <2>6, <2>7 DEF PhotoTypeOK
<1>4. CASE UpdateDoc(t)
  <2> DEFINE n == [docs[p] EXCEPT !.ref = task[t].ref, !.pic = task[t].pic]
  <2>1. n \in Doc /\ n.state = docs[p].state /\ n.merged = docs[p].merged
    BY <1>1 DEF TaskState, Doc
  <2>2. docs' = [docs EXCEPT ![p] = n]
    BY <1>1, <1>4 DEF UpdateDoc
  <2>3. docs[p].state = "there" /\ task[t].pc = "write"
    BY <1>4 DEF UpdateDoc
  <2> HIDE DEF n
  <2>4. /\ docs' \in [Photos -> Doc] /\ docs'[p] = n
        /\ \A q \in Photos \ {p} : docs'[q] = docs[q]
    BY <1>1, <2>1, <2>2
  <2>5. created' = created /\ stored' = stored /\ uploads' = uploads
    BY <1>4 DEF UpdateDoc
  <2>6. UnmarkedUntilThere' /\ MergedHasAsset' /\ DocsKept
    BY <2>1, <2>3, <2>4, <2>5 DEF UnmarkedUntilThere, MergedHasAsset, DocsKept, Known
  <2> QED BY <2>1, <2>3, <2>4, <2>5, <2>6 DEF PhotoTypeOK
<1>5. CASE CreateAsset(t)
  <2>1. task[t].number \in AssetNos
    BY <1>5 DEF CreateAsset, AcceptsInOrder
  <2>2. created' = created \cup {<<p, task[t].number>>} /\ docs' = docs
        /\ stored' = stored /\ uploads' = uploads /\ task[t].pc = "create"
    BY <1>5 DEF CreateAsset
  <2> QED BY <1>1, <2>1, <2>2 DEF PhotoTypeOK, UnmarkedUntilThere, MergedHasAsset, DocsKept, Known
<1>6. CASE MarkMerged(t)
  <2> DEFINE n == [docs[p] EXCEPT !.merged = task[t].number]
  <2>1. /\ task[t].number \in AssetNos /\ task[t].number # NoNumber
        /\ <<p, task[t].number>> \in created
    BY <1>6, PhotosAssumption DEF MarkMerged, AcceptsInOrder
  <2>2. n \in Doc /\ n.state = docs[p].state /\ n.merged = task[t].number
    BY <1>1, <2>1 DEF Doc
  <2>3. docs' = [docs EXCEPT ![p] = n]
    BY <1>1, <1>6 DEF MarkMerged
  <2>4. docs[p].state = "there" /\ task[t].pc = "mark"
    BY <1>6 DEF MarkMerged
  <2> HIDE DEF n
  <2>5. /\ docs' \in [Photos -> Doc] /\ docs'[p] = n
        /\ \A q \in Photos \ {p} : docs'[q] = docs[q]
    BY <1>1, <2>2, <2>3
  <2>6. created' = created /\ stored' = stored /\ uploads' = uploads
    BY <1>6 DEF MarkMerged
  <2>7. UnmarkedUntilThere' /\ MergedHasAsset' /\ DocsKept
    BY <2>1, <2>2, <2>4, <2>5, <2>6 DEF UnmarkedUntilThere, MergedHasAsset, DocsKept, Known
  <2> QED BY <2>4, <2>5, <2>6, <2>7 DEF PhotoTypeOK
<1>7. CASE RemoveDoc(t)
  <2> DEFINE n == [NoDoc EXCEPT !.state = "gone"]
  <2>1. n \in Doc /\ n.state = "gone" /\ n.merged = NoNumber
    BY DEF NoDoc, Doc, Pictures
  <2>2. docs' = [docs EXCEPT ![p] = n] /\ task[t].pc = "remove"
    BY <1>7 DEF RemoveDoc
  <2> HIDE DEF n
  <2>3. /\ docs' \in [Photos -> Doc] /\ docs'[p] = n
        /\ \A q \in Photos \ {p} : docs'[q] = docs[q]
    BY <1>1, <2>1, <2>2
  <2>4. created' = created /\ stored' = stored /\ uploads' = uploads
    BY <1>7 DEF RemoveDoc
  <2>5. UnmarkedUntilThere' /\ MergedHasAsset' /\ DocsKept
    BY <2>1, <2>3, <2>4 DEF UnmarkedUntilThere, MergedHasAsset, DocsKept, Known
  <2> QED BY <2>1, <2>2, <2>3, <2>4, <2>5 DEF PhotoTypeOK
<1> QED BY <1>2, <1>3, <1>4, <1>5, <1>6, <1>7 DEF Request

\* The call t goes on as r, its request having done what it may to the photo q.
LEMMA CallKeeps ==
  ASSUME PhotosInv, NEW t \in Tasks, NEW q \in Photos, NEW r \in TaskState,
         task' = [task EXCEPT ![t] = r],
         docs' \in [Photos -> Doc], \A p \in Photos \ {q} : docs'[p] = docs[p],
         stored' \in [Photos -> BOOLEAN], uploads' \in [Photos -> Pictures],
         created' \subseteq Photos \X AssetNos, created \subseteq created',
         UnmarkedUntilThere', MergedHasAsset', DocsKept,
         \A u \in Tasks \ {t} : Saving(u) => task[u].id # q \/ docs' = docs,
         r.kind = "save" /\ r.pc \in {"upload", "write"} =>
            /\ docs'[r.id].state = "taken"
            /\ \A u \in Tasks \ {t} : Saving(u) => task[u].id # r.id,
         r.pc # "idle" => \/ r.kind = "save" /\ r.pc \in {"upload", "write"}
                          \/ docs'[r.id].state \in {"there", "gone"},
         r.pc \in {"create", "mark"} => r.number \in AssetNos,
         r.pc = "mark" => <<r.id, r.number>> \in created',
         UNCHANGED local, budget' \in 0..MaxFaults, disturbed' \subseteq Photos
  PROVE  PhotosInv'
<1> USE DEF PhotosInv
<1>1. /\ task \in [Tasks -> TaskState] /\ task' \in [Tasks -> TaskState]
      /\ task'[t] = r /\ \A u \in Tasks \ {t} : task'[u] = task[u]
  BY DEF PhotoTypeOK
<1>2. PhotoTypeOK'
  BY <1>1 DEF PhotoTypeOK, local
<1>3. \A u \in Tasks : task[u].id \in Photos
  BY <1>1 DEF TaskState
<1>4. AcceptsInOrder'
  BY <1>1 DEF AcceptsInOrder
<1>5. OnlyKnown'
  <2>1. /\ \A d \in Devices : \A e \in shown[d] : e.id \in Photos
        /\ \A l \in Loads : \A e \in load[l].answer : e.id \in Photos
    BY DEF PhotoTypeOK, LoadState, Entry
  <2>2. /\ \A d \in Devices : \A e \in shown'[d] : Known(e.id)'
        /\ \A l \in Loads : \A e \in load'[l].answer : Known(e.id)'
    BY <2>1 DEF OnlyKnown, DocsKept, local
  <2>3. ASSUME NEW u \in Tasks, task'[u].pc # "idle", ~Saving(u)'
        PROVE  docs'[task'[u].id].state \in {"there", "gone"}
    <3>1. CASE u = t
      BY <1>1, <2>3, <3>1 DEF Saving
    <3>2. CASE u # t
      <4>1. Known(task[u].id) /\ task[u].id \in Photos /\ task'[u] = task[u]
        BY <1>1, <1>3, <2>3, <3>2 DEF OnlyKnown, Saving
      <4> QED BY <4>1 DEF DocsKept, Known
    <3> QED BY <3>1, <3>2
  <2>5. \A u \in Tasks : Saving(u)' => docs'[task'[u].id].state = "taken"
    BY <1>1, <1>3 DEF OnlyKnown, Saving
  <2>6. \A u, v \in Tasks : Saving(u)' /\ Saving(v)' /\ task'[u].id = task'[v].id => u = v
    BY <1>1 DEF OnlyKnown, Saving
  <2> QED BY <2>2, <2>3, <2>5, <2>6 DEF OnlyKnown, Known
<1> QED BY <1>2, <1>4, <1>5

\* A call with no request: the server has nothing to do with it.
LEMMA LocalCallKeeps ==
  ASSUME PhotosInv, NEW t \in Tasks, NEW r \in TaskState,
         task' = [task EXCEPT ![t] = r],
         r.pc # "idle" => /\ Known(r.id)
                          /\ ~(r.kind = "save" /\ r.pc \in {"upload", "write"}),
         r.pc \in {"create", "mark"} => r.number \in AssetNos,
         r.pc # "mark",
         UNCHANGED <<server, local>>, budget' \in 0..MaxFaults, disturbed' \subseteq Photos
  PROVE  PhotosInv'
<1>1. /\ docs' = docs /\ stored' = stored /\ uploads' = uploads /\ created' = created
      /\ UNCHANGED local
  BY DEF server
<1>2. r.id \in Photos
  BY DEF TaskState
<1>3. UnmarkedUntilThere' /\ MergedHasAsset' /\ DocsKept
  BY <1>1 DEF PhotosInv, UnmarkedUntilThere, MergedHasAsset, DocsKept, Known
<1>4. /\ docs' \in [Photos -> Doc] /\ stored' \in [Photos -> BOOLEAN]
      /\ uploads' \in [Photos -> Pictures] /\ created' \subseteq Photos \X AssetNos
  BY <1>1 DEF PhotosInv, PhotoTypeOK
<1>5. r.pc # "idle" => docs'[r.id].state \in {"there", "gone"}
  BY <1>1 DEF Known
<1>6. r.pc = "mark" => <<r.id, r.number>> \in created'
  OBVIOUS
<1>7. r.kind = "save" /\ r.pc \in {"upload", "write"} => FALSE
  OBVIOUS
<1> QED BY <1>1, <1>2, <1>3, <1>4, <1>5, <1>6, <1>7, CallKeeps

\* The lists and loads of the devices change, what they name is known, and calls end.
LEMMA ListsKeep ==
  ASSUME PhotosInv, UNCHANGED server,
         task' \in [Tasks -> TaskState], \A t \in Tasks : task'[t] \in {task[t], IdleTask},
         budget' \in 0..MaxFaults, disturbed' \subseteq Photos,
         shown' \in [Devices -> SUBSET Entry], loading' \in [Devices -> BOOLEAN],
         load' \in [Loads -> LoadState],
         \A d \in Devices : \A e \in shown'[d] : Known(e.id),
         \A l \in Loads : \A e \in load'[l].answer : Known(e.id)
  PROVE  PhotosInv' /\ DocsKept
<1>1. /\ docs' = docs /\ stored' = stored /\ uploads' = uploads /\ created' = created
  BY DEF server
<1>2. PhotoTypeOK'
  BY <1>1 DEF PhotosInv, PhotoTypeOK
<1>3. \A t \in Tasks : task'[t].pc # "idle" => task'[t] = task[t]
  BY DEF IdleTask
<1>4. OnlyKnown'
  BY <1>1, <1>3 DEF PhotosInv, OnlyKnown, Known, Saving
<1>5. AcceptsInOrder' /\ UnmarkedUntilThere' /\ MergedHasAsset' /\ DocsKept
  BY <1>1, <1>3 DEF PhotosInv, AcceptsInOrder, UnmarkedUntilThere, MergedHasAsset, DocsKept,
                    Known
<1> QED BY <1>2, <1>4, <1>5 DEF PhotosInv

-----------------------------------------------------------------------------
(* The invariant is inductive *)

\* A step keeps the invariant and does to the documents what it may.
Keeps == PhotosInv' /\ DocsKept

LEMMA SameDocsKept == ASSUME docs' = docs PROVE DocsKept
BY DEF DocsKept, Known

LEMMA LoadKeeps ==
  ASSUME PhotosInv, NEW l \in Loads, LoadStep(l)
  PROVE  Keeps
<1> USE DEF PhotosInv
<1>1. /\ load[l] \in LoadState /\ load \in [Loads -> LoadState]
      /\ load[l].dev \in Devices /\ load[l].answer \subseteq Entry
      /\ shown \in [Devices -> SUBSET Entry] /\ loading \in [Devices -> BOOLEAN]
  BY DEF PhotoTypeOK, LoadState
<1>7. UNCHANGED <<task, budget, disturbed>> =>
        /\ task' \in [Tasks -> TaskState] /\ \A t \in Tasks : task'[t] \in {task[t], IdleTask}
        /\ budget' \in 0..MaxFaults /\ disturbed' \subseteq Photos
  BY DEF PhotoTypeOK
<1>2. CASE LoadAnswered(l)
  <2> DEFINE found == {p \in Photos : docs[p].state = "there"}
             S == {EntryOf(p) : p \in found}
             ok == \A p \in found : docs[p].ref
             r == [load[l] EXCEPT !.pc = "answered", !.answer = S, !.readable = ok]
  <2>1. ASSUME NEW p \in found PROVE EntryOf(p) \in Entry
    <3>1. docs[p].pic \in Pictures /\ p \in Photos
      BY DEF PhotoTypeOK, Doc
    <3>2. (docs[p].merged # NoNumber) \in BOOLEAN
      OBVIOUS
    <3> QED BY <3>1, <3>2, Zenon DEF EntryOf, Entry
  <2>2. \A e \in S : Known(e.id)
    BY DEF EntryOf, Known
  <2>3. ok \in BOOLEAN /\ S \subseteq Entry
    BY <2>1
  <2>4. load' = [load EXCEPT ![l] = [load[l] EXCEPT !.pc = "answered", !.answer = S,
                                                    !.readable = ok]]
    BY <1>1, <1>2, Zenon DEF LoadAnswered
  <2> HIDE DEF S, ok, found
  <2>5. r \in LoadState /\ r.answer = S
    BY <1>1, <2>3 DEF LoadState
  <2>6. load' = [load EXCEPT ![l] = r]
    BY <2>4
  <2> HIDE DEF r
  <2>7. load' \in [Loads -> LoadState] /\ load'[l] = r
        /\ \A m \in Loads \ {l} : load'[m] = load[m]
    BY <1>1, <2>5, <2>6
  <2>8. UNCHANGED <<server, shown, loading, task, budget, disturbed>>
    BY <1>2 DEF LoadAnswered
  <2>9. \A m \in Loads : \A e \in load'[m].answer : Known(e.id)
    BY <2>2, <2>5, <2>7 DEF OnlyKnown
  <2>10. \A d \in Devices : \A e \in shown'[d] : Known(e.id)
    BY <2>8 DEF OnlyKnown
  <2> QED BY <1>1, <1>7, <2>7, <2>8, <2>9, <2>10, ListsKeep DEF Keeps
<1>3. ASSUME NEW S \in SUBSET Entry, \A e \in S : Known(e.id), LoadEnds(l, S) PROVE Keeps
  <2>1. shown' = [shown EXCEPT ![load[l].dev] = S]
        /\ loading' = [loading EXCEPT ![load[l].dev] = FALSE]
        /\ load' = [load EXCEPT ![l] = IdleLoad]
        /\ UNCHANGED <<server, task, budget, disturbed>>
    BY <1>3 DEF LoadEnds
  <2>2. /\ shown' \in [Devices -> SUBSET Entry] /\ loading' \in [Devices -> BOOLEAN]
        /\ load' \in [Loads -> LoadState]
    BY <1>1, <2>1, IdlePhotoTypes
  <2>3. \A d \in Devices : \A e \in shown'[d] : Known(e.id)
    BY <1>1, <1>3, <2>1 DEF OnlyKnown
  <2>4. IdleLoad.answer = {}
    BY DEF IdleLoad
  <2>5. \A m \in Loads : \A e \in load'[m].answer : Known(e.id)
    BY <1>1, <2>1, <2>4 DEF OnlyKnown
  <2> QED BY <1>7, <2>1, <2>2, <2>3, <2>5, ListsKeep DEF Keeps
<1>4. /\ \A e \in load[l].answer : Known(e.id)
      /\ \A e \in shown[load[l].dev] : Known(e.id) /\ shown[load[l].dev] \subseteq Entry
  BY <1>1 DEF OnlyKnown
<1>5. CASE LoadReturns(l)
  BY <1>1, <1>3, <1>4, <1>5 DEF LoadReturns
<1>6. CASE LoadFails(l)
  BY <1>1, <1>3, <1>4, <1>6 DEF LoadFails
<1> QED BY <1>2, <1>5, <1>6 DEF LoadStep

LEMMA SaveKeeps ==
  ASSUME PhotosInv, NEW t \in Tasks, NEW p \in Photos, NEW f \in BOOLEAN, Save(t, p, f)
  PROVE  Keeps
<1> USE DEF PhotosInv
<1> DEFINE r == [IdleTask EXCEPT !.pc = "upload", !.kind = "save", !.id = p, !.ref = f]
           n == [docs[p] EXCEPT !.state = "taken"]
<1>1. r \in TaskState /\ r.pc = "upload" /\ r.kind = "save" /\ r.id = p
  BY IdlePhotoTypes DEF IdleTask, TaskState
<1>2. docs \in [Photos -> Doc] /\ docs[p] \in Doc /\ docs[p].state = "unused"
  BY DEF Save, PhotoTypeOK
<1>3. n \in Doc /\ n.state = "taken" /\ n.merged = docs[p].merged
  BY <1>2 DEF Doc
<1>4. docs' = [docs EXCEPT ![p] = n]
  BY <1>2 DEF Save, Doc
<1>5. task' = [task EXCEPT ![t] = r]
  BY DEF Save, Start
<1>6. /\ UNCHANGED local /\ stored' = stored /\ uploads' = uploads /\ created' = created
      /\ budget' = budget /\ disturbed' = disturbed
  BY DEF Save
<1> HIDE DEF r, n
<1>7. docs' \in [Photos -> Doc] /\ docs'[p] = n /\ \A q \in Photos \ {p} : docs'[q] = docs[q]
  BY <1>2, <1>3, <1>4
<1>8. UnmarkedUntilThere' /\ MergedHasAsset' /\ DocsKept
  BY <1>2, <1>3, <1>6, <1>7 DEF UnmarkedUntilThere, MergedHasAsset, DocsKept, Known
<1>9. \A u \in Tasks \ {t} : Saving(u) => task[u].id # p
  BY <1>2 DEF OnlyKnown
<1>10. /\ stored' \in [Photos -> BOOLEAN] /\ uploads' \in [Photos -> Pictures]
       /\ created' \subseteq Photos \X AssetNos /\ created \subseteq created'
       /\ budget' \in 0..MaxFaults /\ disturbed' \subseteq Photos
  BY <1>6 DEF PhotoTypeOK
<1>11. /\ docs'[r.id].state = "taken"
       /\ \A u \in Tasks \ {t} : Saving(u) => task[u].id # r.id
  BY <1>1, <1>3, <1>7, <1>9
<1>12. PhotosInv'
  <2>1. /\ r.kind = "save" /\ r.pc \in {"upload", "write"}
        /\ r.pc \notin {"create", "mark"}
    BY <1>1
  <2>2. /\ \A q \in Photos \ {p} : docs'[q] = docs[q]
        /\ \A u \in Tasks \ {t} : Saving(u) => task[u].id # p \/ docs' = docs
    BY <1>7, <1>9
  <2>3. /\ r.kind = "save" /\ r.pc \in {"upload", "write"} =>
              /\ docs'[r.id].state = "taken"
              /\ \A u \in Tasks \ {t} : Saving(u) => task[u].id # r.id
        /\ r.pc # "idle" => \/ r.kind = "save" /\ r.pc \in {"upload", "write"}
                            \/ docs'[r.id].state \in {"there", "gone"}
        /\ r.pc \in {"create", "mark"} => r.number \in AssetNos
        /\ r.pc = "mark" => <<r.id, r.number>> \in created'
    BY <1>11, <2>1
  <2>4. docs' \in [Photos -> Doc] /\ r \in TaskState
    BY <1>1, <1>7
  <2> HIDE DEF PhotosInv
  <2> QED BY <1>5, <1>6, <1>8, <1>10, <2>2, <2>3, <2>4, CallKeeps
<1> QED BY <1>8, <1>12 DEF Keeps

\* A call begins with an entry of the list.
LEMMA StartKeeps ==
  ASSUME PhotosInv, NEW t \in Tasks, NEW e \in shown[DeviceOf[t]], NEW r \in TaskState,
         Start(t, r), r.id = e.id, r.kind # "save",
         r.pc \in {"modal", "erase", "write"},
         UNCHANGED <<server, local, budget>>, disturbed' \subseteq Photos
  PROVE  Keeps
<1>1. task' = [task EXCEPT ![t] = r]
  BY DEF Start
<1>2. Known(r.id)
  BY PhotosAssumption DEF PhotosInv, OnlyKnown
<1>3. budget' \in 0..MaxFaults
  BY DEF PhotosInv, PhotoTypeOK
<1>4. docs' = docs
  BY DEF server
<1> QED BY <1>1, <1>2, <1>3, <1>4, LocalCallKeeps, SameDocsKept DEF Keeps

LEMMA UserKeeps ==
  ASSUME PhotosInv, NEW t \in Tasks, UserStep(t)
  PROVE  Keeps
<1>1. /\ task[t] \in TaskState /\ disturbed \subseteq Photos /\ budget \in 0..MaxFaults
      /\ \A e \in shown[DeviceOf[t]] : e \in Entry
  BY PhotosAssumption DEF PhotosInv, PhotoTypeOK
<1>2. ASSUME NEW p \in Photos, NEW f \in BOOLEAN, Save(t, p, f) PROVE Keeps
  BY <1>2, SaveKeeps
<1>3. ASSUME NEW e \in shown[DeviceOf[t]], NEW f \in BOOLEAN, NEW image \in BOOLEAN,
             Update(t, e, f, image)
      PROVE  Keeps
  <2> DEFINE pc == IF image THEN "erase" ELSE "write"
             pic == IF image THEN 0 ELSE e.pic
             r == [IdleTask EXCEPT !.pc = pc, !.kind = "edit", !.id = e.id, !.ref = f,
                                   !.pic = pic]
  <2>1. e.id \in Photos /\ pic \in Pictures
    BY <1>1 DEF Entry, Pictures
  <2>2. pc \in {"erase", "write"}
    OBVIOUS
  <2>3. Start(t, r) /\ UNCHANGED <<server, local, budget>>
    BY <1>3 DEF Update
  <2> HIDE DEF pc, pic
  <2>4. r \in TaskState /\ r.pc = pc /\ r.kind = "edit" /\ r.id = e.id
    BY <2>1, <2>2, IdlePhotoTypes DEF IdleTask, TaskState
  <2>5. disturbed' \subseteq Photos
    BY <1>1, <1>3, <2>1 DEF Update, Disturb
  <2> HIDE DEF r
  <2> QED BY <2>2, <2>3, <2>4, <2>5, StartKeeps
<1>4. ASSUME NEW e \in shown[DeviceOf[t]], Delete(t, e) PROVE Keeps
  <2> DEFINE r == [IdleTask EXCEPT !.pc = "erase", !.kind = "delete", !.id = e.id]
  <2>1. e.id \in Photos
    BY <1>1 DEF Entry
  <2>2. r \in TaskState /\ r.pc = "erase" /\ r.kind = "delete" /\ r.id = e.id
    BY <2>1, IdlePhotoTypes DEF IdleTask, TaskState
  <2>3. Start(t, r) /\ UNCHANGED <<server, local, budget>>
    BY <1>4 DEF Delete
  <2>4. disturbed' \subseteq Photos
    BY <1>1, <1>4, <2>1 DEF Delete, Disturb
  <2> HIDE DEF r
  <2> QED BY <2>2, <2>3, <2>4, StartKeeps
<1>5. ASSUME NEW e \in shown[DeviceOf[t]], AcceptOpens(t, e) PROVE Keeps
  <2> DEFINE r == [IdleTask EXCEPT !.pc = "modal", !.kind = "accept", !.id = e.id]
  <2>1. e.id \in Photos
    BY <1>1 DEF Entry
  <2>2. r \in TaskState /\ r.pc = "modal" /\ r.kind = "accept" /\ r.id = e.id
    BY <2>1, IdlePhotoTypes DEF IdleTask, TaskState
  <2>3. Start(t, r) /\ UNCHANGED <<server, local, budget>> /\ disturbed' = disturbed
    BY <1>5 DEF AcceptOpens
  <2> HIDE DEF r
  <2> QED BY <1>1, <2>2, <2>3, StartKeeps
<1>6. CASE AcceptCloses(t)
  <2>1. task' = [task EXCEPT ![t] = IdleTask] /\ UNCHANGED <<server, local, budget, disturbed>>
    BY <1>6 DEF AcceptCloses
  <2>2. IdleTask.pc = "idle" /\ docs' = docs
    BY <2>1 DEF IdleTask, server
  <2> QED BY <1>1, <2>1, <2>2, IdlePhotoTypes, LocalCallKeeps, SameDocsKept DEF Keeps
<1>7. ASSUME NEW n \in AssetNos, AcceptSubmitted(t, n) PROVE Keeps
  <2> DEFINE r == [task[t] EXCEPT !.pc = "create", !.number = n]
  <2>1. /\ task[t].pc = "modal" /\ UNCHANGED <<server, local, budget, disturbed>>
        /\ docs' = docs
    BY <1>7 DEF AcceptSubmitted, server
  <2>2. r \in TaskState /\ r.pc = "create" /\ r.number = n /\ r.id = task[t].id
    BY <1>1 DEF TaskState
  <2>3. task' = [task EXCEPT ![t] = r]
    BY <1>1, <1>7 DEF AcceptSubmitted, TaskState, PhotosInv, PhotoTypeOK
  <2>4. Known(task[t].id)
    BY <2>1 DEF PhotosInv, OnlyKnown, Saving
  <2> HIDE DEF r
  <2> QED BY <1>1, <2>1, <2>2, <2>3, <2>4, LocalCallKeeps, SameDocsKept DEF Keeps
<1> QED BY <1>2, <1>3, <1>4, <1>5, <1>6, <1>7 DEF UserStep

\* No other call is about to write the document for the first time.
LEMMA OthersApart ==
  ASSUME PhotosInv, NEW t \in Tasks, task[t].pc # "idle"
  PROVE  \A u \in Tasks \ {t} : Saving(u) => task[u].id # task[t].id
<1>1. CASE Saving(t)
  BY <1>1 DEF PhotosInv, OnlyKnown
<1>2. CASE ~Saving(t)
  <2>1. docs[task[t].id].state # "taken"
    BY <1>2 DEF PhotosInv, OnlyKnown, Known
  <2> QED BY <2>1 DEF PhotosInv, OnlyKnown
<1> QED BY <1>1, <1>2

LEMMA AnsweredKeeps ==
  ASSUME PhotosInv, NEW t \in Tasks, Answered(t)
  PROVE  Keeps
<1> DEFINE pc == Following(task[t])
           pic == IF task[t].pc = "upload" THEN uploads[task[t].id] + 1 ELSE task[t].pic
           r == [task[t] EXCEPT !.pc = pc, !.pic = pic]
<1>1. /\ task \in [Tasks -> TaskState] /\ task[t] \in TaskState
      /\ task[t].id \in Photos /\ uploads \in [Photos -> Nat] /\ task[t].pic \in Nat
  BY DEF PhotosInv, PhotoTypeOK, TaskState, Pictures
<1>2. Request(t) /\ UNCHANGED <<local, budget, disturbed>>
  BY DEF Answered
<1>3. task[t].pc \in {"upload", "write", "create", "mark", "remove"}
  BY <1>2 DEF Request, UploadPicture, SetDoc, UpdateDoc, CreateAsset, MarkMerged, RemoveDoc
<1>4. /\ pc \in {"write", "mark", "confirm"}
      /\ pc = "write" => task[t].pc = "upload"
      /\ pc = "mark" => task[t].pc = "create"
  BY <1>3 DEF Following
<1>5. pic \in Pictures
  BY <1>1 DEF Pictures
<1>6. task' = [task EXCEPT ![t] = r]
  BY <1>1 DEF Answered, TaskState
<1> HIDE DEF pc, pic
<1>7. /\ r \in TaskState /\ r.pc = pc /\ r.kind = task[t].kind
      /\ r.id = task[t].id /\ r.number = task[t].number
  BY <1>1, <1>4, <1>5 DEF TaskState
<1> HIDE DEF r
<1>8. /\ docs' \in [Photos -> Doc]
      /\ stored' \in [Photos -> BOOLEAN] /\ uploads' \in [Photos -> Pictures]
      /\ created' \subseteq Photos \X AssetNos /\ created \subseteq created'
      /\ \A p \in Photos \ {task[t].id} : docs'[p] = docs[p]
      /\ UnmarkedUntilThere' /\ MergedHasAsset' /\ DocsKept
  BY <1>2, RequestKeeps
<1>9. /\ task[t].pc \in {"upload", "create"} => docs' = docs
      /\ task[t].pc = "create" => <<task[t].id, task[t].number>> \in created'
      /\ task[t].pc = "write" => docs'[task[t].id].state = "there"
  BY <1>2, RequestKeeps
<1>10. \A u \in Tasks \ {t} : Saving(u) => task[u].id # task[t].id
  BY <1>3, OthersApart
<1>11. r.kind = "save" /\ r.pc \in {"upload", "write"} => docs'[r.id].state = "taken"
  <2> SUFFICES ASSUME r.kind = "save", r.pc \in {"upload", "write"}
               PROVE  docs'[r.id].state = "taken"
    OBVIOUS
  <2>1. task[t].pc = "upload" /\ docs' = docs
    BY <1>4, <1>7, <1>9
  <2> QED BY <1>7, <2>1 DEF PhotosInv, OnlyKnown, Saving
<1>12. \/ r.kind = "save" /\ r.pc \in {"upload", "write"}
       \/ docs'[r.id].state \in {"there", "gone"}
  <2>1. CASE Saving(t)
    BY <1>3, <1>4, <1>7, <1>9, <2>1 DEF Saving, Following, pc
  <2>2. CASE ~Saving(t)
    <3>1. Known(task[t].id)
      BY <1>3, <2>2 DEF PhotosInv, OnlyKnown
    <3> QED BY <1>1, <1>7, <1>8, <3>1 DEF DocsKept, Known
  <2> QED BY <2>1, <2>2
<1>13. r.pc \in {"create", "mark"} => r.number \in AssetNos
  BY <1>4, <1>7 DEF PhotosInv, AcceptsInOrder
<1>14. r.pc = "mark" => <<r.id, r.number>> \in created'
  BY <1>4, <1>7, <1>9
<1>15. UNCHANGED local /\ budget' \in 0..MaxFaults /\ disturbed' \subseteq Photos
  BY <1>2 DEF PhotosInv, PhotoTypeOK
<1>16. /\ r.kind = "save" /\ r.pc \in {"upload", "write"} =>
             /\ docs'[r.id].state = "taken"
             /\ \A u \in Tasks \ {t} : Saving(u) => task[u].id # r.id
       /\ r.pc # "idle" => \/ r.kind = "save" /\ r.pc \in {"upload", "write"}
                           \/ docs'[r.id].state \in {"there", "gone"}
       /\ \A u \in Tasks \ {t} : Saving(u) => task[u].id # task[t].id \/ docs' = docs
  BY <1>7, <1>10, <1>11, <1>12
<1>17. PhotosInv'
  <2>1. r \in TaskState /\ task[t].id \in Photos
    BY <1>1, <1>7
  <2> QED BY <1>6, <1>8, <1>13, <1>14, <1>15, <1>16, <2>1, CallKeeps
<1> QED BY <1>8, <1>17 DEF Keeps

\* A call gives up, its request having done what it may, or nothing.
LEMMA GivesUpKeeps ==
  ASSUME PhotosInv, NEW t \in Tasks, task[t].pc # "idle", task[t].pc # "confirm",
         GivesUp(t), Request(t) \/ UNCHANGED server,
         UNCHANGED local, budget' \in 0..MaxFaults, disturbed' \subseteq Photos
  PROVE  Keeps
<1> DEFINE r == IF task[t].kind = "accept" THEN [task[t] EXCEPT !.pc = "modal", !.number = NoNumber]
                ELSE IdleTask
<1>1. task[t] \in TaskState /\ task[t].id \in Photos
  BY DEF PhotosInv, PhotoTypeOK, TaskState
<1>2. task' = [task EXCEPT ![t] = r]
  BY DEF GivesUp
<1>3. /\ r \in TaskState /\ r.pc \in {"idle", "modal"}
      /\ r.pc = "modal" => task[t].kind = "accept" /\ r.id = task[t].id
  BY <1>1, IdlePhotoTypes DEF TaskState, IdleTask
<1> HIDE DEF r
<1>4. /\ docs' \in [Photos -> Doc]
      /\ stored' \in [Photos -> BOOLEAN] /\ uploads' \in [Photos -> Pictures]
      /\ created' \subseteq Photos \X AssetNos /\ created \subseteq created'
      /\ \A p \in Photos \ {task[t].id} : docs'[p] = docs[p]
      /\ UnmarkedUntilThere' /\ MergedHasAsset' /\ DocsKept
  <2>1. CASE Request(t)
    BY <2>1, RequestKeeps
  <2>2. CASE UNCHANGED server
    <3>1. docs' = docs /\ stored' = stored /\ uploads' = uploads /\ created' = created
      BY <2>2 DEF server
    <3> QED BY <3>1 DEF PhotosInv, PhotoTypeOK, UnmarkedUntilThere, MergedHasAsset, DocsKept,
                        Known
  <2> QED BY <2>1, <2>2
<1>5. \A u \in Tasks \ {t} : Saving(u) => task[u].id # task[t].id
  BY OthersApart
<1>6. r.pc # "idle" => docs'[r.id].state \in {"there", "gone"}
  <2> SUFFICES ASSUME r.pc # "idle" PROVE docs'[r.id].state \in {"there", "gone"}
    OBVIOUS
  <2>1. Known(task[t].id)
    BY <1>3 DEF PhotosInv, OnlyKnown, Saving
  <2> QED BY <1>1, <1>3, <1>4, <2>1 DEF DocsKept, Known
<1>7. /\ r.kind = "save" /\ r.pc \in {"upload", "write"} =>
            /\ docs'[r.id].state = "taken"
            /\ \A u \in Tasks \ {t} : Saving(u) => task[u].id # r.id
      /\ r.pc # "idle" => \/ r.kind = "save" /\ r.pc \in {"upload", "write"}
                          \/ docs'[r.id].state \in {"there", "gone"}
      /\ r.pc \in {"create", "mark"} => r.number \in AssetNos
      /\ r.pc = "mark" => <<r.id, r.number>> \in created'
      /\ \A u \in Tasks \ {t} : Saving(u) => task[u].id # task[t].id \/ docs' = docs
  BY <1>3, <1>5, <1>6
<1>8. PhotosInv'
  <2>1. r \in TaskState /\ task[t].id \in Photos
    BY <1>1, <1>3
  <2> QED BY <1>2, <1>4, <1>7, <2>1, CallKeeps
<1> QED BY <1>4, <1>8 DEF Keeps

LEMMA EraseKeeps ==
  ASSUME PhotosInv, NEW t \in Tasks, Erase(t)
  PROVE  Keeps
<1> DEFINE pc == IF task[t].kind = "edit" THEN "upload" ELSE "remove"
           r == [task[t] EXCEPT !.pc = pc]
<1>1. /\ task \in [Tasks -> TaskState] /\ task[t] \in TaskState /\ task[t].id \in Photos
      /\ task[t].pc = "erase"
  BY DEF PhotosInv, PhotoTypeOK, TaskState, Erase
<1>2. /\ pc \in {"upload", "remove"}
      /\ pc = "upload" => task[t].kind # "save"
  OBVIOUS
<1>3. task' = [task EXCEPT ![t] = r]
  BY <1>1 DEF Erase, TaskState
<1> HIDE DEF pc
<1>4. r \in TaskState /\ r.pc = pc /\ r.kind = task[t].kind /\ r.id = task[t].id
  BY <1>1, <1>2 DEF TaskState
<1> HIDE DEF r
<1>5. docs' = docs /\ uploads' = uploads /\ created' = created /\ UNCHANGED local
  BY DEF Erase
<1>6. stored' \in [Photos -> BOOLEAN] /\ budget' \in 0..MaxFaults /\ disturbed' \subseteq Photos
  <2>1. stored \in [Photos -> BOOLEAN] /\ budget \in 0..MaxFaults /\ disturbed \subseteq Photos
    BY DEF PhotosInv, PhotoTypeOK
  <2>2. CASE stored' = [stored EXCEPT ![task[t].id] = FALSE] /\ UNCHANGED <<budget, disturbed>>
    BY <1>1, <2>1, <2>2
  <2>3. CASE budget > 0 /\ budget' = budget - 1 /\ Disturb({task[t].id}) /\ UNCHANGED stored
    <3>1. disturbed' \subseteq Photos
      BY <1>1, <2>1, <2>3 DEF Disturb
    <3> QED BY <2>1, <2>3, <3>1, PhotosAssumption
  <2> QED BY <2>2, <2>3 DEF Erase
<1>7. UnmarkedUntilThere' /\ MergedHasAsset' /\ DocsKept
  BY <1>5 DEF PhotosInv, UnmarkedUntilThere, MergedHasAsset, DocsKept, Known
<1>8. Known(task[t].id)
  BY <1>1 DEF PhotosInv, OnlyKnown, Saving
<1>9. /\ docs' \in [Photos -> Doc] /\ uploads' \in [Photos -> Pictures]
      /\ created' \subseteq Photos \X AssetNos
  BY <1>5 DEF PhotosInv, PhotoTypeOK
<1>10. /\ docs'[r.id].state \in {"there", "gone"}
       /\ ~(r.kind = "save" /\ r.pc \in {"upload", "write"})
       /\ r.pc \notin {"create", "mark"}
  BY <1>2, <1>4, <1>5, <1>8 DEF Known
<1>11. PhotosInv'
  <2>1. /\ r.kind = "save" /\ r.pc \in {"upload", "write"} =>
              /\ docs'[r.id].state = "taken"
              /\ \A u \in Tasks \ {t} : Saving(u) => task[u].id # r.id
        /\ r.pc # "idle" => \/ r.kind = "save" /\ r.pc \in {"upload", "write"}
                            \/ docs'[r.id].state \in {"there", "gone"}
        /\ r.pc \in {"create", "mark"} => r.number \in AssetNos
        /\ r.pc = "mark" => <<r.id, r.number>> \in created'
        /\ \A u \in Tasks \ {t} : Saving(u) => task[u].id # task[t].id \/ docs' = docs
        /\ \A p \in Photos \ {task[t].id} : docs'[p] = docs[p]
    BY <1>5, <1>10
  <2>2. r \in TaskState /\ task[t].id \in Photos /\ created \subseteq created'
    BY <1>1, <1>4, <1>5
  <2> QED BY <1>3, <1>5, <1>6, <1>7, <1>9, <2>1, <2>2, CallKeeps
<1> QED BY <1>7, <1>11 DEF Keeps

LEMMA ListAfterTypes ==
  ASSUME PhotosInv, NEW t \in Tasks, task[t].pc = "confirm"
  PROVE  ListAfter(t) \subseteq Entry /\ \A e \in ListAfter(t) : Known(e.id)
<1> DEFINE r == task[t]
           list == shown[DeviceOf[t]]
           others == {e \in list : e.id # r.id}
<1>1. r \in TaskState /\ list \subseteq Entry /\ \A e \in list : Known(e.id)
  BY PhotosAssumption DEF PhotosInv, PhotoTypeOK, OnlyKnown
<1>2. r.kind \in {"save", "edit", "accept", "delete"} /\ r.id \in Photos /\ r.pic \in Pictures
  BY <1>1 DEF TaskState
<1>3. Known(r.id)
  BY DEF PhotosInv, OnlyKnown, Saving
<1>4. CASE r.kind = "save"
  <2> DEFINE n == [id |-> r.id, pic |-> r.pic, merged |-> FALSE]
  <2>1. n \in Entry /\ n.id = r.id
    BY <1>2 DEF Entry
  <2>2. ListAfter(t) = list \cup {n}
    BY <1>4 DEF ListAfter
  <2> HIDE DEF n
  <2> QED BY <1>1, <1>3, <2>1, <2>2
<1>5. CASE r.kind = "delete"
  <2>1. ListAfter(t) = others
    BY <1>5 DEF ListAfter
  <2> QED BY <1>1, <2>1
<1>6. CASE r.kind = "edit"
  <2> DEFINE changed == {[e EXCEPT !.pic = r.pic] : e \in list \ others}
  <2>1. ListAfter(t) = others \cup changed
    BY <1>6 DEF ListAfter
  <2>2. ASSUME NEW e \in list
        PROVE  [e EXCEPT !.pic = r.pic] \in Entry /\ [e EXCEPT !.pic = r.pic].id = e.id
    BY <1>1, <1>2 DEF Entry
  <2>3. \A n \in changed : n \in Entry /\ Known(n.id)
    BY <1>1, <2>2
  <2> QED BY <1>1, <2>1, <2>3
<1>7. CASE r.kind = "accept"
  <2> DEFINE changed == {[e EXCEPT !.merged = TRUE] : e \in list \ others}
  <2>1. ListAfter(t) = others \cup changed
    BY <1>7 DEF ListAfter
  <2>2. ASSUME NEW e \in list
        PROVE  [e EXCEPT !.merged = TRUE] \in Entry /\ [e EXCEPT !.merged = TRUE].id = e.id
    BY <1>1 DEF Entry
  <2>3. \A n \in changed : n \in Entry /\ Known(n.id)
    BY <1>1, <2>2
  <2> QED BY <1>1, <2>1, <2>3
<1> QED BY <1>2, <1>4, <1>5, <1>6, <1>7

LEMMA ConfirmKeeps ==
  ASSUME PhotosInv, NEW t \in Tasks, Confirm(t)
  PROVE  Keeps
<1> USE DEF PhotosInv
<1>1. /\ task \in [Tasks -> TaskState] /\ shown \in [Devices -> SUBSET Entry]
      /\ loading \in [Devices -> BOOLEAN] /\ load \in [Loads -> LoadState]
      /\ DeviceOf[t] \in Devices
  BY PhotosAssumption DEF PhotoTypeOK
<1>2. /\ task[t].pc = "confirm"
      /\ shown' = [shown EXCEPT ![DeviceOf[t]] = ListAfter(t)]
      /\ task' = [task EXCEPT ![t] = IdleTask]
      /\ UNCHANGED <<server, budget, disturbed>>
  BY DEF Confirm
<1>3. ListAfter(t) \subseteq Entry /\ \A e \in ListAfter(t) : Known(e.id)
  BY <1>2, ListAfterTypes
<1>4. /\ task' \in [Tasks -> TaskState]
      /\ \A u \in Tasks : task'[u] \in {task[u], IdleTask}
  BY <1>1, <1>2, IdlePhotoTypes
<1>5. /\ shown' \in [Devices -> SUBSET Entry]
      /\ \A d \in Devices : \A e \in shown'[d] : Known(e.id)
  BY <1>1, <1>2, <1>3 DEF OnlyKnown
<1>6. /\ load' \in [Loads -> LoadState] /\ loading' \in [Devices -> BOOLEAN]
      /\ \A l \in Loads : load'[l].answer \in {load[l].answer, {}}
  <2>1. CASE UNCHANGED <<load, loading>>
    BY <1>1, <2>1
  <2>2. ASSUME NEW l \in Loads, LoadBegins(l, DeviceOf[t])
        PROVE  /\ load' \in [Loads -> LoadState] /\ loading' \in [Devices -> BOOLEAN]
               /\ \A m \in Loads : load'[m].answer \in {load[m].answer, {}}
    <3> DEFINE r == [IdleLoad EXCEPT !.pc = "asked", !.dev = DeviceOf[t]]
    <3>1. r \in LoadState /\ r.answer = {}
      BY <1>1, IdlePhotoTypes DEF LoadState, IdleLoad
    <3>2. load' = [load EXCEPT ![l] = r] /\ loading' = [loading EXCEPT ![DeviceOf[t]] = TRUE]
      BY <2>2 DEF LoadBegins
    <3> HIDE DEF r
    <3> QED BY <1>1, <3>1, <3>2
  <2> QED BY <2>1, <2>2 DEF Confirm
<1>7. \A l \in Loads : \A e \in load'[l].answer : Known(e.id)
  BY <1>6 DEF OnlyKnown
<1>8. budget' \in 0..MaxFaults /\ disturbed' \subseteq Photos
  BY <1>2 DEF PhotoTypeOK
<1> QED BY <1>2, <1>4, <1>5, <1>6, <1>7, <1>8, ListsKeep DEF Keeps

LEMMA RestartKeeps ==
  ASSUME PhotosInv, NEW d \in Devices, Restart(d)
  PROVE  Keeps
<1> USE DEF PhotosInv
<1>1. /\ task \in [Tasks -> TaskState] /\ shown \in [Devices -> SUBSET Entry]
      /\ loading \in [Devices -> BOOLEAN] /\ load \in [Loads -> LoadState]
      /\ budget \in 0..MaxFaults /\ disturbed \subseteq Photos
  BY DEF PhotoTypeOK
<1>2. /\ task' = [t \in Tasks |-> IF DeviceOf[t] = d THEN IdleTask ELSE task[t]]
      /\ load' = [l \in Loads |-> IF load[l].dev = d THEN IdleLoad ELSE load[l]]
      /\ shown' = [shown EXCEPT ![d] = {}] /\ loading' = [loading EXCEPT ![d] = FALSE]
      /\ UNCHANGED server
  BY DEF Restart
<1>3. /\ task' \in [Tasks -> TaskState]
      /\ \A u \in Tasks : task'[u] \in {task[u], IdleTask}
      /\ load' \in [Loads -> LoadState] /\ loading' \in [Devices -> BOOLEAN]
      /\ shown' \in [Devices -> SUBSET Entry]
  BY <1>1, <1>2, IdlePhotoTypes
<1>4. IdleLoad.answer = {}
  BY DEF IdleLoad
<1>5. /\ \A c \in Devices : \A e \in shown'[c] : Known(e.id)
      /\ \A l \in Loads : \A e \in load'[l].answer : Known(e.id)
  BY <1>1, <1>2, <1>4 DEF OnlyKnown
<1>6. budget' \in 0..MaxFaults /\ disturbed' \subseteq Photos
  BY <1>1, PhotosAssumption DEF Restart, Disturb
<1> QED BY <1>2, <1>3, <1>5, <1>6, ListsKeep DEF Keeps

LEMMA TaskKeeps ==
  ASSUME PhotosInv, NEW t \in Tasks, TaskStep(t)
  PROVE  Keeps
<1>1. budget \in 0..MaxFaults /\ disturbed \subseteq Photos /\ task[t].id \in Photos
  BY DEF PhotosInv, PhotoTypeOK, TaskState
<1>2. CASE Missing(t)
  <2>1. task[t].pc # "idle" /\ task[t].pc # "confirm"
    BY <1>2 DEF Missing
  <2> QED BY <1>1, <1>2, <2>1, GivesUpKeeps DEF Missing
<1>3. CASE Fails(t)
  <2>1. task[t].pc # "idle" /\ task[t].pc # "confirm"
    BY <1>3 DEF Fails
  <2>2. budget' \in 0..MaxFaults /\ disturbed' \subseteq Photos
    BY <1>1, <1>3, PhotosAssumption DEF Fails, Disturb
  <2> QED BY <1>3, <2>1, <2>2, GivesUpKeeps DEF Fails
<1> QED BY <1>2, <1>3, AnsweredKeeps, EraseKeeps, ConfirmKeeps DEF TaskStep

LEMMA NextKeeps == ASSUME PhotosInv, Next PROVE Keeps
BY TaskKeeps, UserKeeps, LoadKeeps, RestartKeeps DEF Next

LEMMA StutterKeeps == ASSUME PhotosInv, UNCHANGED vars PROVE Keeps
<1>1. /\ UNCHANGED <<server, task, budget, disturbed>>
      /\ shown' = shown /\ loading' = loading /\ load' = load
  BY DEF vars, local
<1>2. /\ shown' \in [Devices -> SUBSET Entry] /\ loading' \in [Devices -> BOOLEAN]
      /\ load' \in [Loads -> LoadState] /\ task' \in [Tasks -> TaskState]
      /\ budget' \in 0..MaxFaults /\ disturbed' \subseteq Photos
  BY <1>1 DEF PhotosInv, PhotoTypeOK
<1>3. /\ \A d \in Devices : \A e \in shown'[d] : Known(e.id)
      /\ \A l \in Loads : \A e \in load'[l].answer : Known(e.id)
      /\ \A t \in Tasks : task'[t] \in {task[t], IdleTask}
  BY <1>1 DEF PhotosInv, OnlyKnown
<1> QED BY <1>1, <1>2, <1>3, ListsKeep DEF Keeps

LEMMA PhotosInitKeeps == Init => PhotosInv
<1> SUFFICES ASSUME Init PROVE PhotosInv
  OBVIOUS
<1> DEFINE there == [state |-> "there", ref |-> TRUE, pic |-> 1, merged |-> NoNumber]
<1>1. PICK S \in SUBSET Photos :
        /\ docs = [p \in Photos |-> IF p \in S THEN there ELSE NoDoc]
        /\ stored = [p \in Photos |-> p \in S]
        /\ uploads = [p \in Photos |-> IF p \in S THEN 1 ELSE 0]
        /\ shown \in [Devices -> {{}, {EntryOf(p) : p \in S}}]
  BY DEF Init
<1>2. there \in Doc /\ NoDoc \in Doc /\ there.merged = NoNumber /\ NoDoc.merged = NoNumber
      /\ there.state = "there"
  BY DEF Doc, NoDoc, Pictures
<1> HIDE DEF there
<1>3. docs \in [Photos -> Doc] /\ \A p \in Photos : docs[p].merged = NoNumber
  BY <1>1, <1>2
<1>4. \A p \in S : EntryOf(p) \in Entry /\ Known(EntryOf(p).id)
  <2> SUFFICES ASSUME NEW p \in S PROVE EntryOf(p) \in Entry /\ Known(EntryOf(p).id)
    OBVIOUS
  <2>1. p \in Photos /\ docs[p].pic \in Pictures /\ docs[p].state = "there"
    BY <1>1, <1>2, <1>3 DEF Doc
  <2>2. (docs[p].merged # NoNumber) \in BOOLEAN
    OBVIOUS
  <2>3. EntryOf(p) \in Entry
    BY <2>1, <2>2, Zenon DEF EntryOf, Entry
  <2>4. EntryOf(p).id = p
    BY DEF EntryOf
  <2> QED BY <2>1, <2>3, <2>4 DEF Known
<1>5. /\ shown \in [Devices -> SUBSET Entry]
      /\ \A d \in Devices : \A e \in shown[d] : Known(e.id)
  BY <1>1, <1>4
<1>6. /\ loading \in [Devices -> BOOLEAN] /\ budget \in 0..MaxFaults
      /\ created = {} /\ disturbed = {}
  BY PhotosAssumption DEF Init
<1>7. /\ task = [t \in Tasks |-> IdleTask] /\ load = [l \in Loads |-> IdleLoad]
      /\ IdleTask.pc = "idle" /\ IdleLoad.answer = {}
  BY DEF Init, IdleTask, IdleLoad
<1>8. stored \in [Photos -> BOOLEAN] /\ uploads \in [Photos -> Pictures]
  BY <1>1 DEF Pictures
<1>9. PhotoTypeOK
  BY <1>3, <1>5, <1>6, <1>7, <1>8, IdlePhotoTypes DEF PhotoTypeOK
<1>10. OnlyKnown /\ AcceptsInOrder /\ UnmarkedUntilThere /\ MergedHasAsset
  BY <1>3, <1>5, <1>7 DEF OnlyKnown, AcceptsInOrder, UnmarkedUntilThere, MergedHasAsset, Saving
<1> QED BY <1>9, <1>10 DEF PhotosInv

-----------------------------------------------------------------------------
(* The pictures *)

\* A call is of the kind its step belongs to.
KindsFit ==
    \A t \in Tasks :
        /\ task[t].pc \in {"upload", "write"} => task[t].kind \in {"save", "edit"}
        /\ task[t].pc = "erase" => task[t].kind \in {"edit", "delete"}
        /\ task[t].pc = "remove" => task[t].kind = "delete"
        /\ task[t].pc \in {"modal", "create", "mark"} => task[t].kind = "accept"

\* One call at most works on the picture of p; the picture is there when none does, and
\* when the one that does is about to write its address.
PictureHeld(p) ==
    /\ \A t, u \in AtPicture(p) : t = u
    /\ docs[p].state = "there" /\ AtPicture(p) = {} => stored[p] /\ docs[p].pic = uploads[p]
    /\ \A t \in AtPicture(p) :
         task[t].pc = "write" /\ (task[t].kind = "save" \/ docs[p].state = "there")
            => stored[p] /\ task[t].pic = uploads[p]

PicturesInv == KindsFit /\ \A p \in Photos \ disturbed : PictureHeld(p)

\* Nothing that the picture of p depends on is touched.
LEMMA Untouched ==
  ASSUME PhotoTypeOK, NEW p \in Photos, PictureHeld(p),
         docs'[p].state = "there" => docs[p].state = "there" /\ docs'[p].pic = docs[p].pic,
         stored'[p] = stored[p], uploads'[p] = uploads[p],
         AtPicture(p)' = AtPicture(p), \A t \in AtPicture(p) : task'[t] = task[t]
  PROVE  PictureHeld(p)'
BY DEF PictureHeld

\* A step of the call t touches the pictures it was at and is at then.
LEMMA AtPictureElsewhere ==
  ASSUME PhotoTypeOK, NEW t \in Tasks, NEW r, task' = [task EXCEPT ![t] = r],
         NEW p \in Photos, t \notin AtPicture(p),
         ~(r.id = p /\ r.kind \in {"save", "edit", "delete"} /\ r.pc \notin {"idle", "confirm"})
  PROVE  AtPicture(p)' = AtPicture(p) /\ \A u \in AtPicture(p) : task'[u] = task[u]
<1>1. task'[t] = r /\ \A u \in Tasks \ {t} : task'[u] = task[u]
  BY DEF PhotoTypeOK
<1> QED BY <1>1 DEF AtPicture

\* A call that begins on a picture nobody works on, or goes on alone, is alone.
LEMMA AtPictureAlone ==
  ASSUME PhotoTypeOK, NEW t \in Tasks, NEW r, task' = [task EXCEPT ![t] = r],
         NEW p \in Photos, AtPicture(p) \subseteq {t},
         r.id = p, r.kind \in {"save", "edit", "delete"}, r.pc \notin {"idle", "confirm"}
  PROVE  AtPicture(p)' = {t} /\ task'[t] = r
<1>1. task'[t] = r /\ \A u \in Tasks \ {t} : task'[u] = task[u]
  BY DEF PhotoTypeOK
<1> QED BY <1>1 DEF AtPicture

\* What the server does to pictures and addresses.
LEMMA RequestPictures ==
  ASSUME PhotosInv, KindsFit, NEW t \in Tasks, Request(t)
  PROVE  /\ \A p \in Photos \ {task[t].id} :
              docs'[p] = docs[p] /\ stored'[p] = stored[p] /\ uploads'[p] = uploads[p]
         /\ task[t].pc \in {"create", "mark"} =>
              /\ stored' = stored /\ uploads' = uploads
              /\ \A p \in Photos : docs'[p].state = docs[p].state /\ docs'[p].pic = docs[p].pic
         /\ task[t].pc = "upload" =>
              stored'[task[t].id] /\ uploads'[task[t].id] = uploads[task[t].id] + 1
         /\ task[t].pc = "write" =>
              /\ stored' = stored /\ uploads' = uploads
              /\ docs'[task[t].id].pic = task[t].pic
              /\ task[t].kind = "save" \/ docs[task[t].id].state = "there"
         /\ task[t].pc = "remove" => docs'[task[t].id].state = "gone"
         /\ task[t].pc \in {"upload", "write", "create", "mark", "remove"}
<1> DEFINE q == task[t].id
<1>1. /\ q \in Photos /\ docs[q] \in Doc /\ docs \in [Photos -> Doc]
      /\ stored \in [Photos -> BOOLEAN] /\ uploads \in [Photos -> Nat]
      /\ task[t] \in TaskState
  BY DEF PhotosInv, PhotoTypeOK, TaskState, Pictures
<1>2. CASE UploadPicture(t)
  BY <1>1, <1>2 DEF UploadPicture
<1>3. CASE SetDoc(t)
  <2>1. /\ docs' = [docs EXCEPT ![q] = [state |-> "there", ref |-> task[t].ref,
                                        pic |-> task[t].pic, merged |-> NoNumber]]
        /\ UNCHANGED <<stored, uploads>> /\ task[t].pc = "write" /\ task[t].kind = "save"
    BY <1>3 DEF SetDoc
  <2> QED BY <1>1, <2>1
<1>4. CASE UpdateDoc(t)
  <2>1. /\ docs' = [docs EXCEPT ![q].ref = task[t].ref, ![q].pic = task[t].pic]
        /\ UNCHANGED <<stored, uploads>> /\ task[t].pc = "write" /\ docs[q].state = "there"
    BY <1>4 DEF UpdateDoc
  <2>2. docs'[q].pic = task[t].pic /\ \A p \in Photos \ {q} : docs'[p] = docs[p]
    BY <1>1, <2>1 DEF Doc
  <2> QED BY <2>1, <2>2
<1>5. CASE CreateAsset(t)
  BY <1>5 DEF CreateAsset
<1>6. CASE MarkMerged(t)
  <2>1. /\ docs' = [docs EXCEPT ![q].merged = task[t].number] /\ task[t].pc = "mark"
        /\ UNCHANGED <<stored, uploads>>
    BY <1>6 DEF MarkMerged
  <2>2. /\ \A p \in Photos \ {q} : docs'[p] = docs[p]
        /\ docs'[q].state = docs[q].state /\ docs'[q].pic = docs[q].pic
    BY <1>1, <2>1 DEF Doc
  <2> QED BY <1>1, <2>1, <2>2
<1>7. CASE RemoveDoc(t)
  <2>1. /\ docs' = [docs EXCEPT ![q] = [NoDoc EXCEPT !.state = "gone"]]
        /\ UNCHANGED <<stored, uploads>> /\ task[t].pc = "remove"
    BY <1>7 DEF RemoveDoc
  <2>2. [NoDoc EXCEPT !.state = "gone"].state = "gone"
    BY DEF NoDoc
  <2> QED BY <1>1, <2>1, <2>2
<1> QED BY <1>2, <1>3, <1>4, <1>5, <1>6, <1>7 DEF Request

LEMMA KindsFitKept ==
  ASSUME PhotoTypeOK, KindsFit, NEW t \in Tasks, NEW r, task' = [task EXCEPT ![t] = r],
         /\ r.pc \in {"upload", "write"} => r.kind \in {"save", "edit"}
         /\ r.pc = "erase" => r.kind \in {"edit", "delete"}
         /\ r.pc = "remove" => r.kind = "delete"
         /\ r.pc \in {"modal", "create", "mark"} => r.kind = "accept"
  PROVE  KindsFit'
<1>1. task'[t] = r /\ \A u \in Tasks \ {t} : task'[u] = task[u]
  BY DEF PhotoTypeOK
<1> QED BY <1>1 DEF KindsFit

\* A call of the accept dialog, or one that was not at a picture and is not: it may change
\* what the document says of the asset.
LEMMA NotAtPictureKeeps ==
  ASSUME PhotosInv, PicturesInv, NEW t \in Tasks, NEW r, task' = [task EXCEPT ![t] = r],
         task[t].kind = "accept" \/ task[t].pc \in {"idle", "confirm"},
         r.kind = "accept" \/ r.pc \in {"idle", "confirm"},
         r.pc \in {"modal", "create", "mark"} => r.kind = "accept",
         r.kind = "accept" => r.pc \in {"modal", "create", "mark", "confirm"},
         \A p \in Photos : docs'[p].state = docs[p].state /\ docs'[p].pic = docs[p].pic,
         stored' = stored, uploads' = uploads, disturbed \subseteq disturbed'
  PROVE  PicturesInv'
<1>1. PhotoTypeOK
  BY DEF PhotosInv
<1>2. KindsFit'
  BY <1>1, KindsFitKept DEF PicturesInv
<1>3. ASSUME NEW p \in Photos, p \notin disturbed' PROVE PictureHeld(p)'
  <2>1. t \notin AtPicture(p)
    BY DEF AtPicture
  <2>2. AtPicture(p)' = AtPicture(p) /\ \A u \in AtPicture(p) : task'[u] = task[u]
    BY <1>1, <2>1, AtPictureElsewhere
  <2>3. PictureHeld(p)
    BY <1>3 DEF PicturesInv
  <2> QED BY <1>1, <2>2, <2>3, Untouched
<1> QED BY <1>2, <1>3 DEF PicturesInv

\* The call t goes on as r: it was at the picture of its photo or begins there now, and
\* what holds of that one holds still, or it counts as disturbed.
LEMMA AtPictureKeeps ==
  ASSUME PhotosInv, PicturesInv, NEW t \in Tasks, NEW r, task' = [task EXCEPT ![t] = r],
         r.pc \in {"upload", "write"} => r.kind \in {"save", "edit"},
         r.pc = "erase" => r.kind \in {"edit", "delete"},
         r.pc = "remove" => r.kind = "delete",
         r.pc \notin {"modal", "create", "mark"},
         NEW q \in Photos, task[t].pc # "idle" => task[t].id = q,
         r.pc # "idle" => r.id = q,
         \A p \in Photos \ {q} : /\ docs'[p] = docs[p]
                                 /\ stored'[p] = stored[p] /\ uploads'[p] = uploads[p],
         disturbed \subseteq disturbed',
         q \notin disturbed' => PictureHeld(q)'
  PROVE  PicturesInv'
<1>1. PhotoTypeOK
  BY DEF PhotosInv
<1>2. KindsFit'
  BY <1>1, KindsFitKept DEF PicturesInv
<1>3. ASSUME NEW p \in Photos, p \notin disturbed', p # q PROVE PictureHeld(p)'
  <2>1. t \notin AtPicture(p)
    BY <1>3 DEF AtPicture
  <2>2. AtPicture(p)' = AtPicture(p) /\ \A u \in AtPicture(p) : task'[u] = task[u]
    BY <1>1, <1>3, <2>1, AtPictureElsewhere
  <2>3. PictureHeld(p)
    BY <1>3 DEF PicturesInv
  <2> QED BY <1>1, <1>3, <2>2, <2>3, Untouched
<1> QED BY <1>2, <1>3 DEF PicturesInv

LEMMA SaveHolds ==
  ASSUME PhotosInv, PicturesInv, NEW t \in Tasks, NEW p \in Photos, NEW f \in BOOLEAN,
         Save(t, p, f)
  PROVE  PicturesInv'
<1> DEFINE r == [IdleTask EXCEPT !.pc = "upload", !.kind = "save", !.id = p, !.ref = f]
<1>1. r.pc = "upload" /\ r.kind = "save" /\ r.id = p
  BY DEF IdleTask
<1>2. /\ PhotoTypeOK /\ docs \in [Photos -> Doc] /\ docs[p].state = "unused"
      /\ docs' = [docs EXCEPT ![p].state = "taken"]
      /\ task[t].pc = "idle" /\ task' = [task EXCEPT ![t] = r]
      /\ stored' = stored /\ uploads' = uploads /\ disturbed' = disturbed
  BY DEF Save, Start, PhotosInv, PhotoTypeOK
<1> HIDE DEF r
<1>3. AtPicture(p) = {}
  <2> SUFFICES ASSUME NEW u \in Tasks, task[u].id = p, task[u].pc # "idle" PROVE FALSE
    BY DEF AtPicture
  <2> QED BY <1>2 DEF PhotosInv, OnlyKnown, Known
<1>4. docs'[p].state = "taken" /\ \A q \in Photos \ {p} : docs'[q] = docs[q]
  BY <1>2 DEF Doc
<1>5. AtPicture(p)' = {t} /\ task'[t] = r
  BY <1>1, <1>2, <1>3, AtPictureAlone
<1>6. PictureHeld(p)'
  BY <1>1, <1>4, <1>5 DEF PictureHeld
<1> QED BY <1>1, <1>2, <1>4, <1>6, AtPictureKeeps

\* An edit or a deletion begins alone, and an edit without a new picture with the address
\* of the document, or the photo counts as disturbed.
LEMMA StartHolds ==
  ASSUME PhotosInv, PicturesInv, NEW t \in Tasks, NEW q \in Photos, NEW r,
         task[t].pc = "idle", task' = [task EXCEPT ![t] = r], r.id = q,
         \/ r.pc = "erase" /\ r.kind \in {"edit", "delete"}
         \/ r.pc = "write" /\ r.kind = "edit" /\ (q \notin disturbed' => r.pic = docs[q].pic),
         disturbed \subseteq disturbed', q \notin disturbed' => AtPicture(q) = {},
         UNCHANGED server
  PROVE  PicturesInv'
<1>1. PhotoTypeOK /\ docs' = docs /\ stored' = stored /\ uploads' = uploads
  BY DEF PhotosInv, server
<1>2. ASSUME q \notin disturbed' PROVE PictureHeld(q)'
  <2>1. AtPicture(q)' = {t} /\ task'[t] = r
    BY <1>1, <1>2, AtPictureAlone
  <2>2. PictureHeld(q) /\ AtPicture(q) = {}
    BY <1>2 DEF PicturesInv
  <2> QED BY <1>1, <1>2, <2>1, <2>2 DEF PictureHeld
<1> QED BY <1>1, <1>2, AtPictureKeeps

LEMMA UserHolds ==
  ASSUME PhotosInv, PicturesInv, NEW t \in Tasks, UserStep(t)
  PROVE  PicturesInv'
<1>1. /\ PhotoTypeOK /\ task[t] \in TaskState /\ task \in [Tasks -> TaskState]
      /\ \A e \in shown[DeviceOf[t]] : e \in Entry /\ e.id \in Photos
  BY PhotosAssumption DEF PhotosInv, PhotoTypeOK, Entry
<1>2. UNCHANGED server => stored' = stored /\ uploads' = uploads /\ docs' = docs
  BY DEF server
<1>3. ASSUME NEW p \in Photos, NEW f \in BOOLEAN, Save(t, p, f) PROVE PicturesInv'
  BY <1>3, SaveHolds
<1>4. ASSUME NEW e \in shown[DeviceOf[t]], NEW f \in BOOLEAN, NEW image \in BOOLEAN,
             Update(t, e, f, image)
      PROVE  PicturesInv'
  <2> DEFINE pc == IF image THEN "erase" ELSE "write"
             pic == IF image THEN 0 ELSE e.pic
             r == [IdleTask EXCEPT !.pc = pc, !.kind = "edit", !.id = e.id, !.ref = f,
                                   !.pic = pic]
  <2>1. r.pc = pc /\ r.kind = "edit" /\ r.id = e.id /\ r.pic = pic
    BY DEF IdleTask
  <2>2. /\ task[t].pc = "idle" /\ task' = [task EXCEPT ![t] = r] /\ UNCHANGED server
        /\ Disturb(IF AtPicture(e.id) # {} \/ e.pic # docs[e.id].pic THEN {e.id} ELSE {})
    BY <1>4 DEF Update, Start
  <2> HIDE DEF r
  <2>3. /\ disturbed \subseteq disturbed'
        /\ e.id \notin disturbed' => AtPicture(e.id) = {} /\ e.pic = docs[e.id].pic
    BY <2>2 DEF Disturb
  <2> QED BY <1>1, <2>1, <2>2, <2>3, StartHolds
<1>5. ASSUME NEW e \in shown[DeviceOf[t]], Delete(t, e) PROVE PicturesInv'
  <2> DEFINE r == [IdleTask EXCEPT !.pc = "erase", !.kind = "delete", !.id = e.id]
  <2>1. r.pc = "erase" /\ r.kind = "delete" /\ r.id = e.id
    BY DEF IdleTask
  <2>2. /\ task[t].pc = "idle" /\ task' = [task EXCEPT ![t] = r] /\ UNCHANGED server
        /\ Disturb(IF AtPicture(e.id) # {} THEN {e.id} ELSE {})
    BY <1>5 DEF Delete, Start
  <2> HIDE DEF r
  <2>3. /\ disturbed \subseteq disturbed'
        /\ e.id \notin disturbed' => AtPicture(e.id) = {}
    BY <2>2 DEF Disturb
  <2> QED BY <1>1, <2>1, <2>2, <2>3, StartHolds
<1>6. ASSUME NEW e \in shown[DeviceOf[t]], AcceptOpens(t, e) PROVE PicturesInv'
  <2> DEFINE r == [IdleTask EXCEPT !.pc = "modal", !.kind = "accept", !.id = e.id]
  <2>1. r.pc = "modal" /\ r.kind = "accept"
    BY DEF IdleTask
  <2>2. /\ task[t].pc = "idle" /\ task' = [task EXCEPT ![t] = r] /\ UNCHANGED server
        /\ disturbed' = disturbed
    BY <1>6 DEF AcceptOpens, Start
  <2> HIDE DEF r
  <2> QED BY <1>2, <2>1, <2>2, NotAtPictureKeeps
<1>7. CASE AcceptCloses(t)
  <2>1. /\ task[t].pc = "modal" /\ task' = [task EXCEPT ![t] = IdleTask]
        /\ UNCHANGED server /\ disturbed' = disturbed
    BY <1>7 DEF AcceptCloses
  <2>2. IdleTask.pc = "idle" /\ IdleTask.kind = "save" /\ task[t].kind = "accept"
    BY <2>1 DEF IdleTask, PicturesInv, KindsFit
  <2> QED BY <1>2, <2>1, <2>2, NotAtPictureKeeps
<1>8. ASSUME NEW n \in AssetNos, AcceptSubmitted(t, n) PROVE PicturesInv'
  <2> DEFINE r == [task[t] EXCEPT !.pc = "create", !.number = n]
  <2>1. task[t].pc = "modal" /\ UNCHANGED server /\ disturbed' = disturbed
    BY <1>8 DEF AcceptSubmitted
  <2>2. task[t].kind = "accept"
    BY <2>1 DEF PicturesInv, KindsFit
  <2>3. task' = [task EXCEPT ![t] = r] /\ r.pc = "create" /\ r.kind = "accept"
    BY <1>1, <1>8, <2>2 DEF AcceptSubmitted, TaskState
  <2> HIDE DEF r
  <2> QED BY <1>2, <2>1, <2>2, <2>3, NotAtPictureKeeps
<1> QED BY <1>3, <1>4, <1>5, <1>6, <1>7, <1>8 DEF UserStep

LEMMA AnsweredHolds ==
  ASSUME PhotosInv, PicturesInv, NEW t \in Tasks, Answered(t)
  PROVE  PicturesInv'
<1>0. PICK q \in Photos : q = task[t].id
  BY DEF PhotosInv, PhotoTypeOK, TaskState
<1> DEFINE pc == Following(task[t])
           pic == IF task[t].pc = "upload" THEN uploads[q] + 1 ELSE task[t].pic
           r == [task[t] EXCEPT !.pc = pc, !.pic = pic]
<1>1. /\ PhotoTypeOK /\ KindsFit /\ task \in [Tasks -> TaskState] /\ task[t] \in TaskState
      /\ q \in Photos
  BY DEF PhotosInv, PhotoTypeOK, TaskState, PicturesInv
<1>2. Request(t) /\ disturbed' = disturbed
  BY DEF Answered
<1>3. task' = [task EXCEPT ![t] = r]
  BY <1>0, <1>1 DEF Answered, TaskState
<1>4. r.pc = pc /\ r.kind = task[t].kind /\ r.id = q /\ r.pic = pic
  BY <1>0, <1>1 DEF TaskState
<1>5. task[t].pc \in {"upload", "write", "create", "mark", "remove"}
  BY <1>0, <1>1, <1>2, RequestPictures
<1>6. /\ task[t].pc = "upload" => pc = "write"
      /\ task[t].pc = "create" => pc = "mark"
      /\ task[t].pc \in {"write", "mark", "remove"} => pc = "confirm"
  BY DEF Following
<1> HIDE DEF r, pc
<1>7. CASE task[t].pc \in {"create", "mark"}
  <2>1. task[t].kind = "accept" /\ pc \in {"mark", "confirm"}
    BY <1>0, <1>1, <1>6, <1>7 DEF KindsFit
  <2>2. /\ stored' = stored /\ uploads' = uploads
        /\ \A p \in Photos : docs'[p].state = docs[p].state /\ docs'[p].pic = docs[p].pic
    BY <1>0, <1>1, <1>2, <1>7, RequestPictures
  <2> QED BY <1>2, <1>3, <1>4, <2>1, <2>2, NotAtPictureKeeps
<1>8. CASE task[t].pc \in {"upload", "write", "remove"}
  <2>1. t \in AtPicture(q)
    BY <1>0, <1>1, <1>8 DEF AtPicture, KindsFit
  <2>2. ASSUME q \notin disturbed PROVE PictureHeld(q)'
    <3>1. PictureHeld(q) /\ AtPicture(q) \subseteq {t}
      BY <1>0, <1>1, <2>1, <2>2 DEF PicturesInv, PictureHeld
    <3>2. CASE task[t].pc = "upload"
      <4>1. r.pc \notin {"idle", "confirm"} /\ r.kind \in {"save", "edit", "delete"}
        BY <1>1, <1>4, <1>6, <3>2 DEF KindsFit
      <4>2. AtPicture(q)' = {t} /\ task'[t] = r
        BY <1>1, <1>3, <1>4, <3>1, <4>1, AtPictureAlone
      <4>3. stored'[q] /\ uploads'[q] = uploads[q] + 1 /\ r.pic = uploads[q] + 1
        BY <1>0, <1>1, <1>2, <1>4, <3>2, RequestPictures
      <4> QED BY <4>2, <4>3 DEF PictureHeld
    <3>3. CASE task[t].pc \in {"write", "remove"}
      <4>1. AtPicture(q)' = {}
        <5>1. task'[t] = r /\ \A u \in Tasks \ {t} : task'[u] = task[u]
          BY <1>0, <1>1, <1>3
        <5> QED BY <1>4, <1>6, <3>1, <3>3, <5>1 DEF AtPicture
      <4>2. docs'[q].state = "there" => stored'[q] /\ docs'[q].pic = uploads'[q]
        BY <1>0, <1>1, <1>2, <2>1, <3>1, <3>3, RequestPictures DEF PictureHeld
      <4> QED BY <4>1, <4>2 DEF PictureHeld
    <3> QED BY <1>8, <3>2, <3>3
  <2>3. /\ r.pc \in {"upload", "write"} => r.kind \in {"save", "edit"}
        /\ r.pc \in {"write", "confirm"}
    BY <1>0, <1>1, <1>4, <1>6, <1>8 DEF KindsFit
  <2>4. \A p \in Photos \ {q} :
          docs'[p] = docs[p] /\ stored'[p] = stored[p] /\ uploads'[p] = uploads[p]
    BY <1>0, <1>1, <1>2, RequestPictures
  <2> QED BY <1>0, <1>1, <1>2, <1>3, <1>4, <2>2, <2>3, <2>4, AtPictureKeeps
<1> QED BY <1>5, <1>7, <1>8

\* A call that gives up leaves the picture disturbed, unless it was not at one or its
\* document is gone.
LEMMA GivesUpHolds ==
  ASSUME PhotosInv, PicturesInv, NEW t \in Tasks, GivesUp(t),
         task[t].pc \in {"upload", "write", "create", "mark", "remove"},
         Request(t) \/ UNCHANGED server,
         disturbed \subseteq disturbed',
         \/ t \notin AtPicture(task[t].id) \/ task[t].id \in disturbed'
         \/ UNCHANGED server /\ docs[task[t].id].state # "there"
  PROVE  PicturesInv'
<1>0. PICK q \in Photos : q = task[t].id
  BY DEF PhotosInv, PhotoTypeOK, TaskState
<1> DEFINE r == IF task[t].kind = "accept" THEN [task[t] EXCEPT !.pc = "modal", !.number = NoNumber]
                ELSE IdleTask
<1>1. /\ PhotoTypeOK /\ KindsFit /\ task \in [Tasks -> TaskState] /\ task[t] \in TaskState
      /\ q \in Photos
  BY DEF PhotosInv, PhotoTypeOK, TaskState, PicturesInv
<1>2. task' = [task EXCEPT ![t] = r]
  BY DEF GivesUp
<1>3. UNCHANGED server => stored' = stored /\ uploads' = uploads /\ docs' = docs
  BY DEF server
<1>4. IdleTask.pc = "idle" /\ IdleTask.kind = "save"
  BY DEF IdleTask
<1>5. CASE task[t].kind = "accept"
  <2>1. r.pc = "modal" /\ r.kind = "accept"
    BY <1>0, <1>1, <1>5 DEF TaskState
  <2>2. task[t].pc \in {"create", "mark"}
    BY <1>0, <1>1, <1>5 DEF KindsFit
  <2> HIDE DEF r
  <2>3. /\ stored' = stored /\ uploads' = uploads
        /\ \A p \in Photos : docs'[p].state = docs[p].state /\ docs'[p].pic = docs[p].pic
    BY <1>0, <1>1, <1>3, <2>2, RequestPictures
  <2> QED BY <1>2, <1>5, <2>1, <2>3, NotAtPictureKeeps
<1>6. CASE task[t].kind # "accept"
  <2>1. r = IdleTask /\ task' = [task EXCEPT ![t] = IdleTask]
    BY <1>2, <1>6
  <2>2. t \in AtPicture(q)
    BY <1>0, <1>1, <1>6 DEF AtPicture, TaskState
  <2>3. \A p \in Photos \ {q} :
          docs'[p] = docs[p] /\ stored'[p] = stored[p] /\ uploads'[p] = uploads[p]
    BY <1>0, <1>1, <1>3, RequestPictures
  <2>4. ASSUME q \notin disturbed' PROVE PictureHeld(q)'
    <3>1. docs'[q].state # "there"
      BY <1>0, <1>3, <2>2, <2>4
    <3>2. AtPicture(q) \subseteq {t}
      BY <1>0, <1>1, <2>2, <2>4 DEF PicturesInv, PictureHeld
    <3>3. AtPicture(q)' = {}
      <4>1. task'[t] = IdleTask /\ \A u \in Tasks \ {t} : task'[u] = task[u]
        BY <1>0, <1>1, <2>1
      <4> QED BY <1>4, <3>2, <4>1 DEF AtPicture
    <3> QED BY <3>1, <3>3 DEF PictureHeld
  <2> QED BY <1>0, <1>1, <1>4, <2>1, <2>3, <2>4, AtPictureKeeps
<1> QED BY <1>5, <1>6

LEMMA EraseHolds ==
  ASSUME PhotosInv, PicturesInv, NEW t \in Tasks, Erase(t)
  PROVE  PicturesInv'
<1>0. PICK q \in Photos : q = task[t].id
  BY DEF PhotosInv, PhotoTypeOK, TaskState
<1> DEFINE pc == IF task[t].kind = "edit" THEN "upload" ELSE "remove"
           r == [task[t] EXCEPT !.pc = pc]
<1>1. /\ PhotoTypeOK /\ KindsFit /\ task \in [Tasks -> TaskState] /\ task[t] \in TaskState
      /\ q \in Photos /\ task[t].pc = "erase" /\ stored \in [Photos -> BOOLEAN]
  BY DEF PhotosInv, PhotoTypeOK, TaskState, PicturesInv, Erase
<1>2. task' = [task EXCEPT ![t] = r]
  BY <1>0, <1>1 DEF Erase, TaskState
<1>3. /\ r.pc = pc /\ r.kind = task[t].kind /\ r.id = q
      /\ task[t].kind \in {"edit", "delete"}
  BY <1>0, <1>1 DEF TaskState, KindsFit
<1> HIDE DEF r
<1>4. docs' = docs /\ uploads' = uploads
  BY DEF Erase
<1>5. \/ stored' = [stored EXCEPT ![q] = FALSE] /\ disturbed' = disturbed
      \/ stored' = stored /\ q \in disturbed' /\ disturbed \subseteq disturbed'
  BY <1>0 DEF Erase, Disturb
<1>6. ASSUME q \notin disturbed' PROVE PictureHeld(q)'
  <2>1. t \in AtPicture(q) /\ PictureHeld(q)
    BY <1>0, <1>1, <1>3, <1>5, <1>6 DEF AtPicture, PicturesInv
  <2>2. AtPicture(q)' = {t} /\ task'[t] = r
    <3>1. AtPicture(q) \subseteq {t} /\ r.pc \notin {"idle", "confirm"}
      BY <1>3, <2>1 DEF PictureHeld
    <3> QED BY <1>1, <1>2, <1>3, <3>1, AtPictureAlone
  <2> QED BY <1>3, <2>2 DEF PictureHeld
<1>7. \A p \in Photos \ {q} : stored'[p] = stored[p]
  BY <1>0, <1>1, <1>5
<1> QED BY <1>0, <1>1, <1>2, <1>3, <1>4, <1>5, <1>6, <1>7, AtPictureKeeps

\* A load changes nothing on the server, and no call.
LEMMA SameServerHolds ==
  ASSUME PhotosInv, PicturesInv, UNCHANGED <<server, task, disturbed>>
  PROVE  PicturesInv'
<1>1. PhotoTypeOK /\ docs' = docs /\ stored' = stored /\ uploads' = uploads /\ task' = task
  BY DEF PhotosInv, server
<1>2. \A p \in Photos : AtPicture(p)' = AtPicture(p)
  BY <1>1 DEF AtPicture
<1>3. \A p \in Photos : PictureHeld(p) => PictureHeld(p)'
  BY <1>1, <1>2, Untouched
<1> QED BY <1>1, <1>3 DEF PicturesInv, KindsFit

LEMMA RestartHolds ==
  ASSUME PhotosInv, PicturesInv, NEW d \in Devices, Restart(d)
  PROVE  PicturesInv'
<1>1. /\ task' = [t \in Tasks |-> IF DeviceOf[t] = d THEN IdleTask ELSE task[t]]
      /\ disturbed' = disturbed \cup {p \in Photos : \E t \in AtPicture(p) : DeviceOf[t] = d}
      /\ UNCHANGED server /\ PhotoTypeOK /\ IdleTask.pc = "idle"
  BY DEF Restart, Disturb, PhotosInv, IdleTask
<1>2. docs' = docs /\ stored' = stored /\ uploads' = uploads
  BY <1>1 DEF server
<1>3. KindsFit'
  BY <1>1 DEF PicturesInv, KindsFit
<1>4. ASSUME NEW p \in Photos, p \notin disturbed' PROVE PictureHeld(p)'
  <2>1. \A t \in AtPicture(p) : DeviceOf[t] # d
    BY <1>1, <1>4
  <2>2. \A t \in AtPicture(p) : task'[t] = task[t]
    BY <1>1, <2>1 DEF AtPicture
  <2>3. AtPicture(p)' = AtPicture(p)
    BY <1>1, <2>1, <2>2 DEF AtPicture
  <2>4. PictureHeld(p)
    BY <1>1, <1>4 DEF PicturesInv
  <2> QED BY <1>1, <1>2, <2>2, <2>3, <2>4, Untouched
<1> QED BY <1>3, <1>4 DEF PicturesInv

LEMMA NextHolds ==
  ASSUME PhotosInv, PicturesInv, Next
  PROVE  PicturesInv'
<1>1. ASSUME NEW t \in Tasks, TaskStep(t) PROVE PicturesInv'
  <2>1. CASE Missing(t)
    <3>1. /\ task[t].pc \in {"write", "mark"} /\ docs[task[t].id].state # "there"
          /\ GivesUp(t) /\ UNCHANGED server /\ disturbed' = disturbed
      BY <2>1 DEF Missing
    <3> QED BY <3>1, GivesUpHolds
  <2>2. CASE Fails(t)
    <3>1. /\ task[t].pc \in {"upload", "write", "create", "mark", "remove"}
          /\ Request(t) \/ UNCHANGED server
          /\ GivesUp(t) /\ disturbed \subseteq disturbed'
          /\ t \in AtPicture(task[t].id) => task[t].id \in disturbed'
      BY <2>2 DEF Fails, Disturb
    <3> QED BY <3>1, GivesUpHolds
  <2>3. CASE Confirm(t)
    <3>1. /\ task[t].pc = "confirm" /\ task' = [task EXCEPT ![t] = IdleTask]
          /\ UNCHANGED server /\ disturbed' = disturbed
      BY <2>3 DEF Confirm
    <3>2. docs' = docs /\ stored' = stored /\ uploads' = uploads
          /\ IdleTask.pc = "idle" /\ IdleTask.kind = "save"
      BY <3>1 DEF server, IdleTask
    <3> QED BY <3>1, <3>2, NotAtPictureKeeps
  <2> QED BY <1>1, <2>1, <2>2, <2>3, AnsweredHolds, EraseHolds DEF TaskStep
<1>2. ASSUME NEW l \in Loads, LoadStep(l) PROVE PicturesInv'
  <2>1. UNCHANGED <<server, task, disturbed>>
    BY <1>2 DEF LoadStep, LoadAnswered, LoadReturns, LoadFails, LoadEnds
  <2> QED BY <2>1, SameServerHolds
<1> QED BY <1>1, <1>2, UserHolds, RestartHolds DEF Next

LEMMA InitHolds == Init => PicturesInv
<1> SUFFICES ASSUME Init PROVE PicturesInv
  OBVIOUS
<1> DEFINE there == [state |-> "there", ref |-> TRUE, pic |-> 1, merged |-> NoNumber]
<1>1. PICK S \in SUBSET Photos :
        /\ docs = [p \in Photos |-> IF p \in S THEN there ELSE NoDoc]
        /\ stored = [p \in Photos |-> p \in S]
        /\ uploads = [p \in Photos |-> IF p \in S THEN 1 ELSE 0]
  BY DEF Init
<1>2. task = [t \in Tasks |-> IdleTask] /\ IdleTask.pc = "idle"
  BY DEF Init, IdleTask
<1>3. \A p \in Photos : AtPicture(p) = {}
  BY <1>2 DEF AtPicture
<1>4. there.pic = 1 /\ NoDoc.state = "unused"
  BY DEF NoDoc
<1> HIDE DEF there
<1>5. \A p \in Photos : docs[p].state = "there" => stored[p] /\ docs[p].pic = uploads[p]
  BY <1>1, <1>4
<1> QED BY <1>2, <1>3, <1>5 DEF PicturesInv, KindsFit, PictureHeld

-----------------------------------------------------------------------------
(* The theorems *)

\* PhotosInv holds of every reachable state: what devices show and calls work on was
\* written once, and an accept marks its photo only after its asset (the calls of
\* lib/providers/temp_photo_provider, however they overlap).
THEOREM PhotosAreSound == Spec => []PhotosInv
<1>1. PhotosInv /\ [Next]_vars => PhotosInv'
  BY NextKeeps, StutterKeeps DEF Keeps
<1> QED BY <1>1, PhotosInitKeeps, PTL DEF Spec

\* Every variable keeps its type, whatever the devices and the server do.
THEOREM PhotosTypeCorrect == Spec => []PhotoTypeOK
BY PhotosAreSound, PTL DEF PhotosInv

\* A photo is marked as merged only with the number of an asset that was created from it
\* (acceptTempPhotoAsAsset, for any faults, edits and deletions between its requests).
THEOREM MergedPhotosHaveAssets == Spec => []MergedHasAsset
BY PhotosAreSound, PTL DEF PhotosInv

\* What was accepted stays marked, however old the copy that an edit starts from
\* (updateTempPhoto writes only the fields of its form).
THEOREM MergedPhotosStay == Spec => MergedStays
<1>1. PhotosInv /\ [Next]_vars =>
        [\A p \in Photos : docs[p].merged # NoNumber /\ docs'[p].state = "there"
                           => docs'[p].merged # NoNumber]_vars
  BY NextKeeps DEF Keeps, DocsKept
<1> QED BY <1>1, PhotosAreSound, PTL DEF Spec, MergedStays

\* What was deleted never comes back (deleteTempPhoto, with edits and accepts of devices
\* that still show the photo).
THEOREM DeletedPhotosStay == Spec => DeletedStays
<1>1. PhotosInv /\ [Next]_vars =>
        [\A p \in Photos : docs[p].state = "gone" => docs'[p].state = "gone"]_vars
  BY NextKeeps DEF Keeps, DocsKept
<1> QED BY <1>1, PhotosAreSound, PTL DEF Spec, DeletedStays

\* The address in a document shows its picture: an edit erases the old picture, uploads and
\* writes the new address in three requests, and between calls that did not fail, overlap
\* or start from an old copy the two agree (updateTempPhoto, deleteTempPhoto).
THEOREM PicturesAreThere == Spec => []PictureIsThere
<1>1. PhotosInv /\ PicturesInv /\ [Next]_vars => PicturesInv'
  BY NextHolds, SameServerHolds DEF vars
<1>2. PicturesInv => PictureIsThere
  BY DEF PicturesInv, PictureHeld, PictureIsThere
<1>3. Spec => []PicturesInv
  BY <1>1, InitHolds, PhotosAreSound, PTL DEF Spec
<1> QED BY <1>2, <1>3, PTL
=============================================================================
