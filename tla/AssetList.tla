------------------------------ MODULE AssetList ------------------------------
(***************************************************************************)
(* The list of assets and its cache: lib/providers/asset_provider, fed     *)
(* with the rights of the session by the proxy provider of lib/main.dart.  *)
(*                                                                         *)
(* A list of assets is the set of the cost centers it covers.  Its cache   *)
(* in the preferences has one entry per rights: the list, and separately   *)
(* the time it was fetched at, fresh for 30 days.  The rights used for a   *)
(* key are read when the key is made; they change with any frame.  Two     *)
(* rights have one key only if their lists are the same: the hash of the   *)
(* joined cost centers is taken to be injective.                           *)
(***************************************************************************)
EXTENDS Session

CONSTANTS
    ListLoads,  \* bound: loads that may overlap
    NoList      \* no list under this key

ASSUME AssetListAssumption == NoList \notin SUBSET CostCenters

Rights == [owner : BOOLEAN, costCenters : SUBSET CostCenters]

VARIABLES
    made,           \* the provider exists: it is made by the first frame that asks for it
    context,        \* _userRole and _allowedCostCenters
    assets,         \* the cost centers whose assets the list holds
    assetsLoading, error,
    cachedList,     \* preferences: the list stored under a key
    cachedTime,     \* preferences: "fresh", or "stale": missing, or older than 30 days
    recent,         \* history: the keys whose list was answered by the server in the last
                    \* 30 days
    loads           \* the loads under way

cache     == <<cachedList, cachedTime, recent>>
listVars  == <<assets, assetsLoading, error>>
assetVars == <<made, context, listVars, cache, loads>>
allVars   == <<sessionVars, assetVars>>

\* All of the session but the request for a frame.
sessionRest == <<remote, prefsTable, subscribed, rights, fetches, notified, screen, crashes>>

\* _computeUid: one key for all owners, one for each set of cost centers.
Key(r) == IF r.owner THEN [owner |-> TRUE, costCenters |-> {}] ELSE r

Keys == {Key(r) : r \in Rights}

\* What the query of fetchAssetsFromServer asks for.
Scope(r) == IF r.owner THEN CostCenters ELSE r.costCenters

ListLoad == [pc : {"idle", "unstamp", "reload", "query", "stamp"}, rights : Rights]

NoLoad == [pc |-> "idle", rights |-> NoRights]

AssetTypeOK ==
    /\ made \in BOOLEAN
    /\ context \in Rights
    /\ assets \subseteq CostCenters
    /\ assetsLoading \in BOOLEAN /\ error \in BOOLEAN
    /\ cachedList \in [Keys -> {NoList} \cup SUBSET CostCenters]
    /\ cachedTime \in [Keys -> {"fresh", "stale"}]
    /\ recent \subseteq Keys
    /\ loads \in [ListLoads -> ListLoad]

\* The app was never used on this device.
ProviderInit ==
    /\ made = FALSE
    /\ context = NoRights
    /\ assets = {} /\ assetsLoading = TRUE /\ error = FALSE
    /\ cachedList = [k \in Keys |-> NoList]
    /\ cachedTime = [k \in Keys |-> "stale"]
    /\ recent = {}
    /\ loads = [l \in ListLoads |-> NoLoad]

ListInit == SessionInit /\ ProviderInit

-----------------------------------------------------------------------------
Goto(l, pc, r) == loads' = [loads EXCEPT ![l] = [pc |-> pc, rights |-> r]]

\* The list shown is s; loading is over.  An error of another load stays: it is reset
\* when a load begins.
Show(s) == assets' = s /\ assetsLoading' = FALSE /\ UNCHANGED error

\* loadAssetsWithCacheLogic from the cache.
ServeFromCache(l) ==
    /\ loads[l].pc = "reload"
    /\ cachedList[Key(context)] # NoList /\ cachedTime[Key(context)] = "fresh"
    /\ Show(cachedList[Key(context)])
    /\ Goto(l, "idle", NoRights)
    /\ repaint' = TRUE
    /\ UNCHANGED <<sessionRest, made, context, cache>>

CacheMisses ==
    cachedList[Key(context)] = NoList \/ cachedTime[Key(context)] # "fresh"

\* fetchAssetsFromServer without cost centers: nothing is asked, nothing is cached.
SkipLoad(l) ==
    /\ loads[l].pc = "reload"
    /\ CacheMisses
    /\ Scope(context) = {} /\ ~context.owner
    /\ Show({})
    /\ Goto(l, "idle", NoRights)
    /\ repaint' = TRUE
    /\ UNCHANGED <<sessionRest, made, context, cache>>

\* fetchAssetsFromServer up to the answer; the error and the spinner are as the beginning
\* of the load, or another load since, left them.
Query(l) ==
    /\ loads[l].pc = "reload"
    /\ CacheMisses
    /\ Scope(context) # {} \/ context.owner
    /\ Goto(l, "query", context)
    /\ UNCHANGED <<sessionRest, repaint, made, context, listVars, cache>>

\* The answer: the list is shown, and stored under the key of the rights of now.
QueryReturns(l) ==
    /\ loads[l].pc = "query"
    /\ Show(Scope(loads[l].rights))
    /\ cachedList' = [cachedList EXCEPT ![Key(context)] = assets']
    /\ recent' = recent \cup {Key(context)}
    /\ Goto(l, "stamp", Key(context))
    /\ UNCHANGED <<sessionRest, repaint, made, context, cachedTime>>

\* Mutant of QueryReturnsUnstored: the failed write does not keep the time from being stored.
QueryReturnsStamped(l) ==
    /\ loads[l].pc = "query"
    /\ assets' = Scope(loads[l].rights) /\ assetsLoading' = FALSE /\ error' = TRUE
    /\ Goto(l, "stamp", Key(context))
    /\ repaint' = TRUE
    /\ UNCHANGED <<sessionRest, made, context, cache>>

\* The same, and the list cannot be stored: the catch takes it for a failed load.
QueryReturnsUnstored(l) ==
    /\ loads[l].pc = "query"
    /\ assets' = Scope(loads[l].rights) /\ assetsLoading' = FALSE /\ error' = TRUE
    /\ Goto(l, "idle", NoRights)
    /\ repaint' = TRUE
    /\ UNCHANGED <<sessionRest, made, context, cache>>

\* The time is stored after the list; the listeners learn of both.  It is the time of
\* the latest answer of any load: what is stored may be older, then Expire comes early.
StampCache(l) ==
    /\ loads[l].pc = "stamp"
    /\ cachedTime' = [cachedTime EXCEPT ![loads[l].rights] = "fresh"]
    /\ Goto(l, "idle", NoRights)
    /\ repaint' = TRUE
    /\ UNCHANGED <<sessionRest, made, context, listVars, cachedList, recent>>

\* The list is stored and the time is not: an error is shown beside the new list.
StampFails(l) ==
    /\ loads[l].pc = "stamp"
    /\ assetsLoading' = FALSE /\ error' = TRUE
    /\ Goto(l, "idle", NoRights)
    /\ repaint' = TRUE
    /\ UNCHANGED <<sessionRest, made, context, assets, cache>>

\* Mutant of QueryFails: only an answer ends the spinner.
QueryFailsSpinning(l) ==
    /\ loads[l].pc = "query"
    /\ error' = TRUE
    /\ Goto(l, "idle", NoRights)
    /\ repaint' = TRUE
    /\ UNCHANGED <<sessionRest, made, context, assets, assetsLoading, cache>>

\* No connection, a refusal, more cost centers than whereIn takes.
QueryFails(l) ==
    /\ loads[l].pc = "query"
    /\ assetsLoading' = FALSE /\ error' = TRUE
    /\ Goto(l, "idle", NoRights)
    /\ repaint' = TRUE
    /\ UNCHANGED <<sessionRest, made, context, assets, cache>>

-----------------------------------------------------------------------------
(* retry, from the refresh and the try-again buttons of the dashboard *)

Retry(l) ==
    /\ made /\ page = "tabs" /\ tab = 2
    /\ ~(assetsLoading /\ assets = {})
    /\ loads[l].pc = "idle"
    /\ cachedList' = [cachedList EXCEPT ![Key(context)] = NoList]
    /\ Goto(l, "unstamp", Key(context))
    /\ repaint' = TRUE
    /\ UNCHANGED <<sessionRest, made, context, listVars, cachedTime, recent>>

\* The time is removed, and the load begins.
Unstamp(l) ==
    /\ loads[l].pc = "unstamp"
    /\ cachedTime' = [cachedTime EXCEPT ![loads[l].rights] = "stale"]
    /\ assetsLoading' = TRUE /\ error' = FALSE
    /\ Goto(l, "reload", NoRights)
    /\ repaint' = TRUE
    /\ UNCHANGED <<sessionRest, made, context, assets, cachedList, recent>>

\* 30 days pass since the list of a key was answered.  Bound: not between the two writes
\* of one load.
Expire ==
    /\ \E k \in Keys :
         /\ cachedTime[k] = "fresh" \/ k \in recent
         /\ \A l \in ListLoads : loads[l].pc = "stamp" => loads[l].rights # k
         /\ cachedTime' = [cachedTime EXCEPT ![k] = "stale"]
         /\ recent' = recent \ {k}
    /\ UNCHANGED <<sessionVars, made, context, listVars, cachedList, loads>>

-----------------------------------------------------------------------------
\* The proxy provider passes the rights r on.  Making the provider starts a load.
GetRights(makes, r) ==
    /\ made' = (made \/ makes)
    /\ context' = r
    /\ \/ ~makes /\ UNCHANGED loads
       \/ makes /\ \E l \in ListLoads : loads[l].pc = "idle" /\ Goto(l, "reload", NoRights)
    /\ UNCHANGED <<listVars, cache>>

\* A frame: the rights are passed on if the session announced a change.  The first frame
\* with a user makes the provider.
Frame ==
    LET makes == ~made /\ user # NoUser IN
    /\ HomeBuild(assetsLoading /\ assets = {})
    /\ GetRights(makes, IF makes \/ (made /\ notified) THEN CurrentRights ELSE context)

\* What a restart leaves of the provider: its cache.
ProviderLost ==
    /\ made' = FALSE
    /\ context' = NoRights
    /\ assets' = {} /\ assetsLoading' = TRUE /\ error' = FALSE
    /\ loads' = [l \in ListLoads |-> NoLoad]
    /\ UNCHANGED cache

RestartOfAll == SessionRestart /\ ProviderLost

-----------------------------------------------------------------------------
ListLoadStep(l) ==
    \/ ServeFromCache(l) \/ SkipLoad(l) \/ Query(l)
    \/ QueryReturns(l) \/ QueryReturnsUnstored(l) \/ QueryFails(l)
    \/ StampCache(l) \/ StampFails(l) \/ Unstamp(l)

ListNext ==
    \/ SessionStep /\ UNCHANGED assetVars
    \/ Frame
    \/ \E l \in ListLoads : ListLoadStep(l) \/ Retry(l)
    \/ Expire
    \/ RestartOfAll

ListSpec == ListInit /\ [][ListNext]_allVars

\* Queries are answered or fail, frames are drawn; nobody has to touch anything.
FairListSpec ==
    /\ ListSpec
    /\ WF_allVars(LoadCachedUsers /\ UNCHANGED assetVars)
    /\ WF_allVars(AuthStateChanged /\ UNCHANGED assetVars)
    /\ \A f \in Fetches : WF_allVars(FetchStep(f) /\ UNCHANGED assetVars)
    /\ \A l \in ListLoads : WF_allVars(ListLoadStep(l))
    /\ WF_allVars(Frame)

-----------------------------------------------------------------------------
\* The provider's rights are the session's, as soon as what the session announced was
\* drawn: no change of user, table or loading state goes unannounced (main.dart:164).
ContextFollowsRights ==
    made /\ ~notified /\ (\A f \in Fetches : fetches[f] # "saving")
        => context = CurrentRights

\* The list's spinner runs only while a load runs that will end it, whatever loads
\* overlap and fail.
SpinnerHasLoad ==
    made /\ assetsLoading => \E l \in ListLoads : loads[l].pc \in {"reload", "query"}

\* The list's spinner ends.
SpinnerEnds == assetsLoading /\ made ~> ~assetsLoading \/ ~made

ListInv == AssetTypeOK /\ SpinnerHasLoad

\* A list that the cache would serve is one the server answered within 30 days
\* (asset_provider.dart:36), whatever restart or failed write comes between a list and
\* its time, in a load or in a retry, and whatever loads overlap.
FreshIsRecent ==
    \A k \in Keys : cachedList[k] # NoList /\ cachedTime[k] = "fresh" => k \in recent

-----------------------------------------------------------------------------
(* Claims of the sources that the code does not keep. *)

\* asset_provider.dart:170: the cache is separated by rights, so that data do not mix.
\* What the cache would serve for some rights is the list of these rights.
CacheServesOwnRights ==
    \A k \in Keys : cachedList[k] # NoList /\ cachedTime[k] = "fresh"
                        => cachedList[k] = Scope(k)

\* module_map.md:30 and 55: the list is the one of the user's role and cost centers.
\* A user with rights comes to see assets, unless loading them fails.
AuthorizedSeesAssets ==
    (Authorized /\ Scope(CurrentRights) # {}) ~>
        (assets # {} \/ error \/ ~Authorized \/ Scope(CurrentRights) = {})
=============================================================================
