---------------------------- MODULE AuditTracking ----------------------------
(***************************************************************************)
(* Which assets count as audited, and what is done with it: the audited    *)
(* set of lib/providers/asset_provider (one load per year change, refresh  *)
(* and start, none of them awaited by the others), the bulk accept of      *)
(* lib/screens/dashboard_screen, and the audit of one asset in             *)
(* lib/providers/audit_provider.                                           *)
(*                                                                         *)
(* An audit log is a pair of an asset and a year.  The list of assets does *)
(* not change here (see AssetList).  A step is the code between two awaits.*)
(***************************************************************************)
EXTENDS Integers, FiniteSets

CONSTANTS
    Assets, Years,
    ThisYear,    \* DateTime.now().year: the year an audit is logged under
    UserTracks,  \* bound: loads of the audited set, started by taps, that may overlap
    BulkTrack,   \* the load at the end of a bulk accept
    ChunkSize    \* dashboard_screen.dart: 500

ASSUME TrackingAssumption ==
    /\ IsFiniteSet(Assets)
    /\ ThisYear \in Years
    /\ BulkTrack \notin UserTracks
    /\ ChunkSize \in Nat \ {0}

VARIABLES
    logs,          \* the server's audit_logs
    auditYear, audited, logsLoading,
    tracks,        \* _loadAuditedAssetNos, or a retry on its way to it
    bulk           \* _handleBulkAccept

tracking == <<auditYear, audited, logsLoading, tracks>>
trackingVars == <<logs, tracking, bulk>>

Pairs == Assets \X Years
Tracks == UserTracks \cup {BulkTrack}

AuditedIn(y, L) == {a \in Assets : <<a, y>> \in L}

\* A load's year is the one it asks for; answer is what the server found.
TrackState == [pc : {"idle", "reloading", "asked", "answered"}, year : Years,
               answer : SUBSET Assets]

IdleTrack == [pc |-> "idle", year |-> ThisYear, answer |-> {}]

\* alive: the dashboard that started the run is still there.  year is the year the user
\* confirmed; need and failed are what the run set out to accept and what it counts as
\* failed.
BulkState ==
    [pc : {"idle", "dialog", "commit", "refresh"}, alive : BOOLEAN,
     todo : SUBSET Assets, chunk : SUBSET Assets, chunkYear : Years,
     year : Years, need : SUBSET Assets, failed : SUBSET Assets]

NoBulk == [pc |-> "idle", alive |-> TRUE, todo |-> {}, chunk |-> {}, chunkYear |-> ThisYear,
           year |-> ThisYear, need |-> {}, failed |-> {}]

TrackingTypeOK ==
    /\ logs \subseteq Pairs
    /\ auditYear \in Years /\ audited \subseteq Assets /\ logsLoading \in BOOLEAN
    /\ tracks \in [Tracks -> TrackState]
    /\ bulk \in BulkState
    /\ bulk.chunk \cap bulk.todo = {}

\* The provider is there and its first load of the assets is under way.
TrackingInit ==
    /\ logs \in SUBSET Pairs
    /\ auditYear = ThisYear /\ audited = {} /\ logsLoading = TRUE
    /\ \E t \in UserTracks :
         tracks = [u \in Tracks |-> IF u = t THEN [IdleTrack EXCEPT !.pc = "reloading"]
                                             ELSE IdleTrack]
    /\ bulk = NoBulk

-----------------------------------------------------------------------------
(* The audited set *)

Ask(t, y) == tracks' = [tracks EXCEPT ![t] = [IdleTrack EXCEPT !.pc = "asked", !.year = y]]

\* setAuditYear, from the dashboard's menu: the set stays the old year's until the answer.
SetAuditYear(t, y) ==
    /\ bulk.pc # "dialog"
    /\ y # auditYear
    /\ tracks[t].pc = "idle"
    /\ auditYear' = y
    /\ logsLoading' = TRUE
    /\ Ask(t, y)
    /\ UNCHANGED <<logs, audited, bulk>>

\* retry up to its first await.  That the preferences fail between here and TrackAsks is
\* left out: retry would end there, with the loading mark set.
BeginRetry(t) ==
    /\ audited' = {} /\ logsLoading' = TRUE
    /\ tracks' = [tracks EXCEPT ![t] = [IdleTrack EXCEPT !.pc = "reloading"]]
    /\ UNCHANGED auditYear

\* The refresh button.
RefreshTap(t) ==
    /\ bulk.pc # "dialog"
    /\ tracks[t].pc = "idle"
    /\ BeginRetry(t)
    /\ UNCHANGED <<logs, bulk>>

\* The assets are loaded, well or not; the query takes the year of now.
TrackAsks(t) ==
    /\ tracks[t].pc = "reloading"
    /\ logsLoading' = TRUE
    /\ Ask(t, auditYear)
    /\ UNCHANGED <<logs, auditYear, audited, bulk>>

\* The server evaluates the query.
TrackAnswered(t) ==
    /\ tracks[t].pc = "asked"
    /\ tracks' = [tracks EXCEPT ![t].pc = "answered",
                                ![t].answer = AuditedIn(tracks[t].year, logs)]
    /\ UNCHANGED <<logs, auditYear, audited, logsLoading, bulk>>

\* The audited set is set; a run that waited for it is over.
Settle(t, S) ==
    /\ audited' = S
    /\ logsLoading' = FALSE
    /\ tracks' = [tracks EXCEPT ![t] = IdleTrack]
    /\ bulk' = (IF t = BulkTrack THEN NoBulk ELSE bulk)
    /\ UNCHANGED <<logs, auditYear>>

\* Mutant of TrackReturns: the set of before is added to.
TrackReturnsMore(t) ==
    tracks[t].pc = "answered" /\ Settle(t, audited \cup tracks[t].answer)

\* Whatever year it is about, the answer becomes the set.
TrackReturns(t) == tracks[t].pc = "answered" /\ Settle(t, tracks[t].answer)

\* Mutant of TrackFails: the loading mark stays.
TrackFailsLoading(t) ==
    /\ tracks[t].pc = "asked"
    /\ tracks' = [tracks EXCEPT ![t] = IdleTrack]
    /\ bulk' = (IF t = BulkTrack THEN NoBulk ELSE bulk)
    /\ UNCHANGED <<logs, auditYear, audited, logsLoading>>

\* A query that failed counts as nothing audited.
TrackFails(t) == tracks[t].pc = "asked" /\ Settle(t, {})

-----------------------------------------------------------------------------
(* _handleBulkAccept *)

\* The button, with what is left to audit; the dialog names the year.
BulkTap ==
    /\ bulk.pc = "idle"
    /\ Assets \ audited # {}
    /\ bulk' = [NoBulk EXCEPT !.pc = "dialog", !.year = auditYear]
    /\ UNCHANGED <<logs, tracking>>

BulkCancel ==
    /\ bulk.pc = "dialog"
    /\ bulk' = NoBulk
    /\ UNCHANGED <<logs, tracking>>

\* Mutant of Proceed: only full batches are sent.
ProceedFull(b) ==
    \/ /\ \E c \in SUBSET b.todo :
            /\ Cardinality(c) = ChunkSize
            /\ bulk' = [b EXCEPT !.pc = "commit", !.chunk = c, !.todo = @ \ c,
                                 !.chunkYear = auditYear]
       /\ UNCHANGED tracking
    \/ /\ Cardinality(b.todo) < ChunkSize
       /\ bulk' = [b EXCEPT !.pc = "refresh", !.chunk = {}]
       /\ BeginRetry(BulkTrack)

\* The head of the loop in a run b: a batch is built, every log with the year of now;
\* when nothing is left, a refresh.
Proceed(b) ==
    \/ /\ b.todo # {}
       /\ \E c \in SUBSET b.todo :
            /\ c # {}
            /\ Cardinality(c) = ChunkSize \/ (c = b.todo /\ Cardinality(c) < ChunkSize)
            /\ bulk' = [b EXCEPT !.pc = "commit", !.chunk = c, !.todo = @ \ c,
                                 !.chunkYear = auditYear]
       /\ UNCHANGED tracking
    \/ /\ b.todo = {}
       /\ bulk' = [b EXCEPT !.pc = "refresh", !.chunk = {}]
       /\ BeginRetry(BulkTrack)

\* What is left is worked out again, from the audited set of now.
BulkConfirm ==
    /\ bulk.pc = "dialog"
    /\ Proceed([bulk EXCEPT !.todo = Assets \ audited, !.need = Assets \ audited])
    /\ UNCHANGED logs

\* The answer to a batch is counted and shown: on a dashboard that is gone setState
\* throws, and the run is over.
AfterCommit(failed) ==
    \/ bulk.alive /\ Proceed([bulk EXCEPT !.failed = @ \cup failed])
    \/ ~bulk.alive /\ bulk' = NoBulk /\ UNCHANGED tracking

WriteChunk == logs' = logs \cup {<<a, bulk.chunkYear>> : a \in bulk.chunk}

ChunkCommits ==
    /\ bulk.pc = "commit"
    /\ WriteChunk
    /\ AfterCommit({})

\* Refused as a whole, or written with its answer lost: both count as failed.
ChunkFails ==
    /\ bulk.pc = "commit"
    /\ WriteChunk \/ UNCHANGED logs
    /\ AfterCommit(bulk.chunk)

\* The user leaves the dashboard (a sign-out, the way back): a run goes on without it.
\* Bound: no run is started while an abandoned one goes on.
LeaveDashboard ==
    /\ bulk.pc # "dialog"
    /\ bulk' = [bulk EXCEPT !.alive = (bulk.pc = "idle")]
    /\ UNCHANGED <<logs, tracking>>

-----------------------------------------------------------------------------
\* The transaction of submitAudit, of this device or of another one: nothing but the
\* server is told.  Its earlier steps, and the failing of any, leave no log.
SubmitAudit(a) ==
    /\ logs' = logs \cup {<<a, ThisYear>>}
    /\ UNCHANGED <<tracking, bulk>>

TrackStep(t) == TrackAsks(t) \/ TrackAnswered(t) \/ TrackReturns(t) \/ TrackFails(t)

BulkStep == ChunkCommits \/ ChunkFails

Stay ==
    \/ \E t \in Tracks : TrackStep(t)
    \/ \E t \in UserTracks : RefreshTap(t) \/ \E y \in Years : SetAuditYear(t, y)
    \/ BulkTap \/ BulkCancel \/ BulkConfirm \/ BulkStep
    \/ \E a \in Assets : SubmitAudit(a)

TrackingNext == Stay \/ LeaveDashboard

TrackingSpec == TrackingInit /\ [][TrackingNext]_trackingVars

\* Requests are answered or fail; nobody has to tap anything.
TrackingFairness ==
    (\A t \in Tracks : WF_trackingVars(TrackStep(t))) /\ WF_trackingVars(BulkStep)

FairTrackingSpec == TrackingSpec /\ TrackingFairness

-----------------------------------------------------------------------------
\* However loads, year changes, refreshes and audits overlap, the assets shown as audited
\* all have a log of one year: the set is never a mixture of years.
AuditedOfOneYear == \E y \in Years : audited \subseteq AuditedIn(y, logs)

\* When a run has sent all its batches, every asset it set out to accept has a log, or
\* was counted as failed, whatever batches failed and whatever else was written.
AllAccountedFor ==
    bulk.pc = "refresh" =>
        \A a \in bulk.need : a \in bulk.failed \/ \E y \in Years : <<a, y>> \in logs

\* A run comes to an end, and the button is there again, whatever fails.
BulkEnds == bulk.pc = "commit" ~> bulk.pc = "idle"

\* The mark that the audited set is being loaded goes away.
TrackingEnds == logsLoading ~> ~logsLoading

\* No run and no load hangs (dashboard_screen.dart, audit_provider.dart).
LoadsEnd == BulkEnds /\ TrackingEnds

-----------------------------------------------------------------------------
(* Claims of the sources that the code does not keep. *)

\* dashboard_screen.dart:435: what the user confirms is the acceptance of the assets that
\* are left, none that has a log of that year.
OnlyTheRestAccepted ==
    [][BulkConfirm => bulk'.need \cap AuditedIn(auditYear, logs) = {}]_trackingVars

\* dashboard_screen.dart:435: the user confirms the acceptance for one year.
AcceptedForTheConfirmedYear == bulk.pc = "commit" => bulk.chunkYear = bulk.year

\* dashboard_screen.dart:517: the spinner is closed after the new data are there.  A run
\* of which no batch failed, its year unchanged, ends with what it accepted shown.
DoneMeansShown ==
    [][bulk.pc = "refresh" /\ bulk'.pc = "idle" /\ bulk.failed = {}
       /\ bulk.year = auditYear /\ bulk.need \subseteq AuditedIn(auditYear, logs)
       => bulk.need \subseteq audited']_trackingVars

\* module_map.md:90: after a submitted audit the asset is marked as audited at once.
AuditShownAtOnce ==
    [][\A a \in Assets : SubmitAudit(a) /\ logs' # logs /\ auditYear = ThisYear
                         => a \in audited']_trackingVars
=============================================================================
