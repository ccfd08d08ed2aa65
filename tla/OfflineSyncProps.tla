-------------------------- MODULE OfflineSyncProps --------------------------
(***************************************************************************)
(* What the offline queue promises, and what it does not keep.             *)
(***************************************************************************)
EXTENDS OfflineSync

\* A saved audit is never lost: it waits in the box or its log is on the server,
\* whatever overlaps, fails or crashes ("ลบออกจาก Hive หลังจากส่งสำเร็จ").
NoAuditLost == \A a \in saved : a \in box \/ logs[a] > 0

\* The queue is an at-least-once outbox: see AuditOutbox.
Outbox == INSTANCE AuditOutbox WITH accepted <- saved, held <- box, delivered <- logs
ImplementsOutbox == Outbox!Spec

\* If runs do not overlap, every log beyond the first of an audit is paid for by
\* a lost reply, a failed delete or a crash between commit and delete.
DuplicatesPaidFor == \A a \in Audits : logs[a] <= 1 + charged[a]

\* If runs do not overlap, the number of audits shown as synced never goes back.
SyncedGrows == status'.synced >= status.synced
SyncedNeverDecreases == [][SyncedGrows]_vars

\* If runs do not overlap, every failure shown between two runs has an id that a retry
\* can take up: no restart, failed write or save in the middle of a run forgets one.
FailuresKept ==
    (\A t \in Tasks : ~Running(t)) => status.failed <= Cardinality(status.failedIds)

\* Every activity that is started comes to an end, and the listener's guard with it.
ActivitiesEnd ==
    \A t \in Tasks : (task[t].pc # "idle") ~> /\ task[t].pc = "idle"
                                              /\ t = Listener => ~isSyncing

\* While the network keeps coming back, an audit in the box is sent, or it is listed
\* as failed: the listener's syncs pass over nothing.
EventuallyTried ==
    \A a \in Audits : (a \in box) ~> (logs[a] > 0 \/ a \in status.failedIds)

-----------------------------------------------------------------------------
(* Claims of the sources that the code does not keep. *)

\* main.dart:32: the guard prevents a duplicate sync.
NoDuplicateSync ==
    \A t, u \in Tasks : t # u /\ task[t].pc = "sent" /\ task[u].pc = "sent"
                        => task[t].audit # task[u].audit

\* offline_sync_service.dart:21: the status is updated with the number of audits that
\* wait for a sync (no run under way, nothing failed so far).
RemainingIsWaiting ==
    status.stored /\ status.failedIds = {} /\ (\A t \in Tasks : task[t].pc = "idle")
        => status.remaining = Cardinality(box)

\* sync_status.dart: isCompleted is shown as "the sync has completed" and the summary
\* says nothing is left; between two runs that means nothing waits for the next one.
CompletedMeansNothingWaits ==
    status.isCompleted /\ (\A t \in Tasks : task[t].pc = "idle") => PendingItems = {}

\* sync_progress_widget.dart: what failed can be tried again; with a network that
\* keeps coming back every audit whose asset exists is delivered.
EventuallyDelivered == \A a \in Uploadable : (a \in box) ~> (logs[a] > 0)
=============================================================================
