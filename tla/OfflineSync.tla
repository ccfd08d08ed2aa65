----------------------------- MODULE OfflineSync -----------------------------
(***************************************************************************)
(* The offline queue of the Flutter app: lib/services/offline_sync_service *)
(* and the connectivity listener of lib/main.dart.  Audits wait in the     *)
(* Hive box pending_audits, their progress is kept in the Hive box         *)
(* sync_status, and any number of activities (the listener's sync, syncs   *)
(* started by a save, retries) work on the two boxes at once: Dart has one *)
(* thread, so a step below is the code between two awaits.                 *)
(*                                                                         *)
(* A Hive box answers from memory.  get returns the object that was put,   *)
(* not a copy, so the failedIds list a running sync has put into the       *)
(* status box is the list it goes on adding to; the disk holds the list as *)
(* it was when it was written.                                             *)
(***************************************************************************)
EXTENDS Integers, FiniteSets

CONSTANTS
    Audits,       \* the audits that may be saved, each once and with its own id
    Uploadable,   \* those whose asset document exists, so the transaction can commit
    Callers,      \* activities that save an audit or retry the failed ones
    Listener,     \* the activity of the connectivity listener
    NoAudit, NoTask,
    BatchSize,    \* offline_sync_service.dart: 500
    StatusEvery,  \* status is written every StatusEvery audits: 10
    Faults,       \* kinds of fault that may happen
    MaxFaults     \* bound: how many faults happen in a behaviour

Tasks == Callers \cup {Listener}

FaultKinds == {"crash", "replyLost", "deleteFails", "putFails"}

ASSUME ConstantsAssumption ==
    /\ IsFiniteSet(Audits)
    /\ Uploadable \subseteq Audits
    /\ Listener \notin Callers
    /\ NoAudit \notin Audits
    /\ NoTask \notin Tasks
    /\ BatchSize \in Nat \ {0}
    /\ StatusEvery \in Nat \ {0}
    /\ Faults \subseteq FaultKinds
    /\ MaxFaults \in Nat

VARIABLES
    box,         \* Hive box pending_audits: the audits waiting on the device
    status,      \* Hive box sync_status as get returns it (see the head comment)
    diskFailed,  \* failedIds of the status as it is on the disk
    owner,       \* the sync whose own failedIds list the status box holds
    src,         \* src[t]: the sync whose list the retry t is iterating over
    torn,        \* retries whose list grew under the iteration
    task,        \* what each activity is doing
    isSyncing,   \* main.dart: the listener's guard
    online,      \* the device has a connection
    logs,        \* number of audit_logs documents on the server, per audit
    saved,       \* audits whose save put them in the box (history)
    charged,     \* faults that hit an audit whose log was already written (history)
    budget       \* faults that may still happen

store   == <<box, status, diskFailed>>
aliases == <<owner, src, torn>>
history == <<saved, charged>>
vars    == <<store, aliases, task, isSyncing, online, logs, history, budget>>

-----------------------------------------------------------------------------
SyncStatus ==
    [stored : BOOLEAN, total : Nat, synced : Nat, failed : Nat,
     remaining : Int, isCompleted : BOOLEAN, failedIds : SUBSET Audits]

\* The status every reader falls back to while the box has none (stored = FALSE).
DefaultStatus ==
    [stored |-> FALSE, total |-> 0, synced |-> 0, failed |-> 0,
     remaining |-> 0, isCompleted |-> FALSE, failedIds |-> {}]

Phase == {"idle",
          "count", "check",                            \* saveAuditOffline
          "open", "send", "sent", "report", "pause", "finish",  \* syncPendingAudits
          "next", "resend", "resent", "rewrite"}       \* retryFailed

TaskState ==
    [pc : Phase, audit : Audits \cup {NoAudit}, todo : SUBSET Audits, inBatch : Nat,
     total : Nat, remaining : Int, synced : Nat, failed : Nat, failedIds : SUBSET Audits]

Idle == [pc |-> "idle", audit |-> NoAudit, todo |-> {}, inBatch |-> 0,
         total |-> 0, remaining |-> 0, synced |-> 0, failed |-> 0, failedIds |-> {}]

TypeOK ==
    /\ box \subseteq Audits
    /\ status \in SyncStatus
    /\ diskFailed \subseteq Audits
    /\ owner \in Tasks \cup {NoTask}
    /\ src \in [Tasks -> Tasks \cup {NoTask}]
    /\ torn \subseteq Tasks
    /\ task \in [Tasks -> TaskState]
    /\ isSyncing \in BOOLEAN
    /\ online \in BOOLEAN
    /\ logs \in [Audits -> Nat]
    /\ saved \subseteq Audits
    /\ charged \in [Audits -> Nat]
    /\ budget \in 0..MaxFaults

Init ==
    /\ box = {}
    /\ status = DefaultStatus
    /\ diskFailed = {}
    /\ owner = NoTask
    /\ src = [t \in Tasks |-> NoTask]
    /\ torn = {}
    /\ task = [t \in Tasks |-> Idle]
    /\ isSyncing = FALSE
    /\ online \in BOOLEAN
    /\ logs = [a \in Audits |-> 0]
    /\ saved = {}
    /\ charged = [a \in Audits |-> 0]
    /\ budget = MaxFaults

-----------------------------------------------------------------------------
\* _getPendingItems: what is in the box and is not listed as failed.
PendingItems == box \ status.failedIds

Fault(kind) ==
    /\ kind \in Faults
    /\ budget > 0
    /\ budget' = budget - 1

Charge(a) == charged' = [charged EXCEPT ![a] = @ + 1]

\* statusBox.put of a list nobody goes on changing, or of t's own (new owner t).
Put(s, newOwner) ==
    /\ status' = [s EXCEPT !.stored = TRUE]
    /\ diskFailed' = s.failedIds
    /\ owner' = newOwner

\* Mutant of End: the guard is cleared on no path.
EndLeavesGuard(t) ==
    /\ task' = [task EXCEPT ![t] = Idle]
    /\ src' = [u \in Tasks |-> IF u = t \/ src[u] = t THEN NoTask ELSE src[u]]
    /\ UNCHANGED isSyncing

\* Activity t ends, normally or by an exception: its list changes no more, and
\* the finally of the listener's callback clears the guard.
End(t) ==
    /\ task' = [task EXCEPT ![t] = Idle]
    /\ src' = [u \in Tasks |-> IF u = t \/ src[u] = t THEN NoTask ELSE src[u]]
    /\ isSyncing' = (IF t = Listener THEN FALSE ELSE isSyncing)

\* The retries iterating over t's list when t adds to it.
Readers(t) == {u \in Tasks : src[u] = t}

-----------------------------------------------------------------------------
(* saveAuditOffline *)

\* box.add
SaveAuditOffline(t, a) ==
    /\ t \in Callers
    /\ task[t].pc = "idle"
    /\ a \notin saved
    /\ box' = box \cup {a}
    /\ saved' = saved \cup {a}
    /\ task' = [task EXCEPT ![t].pc = "count"]
    /\ UNCHANGED <<status, diskFailed, aliases, isSyncing, online, logs, charged, budget>>

\* Mutant of UpdatePendingCount: total counts what is left rather than what there is.
CountLeavesOutSynced(t) ==
    /\ task[t].pc = "count"
    /\ Put([status EXCEPT !.total = Cardinality(box) - status.synced,
                          !.remaining = Cardinality(box) - status.synced - status.failed,
                          !.isCompleted = (box = {})],
           owner)
    /\ task' = [task EXCEPT ![t].pc = "check"]
    /\ UNCHANGED <<box, src, torn, isSyncing, online, logs, history, budget>>

UpdatePendingCount(t) ==
    /\ task[t].pc = "count"
    /\ Put([status EXCEPT !.total = Cardinality(box),
                          !.remaining = Cardinality(box) - status.synced - status.failed,
                          !.isCompleted = (box = {})],
           owner)
    /\ task' = [task EXCEPT ![t].pc = "check"]
    /\ UNCHANGED <<box, src, torn, isSyncing, online, logs, history, budget>>

\* Nothing guards this sync: neither isSyncing nor another caller's run.
TrySyncIfOnline(t) ==
    /\ task[t].pc = "check"
    /\ \/ /\ online
          /\ task' = [task EXCEPT ![t].pc = "open"]
          /\ UNCHANGED <<aliases, isSyncing>>
       \/ /\ ~online
          /\ End(t)
          /\ UNCHANGED <<owner, torn>>
    /\ UNCHANGED <<store, online, logs, history, budget>>

\* onConnectivityChanged: every change is reported, Wi-Fi to mobile too.
ConnectivityChanged ==
    /\ online' \in BOOLEAN
    /\ \/ /\ online' /\ ~isSyncing
          /\ isSyncing' = TRUE
          /\ task' = [task EXCEPT ![Listener].pc = "open"]
       \/ /\ ~online' \/ isSyncing
          /\ UNCHANGED <<isSyncing, task>>
    /\ UNCHANGED <<store, aliases, logs, history, budget>>

-----------------------------------------------------------------------------
(* syncPendingAudits *)

\* Empty box: the caller gets a completed status, the status box is not written.
SyncNothing(t) ==
    /\ task[t].pc = "open"
    /\ box = {}
    /\ End(t)
    /\ UNCHANGED <<store, owner, torn, online, logs, history, budget>>

\* Everything that is left has failed before.
SyncOnlyFailed(t) ==
    /\ task[t].pc = "open"
    /\ box # {} /\ PendingItems = {}
    /\ Put([status EXCEPT !.isCompleted = TRUE, !.remaining = 0], owner)
    /\ End(t)
    /\ UNCHANGED <<box, torn, online, logs, history, budget>>

\* Mutants of SyncBegins: the count of synced audits starts again, the list of
\* failed ids does, or a completed status is taken for nothing to do.
SyncBeginsAtZero(t) ==
    /\ task[t].pc = "open"
    /\ PendingItems # {}
    /\ task' = [task EXCEPT ![t] =
         [Idle EXCEPT !.pc = "send", !.todo = PendingItems, !.total = Cardinality(box),
                      !.failed = status.failed, !.failedIds = status.failedIds]]
    /\ UNCHANGED <<store, aliases, isSyncing, online, logs, history, budget>>

SyncBeginsWithNoIds(t) ==
    /\ task[t].pc = "open"
    /\ PendingItems # {}
    /\ task' = [task EXCEPT ![t] =
         [Idle EXCEPT !.pc = "send", !.todo = PendingItems, !.total = Cardinality(box),
                      !.synced = status.synced, !.failed = status.failed]]
    /\ UNCHANGED <<store, aliases, isSyncing, online, logs, history, budget>>

SyncBeginsUnlessCompleted(t) ==
    /\ task[t].pc = "open"
    /\ PendingItems # {} /\ ~status.isCompleted
    /\ task' = [task EXCEPT ![t] =
         [Idle EXCEPT !.pc = "send", !.todo = PendingItems, !.total = Cardinality(box),
                      !.synced = status.synced, !.failed = status.failed,
                      !.failedIds = status.failedIds]]
    /\ UNCHANGED <<store, aliases, isSyncing, online, logs, history, budget>>

SyncBegins(t) ==
    /\ task[t].pc = "open"
    /\ PendingItems # {}
    /\ task' = [task EXCEPT ![t] =
         [Idle EXCEPT !.pc = "send",
                      !.todo = PendingItems,
                      !.total = IF status.stored THEN status.total ELSE Cardinality(box),
                      !.synced = status.synced,
                      !.failed = status.failed,
                      !.failedIds = status.failedIds]]
    /\ UNCHANGED <<store, aliases, isSyncing, online, logs, history, budget>>

\* The entry of this iteration is done with: next entry, next batch or the end.
Advance(r) ==
    [r EXCEPT !.audit = NoAudit,
              !.inBatch = @ + 1,
              !.pc = IF r.todo = {} THEN "finish"
                     ELSE IF r.inBatch + 1 = BatchSize THEN "pause" ELSE "send"]

\* The status a running sync writes: total is the one it read when it began.
ProgressStatus(r) ==
    LET left == r.total - r.synced - r.failed IN
    [status EXCEPT !.total = r.total, !.synced = r.synced, !.failed = r.failed,
                   !.remaining = IF left > 0 THEN left ELSE 0,
                   !.isCompleted = left <= 0 /\ r.failedIds = {},
                   !.failedIds = r.failedIds]

StatusDue(r) == r.synced % StatusEvery = 0 \/ r.synced = r.total

\* What get returns once r has added to the list the status box may share.
Shared(t, r) == IF owner = t THEN [status EXCEPT !.failedIds = r.failedIds] ELSE status

\* The end of an iteration of the loop, its entry accounted for in r.
RecordEntry(t, r) ==
    /\ \/ StatusDue(r) /\ Put(ProgressStatus(r), t)
       \/ ~StatusDue(r) /\ status' = Shared(t, r) /\ UNCHANGED <<diskFailed, owner>>
    /\ task' = [task EXCEPT ![t] = Advance(r)]
    /\ UNCHANGED <<src, isSyncing>>

WithFailed(r, a) ==
    [r EXCEPT !.todo = @ \ {a}, !.failed = @ + 1, !.failedIds = @ \cup {a}]

\* Mutants of EntryFailed: the entry is deleted on every path, or it is written back.
EntryFailedDeletes(t, a, r) ==
    /\ RecordEntry(t, WithFailed(r, a))
    /\ torn' = torn \cup Readers(t)
    /\ box' = box \ {a}
    /\ UNCHANGED <<online, logs, saved>>

EntryFailedWritesBack(t, a, r) ==
    /\ RecordEntry(t, WithFailed(r, a))
    /\ torn' = torn \cup Readers(t)
    /\ box' = box \cup {a}
    /\ UNCHANGED <<online, logs, saved>>

\* catch: the entry counts as failed, whatever part of it was done.
EntryFailed(t, a, r) ==
    /\ RecordEntry(t, WithFailed(r, a))
    /\ torn' = torn \cup Readers(t)
    /\ UNCHANGED <<box, online, logs, saved>>

\* _uploadAuditToFirebase: the transaction commits on the server.
UploadCommits(t, a) ==
    /\ task[t].pc = "send" /\ a \in task[t].todo
    /\ online /\ a \in Uploadable
    /\ logs' = [logs EXCEPT ![a] = @ + 1]
    /\ task' = [task EXCEPT ![t].pc = "sent", ![t].audit = a, ![t].todo = @ \ {a}]
    /\ UNCHANGED <<store, aliases, isSyncing, online, history, budget>>

\* No connection, an asset that does not exist, or any other refusal.
UploadFails(t, a) ==
    /\ task[t].pc = "send" /\ a \in task[t].todo
    /\ EntryFailed(t, a, task[t])
    /\ UNCHANGED <<charged, budget>>

\* Mutant of UploadConfirmed: the entry stays in the box.
UploadConfirmedKeeps(t) ==
    /\ task[t].pc = "sent"
    /\ task' = [task EXCEPT ![t].pc = "report", ![t].synced = @ + 1]
    /\ UNCHANGED <<store, aliases, isSyncing, online, logs, history, budget>>

\* It committed, and the app is told; box.delete(key).
UploadConfirmed(t) ==
    /\ task[t].pc = "sent"
    /\ box' = box \ {task[t].audit}
    /\ task' = [task EXCEPT ![t].pc = "report", ![t].synced = @ + 1]
    /\ UNCHANGED <<status, diskFailed, aliases, isSyncing, online, logs, history, budget>>

Report(t) ==
    /\ task[t].pc = "report"
    /\ RecordEntry(t, task[t])
    /\ UNCHANGED <<box, torn, online, logs, history, budget>>

EndOfPause(t) ==
    /\ task[t].pc = "pause"
    /\ task' = [task EXCEPT ![t].pc = "send", ![t].inBatch = 0]
    /\ UNCHANGED <<store, aliases, isSyncing, online, logs, history, budget>>

\* Completed, nothing remaining: whatever failed and whatever was saved meanwhile.
SyncFinishes(t) ==
    /\ task[t].pc = "finish"
    /\ Put([status EXCEPT !.total = task[t].total, !.synced = task[t].synced,
                          !.failed = task[t].failed, !.failedIds = task[t].failedIds,
                          !.remaining = 0, !.isCompleted = TRUE],
           NoTask)
    /\ End(t)
    /\ UNCHANGED <<box, torn, online, logs, history, budget>>

-----------------------------------------------------------------------------
(* retryFailed *)

RetryFailed(t) ==
    /\ t \in Callers
    /\ task[t].pc = "idle"
    /\ status.failedIds # {}
    /\ task' = [task EXCEPT ![t] =
         [Idle EXCEPT !.pc = "next", !.todo = status.failedIds,
                      !.total = status.total, !.remaining = status.remaining,
                      !.synced = status.synced]]
    /\ src' = [src EXCEPT ![t] = owner]
    /\ UNCHANGED <<store, owner, torn, isSyncing, online, logs, history, budget>>

\* The iterator finds its list longer: ConcurrentModificationError, uncaught.
RetryBroken(t) ==
    /\ task[t].pc = "next"
    /\ t \in torn
    /\ End(t)
    /\ torn' = torn \ {t}
    /\ UNCHANGED <<store, owner, online, logs, history, budget>>

\* An id whose audit is no longer in the box is passed over, and forgotten.
RetryNext(t) ==
    /\ task[t].pc = "next"
    /\ t \notin torn
    /\ \/ /\ task[t].todo = {}
          /\ task' = [task EXCEPT ![t].pc = "rewrite"]
       \/ \E a \in task[t].todo :
            task' = [task EXCEPT ![t].todo = @ \ {a},
                                 ![t].pc = IF a \in box THEN "resend" ELSE "next",
                                 ![t].audit = IF a \in box THEN a ELSE NoAudit]
    /\ UNCHANGED <<store, aliases, isSyncing, online, logs, history, budget>>

RetryCommits(t) ==
    LET a == task[t].audit IN
    /\ task[t].pc = "resend"
    /\ online /\ a \in Uploadable
    /\ logs' = [logs EXCEPT ![a] = @ + 1]
    /\ task' = [task EXCEPT ![t].pc = "resent"]
    /\ UNCHANGED <<store, aliases, isSyncing, online, history, budget>>

RetryConfirmed(t) ==
    /\ task[t].pc = "resent"
    /\ box' = box \ {task[t].audit}
    /\ task' = [task EXCEPT ![t].pc = "next", ![t].synced = @ + 1, ![t].audit = NoAudit]
    /\ UNCHANGED <<status, diskFailed, aliases, isSyncing, online, logs, history, budget>>

\* catch: the id stays among the failed ones.
StillFailed(t) ==
    /\ task' = [task EXCEPT ![t].pc = "next", ![t].failed = @ + 1, ![t].audit = NoAudit,
                            ![t].failedIds = @ \cup {task[t].audit}]
    /\ UNCHANGED <<store, aliases, isSyncing, online, logs, saved>>

RetryFails(t) ==
    /\ task[t].pc = "resend"
    /\ StillFailed(t)
    /\ UNCHANGED <<charged, budget>>

RetryRewrites(t) ==
    /\ task[t].pc = "rewrite"
    /\ Put([status EXCEPT !.total = task[t].total, !.remaining = task[t].remaining,
                          !.synced = task[t].synced, !.failed = task[t].failed,
                          !.failedIds = task[t].failedIds,
                          !.isCompleted = (task[t].failed = 0)],
           NoTask)
    /\ End(t)
    /\ UNCHANGED <<box, torn, online, logs, history, budget>>

-----------------------------------------------------------------------------
(* Faults *)

\* The transaction committed and the caller sees an exception (a timeout, say).
ReplyLost(t) ==
    /\ \/ task[t].pc = "sent" /\ EntryFailed(t, task[t].audit, task[t])
       \/ task[t].pc = "resent" /\ StillFailed(t)
    /\ Fault("replyLost")
    /\ Charge(task[t].audit)

\* box.delete throws: the entry was counted as synced, and is failed too.
DeleteFails(t) ==
    /\ \/ /\ task[t].pc = "sent"
          /\ EntryFailed(t, task[t].audit, [task[t] EXCEPT !.synced = @ + 1])
       \/ task[t].pc = "resent" /\ StillFailed(t)
    /\ Fault("deleteFails")
    /\ Charge(task[t].audit)

\* A write of the status box throws: the status is as before and the activity is
\* over.  The box may still share the list, with the id just added to it.
PutFails(t) ==
    /\ Fault("putFails")
    /\ \/ /\ \/ task[t].pc \in {"count", "finish", "rewrite"}
             \/ task[t].pc = "report" /\ StatusDue(task[t])
             \/ task[t].pc = "open" /\ box # {} /\ PendingItems = {}
          /\ UNCHANGED <<status, torn>>
       \/ /\ task[t].pc = "send"
          /\ \E a \in task[t].todo :
                LET r == WithFailed(task[t], a) IN
                StatusDue(r) /\ status' = Shared(t, r)
          /\ torn' = torn \cup Readers(t)
    /\ End(t)
    /\ owner' = (IF owner = t THEN NoTask ELSE owner)
    /\ UNCHANGED <<box, diskFailed, online, logs, history>>

\* The process is killed and started again: the boxes are read from the disk.
Crash ==
    /\ Fault("crash")
    /\ task' = [t \in Tasks |-> Idle]
    /\ isSyncing' = FALSE
    /\ owner' = NoTask
    /\ src' = [t \in Tasks |-> NoTask]
    /\ torn' = {}
    /\ status' = [status EXCEPT !.failedIds = diskFailed]
    /\ charged' = [a \in Audits |->
          IF \E t \in Tasks : task[t].pc \in {"sent", "resent"} /\ task[t].audit = a
          THEN charged[a] + 1 ELSE charged[a]]
    /\ UNCHANGED <<box, diskFailed, online, logs, saved>>

-----------------------------------------------------------------------------
\* The steps an activity takes on its own once it was started.
TaskStep(t) ==
    \/ UpdatePendingCount(t) \/ TrySyncIfOnline(t)
    \/ SyncNothing(t) \/ SyncOnlyFailed(t) \/ SyncBegins(t)
    \/ \E a \in Audits : UploadCommits(t, a) \/ UploadFails(t, a)
    \/ UploadConfirmed(t) \/ Report(t) \/ EndOfPause(t) \/ SyncFinishes(t)
    \/ RetryBroken(t) \/ RetryNext(t) \/ RetryCommits(t)
    \/ RetryConfirmed(t) \/ RetryFails(t) \/ RetryRewrites(t)

Next ==
    \/ \E t \in Tasks : \/ TaskStep(t)
                       \/ \E a \in Audits : SaveAuditOffline(t, a)
                       \/ RetryFailed(t)
                       \/ ReplyLost(t) \/ DeleteFails(t) \/ PutFails(t)
    \/ ConnectivityChanged
    \/ Crash

Spec == Init /\ [][Next]_vars

\* Activities run on; the network keeps changing, also while no sync is running.
\* A user who saves or retries, and the faults, are not assumed to act.
FairSpec ==
    /\ Spec
    /\ \A t \in Tasks : WF_vars(TaskStep(t))
    /\ SF_vars(ConnectivityChanged /\ isSyncing' # isSyncing)

\* The same, and an upload tried again and again while it could commit does commit.
FairNetworkSpec ==
    /\ FairSpec
    /\ \A t \in Tasks, a \in Uploadable : SF_vars(UploadCommits(t, a) \/ RetryCommits(t))

\* The schedule of a guard that covered every entry point: runs never overlap.
Running(t) == task[t].pc \notin {"idle", "count", "check", "open"}

Serial == \A t, u \in Tasks : Running(t) /\ Running(u) => t = u

SerialSpec == Init /\ [][Next /\ Serial']_vars

=============================================================================
