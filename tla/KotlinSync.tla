----------------------------- MODULE KotlinSync -----------------------------
(* The offline queue of the Kotlin port: pending audits are one list in the    *)
(* SharedPreferences (OfflineSyncRepositoryImpl.kt), a unique work of the      *)
(* WorkManager sends them (SyncWorker.kt), one after another, each in three    *)
(* requests (AuditRepositoryImpl.submitAudit).  Audits are saved meanwhile.    *)
EXTENDS Naturals, Sequences, SequencesExt

CONSTANTS
    Audits,         \* identifiers of audits
    AssetOf(_),     \* the asset an audit is of
    MaxFaults       \* bound: requests that fail

VARIABLES
    prefs,          \* "pending", a list of audits
    saved,          \* the audits saveAuditOffline was called with
    work,           \* the unique work "audit_sync": idle, enqueued or its step
    pending,        \* the list syncPendingAudits read
    at,             \* the audit of it that is sent
    failedIds,      \* asset numbers of the audits that failed
    logs,           \* the audits logged at the server, one for each log
    faults          \* requests that have failed

kotlinVars == <<prefs, saved, work, pending, at, failedIds, logs, faults>>

Init ==
    /\ prefs = << >> /\ saved = {}
    /\ work = "idle"
    /\ pending = << >> /\ at = 1 /\ failedIds = {}
    /\ logs = << >> /\ faults = 0

-----------------------------------------------------------------------------

SaveAuditOffline(audit) ==
    /\ audit \notin saved
    /\ saved' = saved \cup {audit}
    /\ prefs' = Append(prefs, audit)
    /\ UNCHANGED <<work, pending, at, failedIds, logs, faults>>

\* ExistingWorkPolicy.KEEP: a work that has not ended is kept
ScheduleSync ==
    /\ work = "idle"
    /\ work' = "enqueued"
    /\ UNCHANGED <<prefs, saved, pending, at, failedIds, logs, faults>>

SyncStarts ==
    /\ work = "enqueued"
    /\ pending' = prefs /\ at' = 1 /\ failedIds' = {}
    /\ work' = IF prefs = << >> THEN "idle" ELSE "photo"
    /\ UNCHANGED <<prefs, saved, logs, faults>>

\* The next audit, or the end of the list
AfterThis == IF at = Len(pending) THEN "remove" ELSE "photo"

PhotoPut ==
    /\ work = "photo"
    /\ work' = "log"
    /\ UNCHANGED <<prefs, saved, pending, at, failedIds, logs, faults>>

LogAdded ==
    /\ work = "log"
    /\ logs' = Append(logs, pending[at])
    /\ work' = "update"
    /\ UNCHANGED <<prefs, saved, pending, at, failedIds, faults>>

AssetUpdated ==
    /\ work = "update"
    /\ at' = at + 1 /\ work' = AfterThis
    /\ UNCHANGED <<prefs, saved, pending, failedIds, logs, faults>>

RequestFails ==
    /\ work \in {"photo", "log", "update"} /\ faults < MaxFaults
    /\ faults' = faults + 1
    /\ failedIds' = failedIds \cup {AssetOf(pending[at])}
    /\ at' = at + 1 /\ work' = AfterThis
    /\ UNCHANGED <<prefs, saved, pending, logs>>

\* remove("pending") and, in an edit of its own, the list of those that failed
PendingRemoved ==
    /\ work = "remove"
    /\ prefs' = << >>
    /\ work' = IF failedIds = {} THEN "idle" ELSE "restore"
    /\ UNCHANGED <<saved, pending, at, failedIds, logs, faults>>

\* Result.retry: the work stays enqueued
RetryListPut ==
    /\ work = "restore"
    /\ prefs' = SelectSeq(pending, LAMBDA audit : AssetOf(audit) \in failedIds)
    /\ work' = "enqueued"
    /\ UNCHANGED <<saved, pending, at, failedIds, logs, faults>>

Next ==
    \/ \E audit \in Audits : SaveAuditOffline(audit)
    \/ ScheduleSync \/ SyncStarts
    \/ PhotoPut \/ LogAdded \/ AssetUpdated \/ RequestFails
    \/ PendingRemoved \/ RetryListPut

KotlinSpec == Init /\ [][Next]_kotlinVars

-----------------------------------------------------------------------------
(* "Pending audits are kept in SharedPreferences and synced when there is a    *)
(* network" (PORT_TO_KOTLIN.md:160): an audit that was saved is in the list,   *)
(* or in the hands of the sync that runs, until it is logged.                  *)
SavedIsKeptOrLogged ==
    \A audit \in saved : \/ audit \in ToSet(prefs) \/ audit \in ToSet(logs)
                         \/ work # "idle" /\ audit \in ToSet(pending)

=============================================================================
