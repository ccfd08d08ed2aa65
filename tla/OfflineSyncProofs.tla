-------------------------- MODULE OfflineSyncProofs --------------------------
(***************************************************************************)
(* Proofs about the offline queue, for any number of audits and callers,   *)
(* any batch size and any bound on the faults.                             *)
(***************************************************************************)
EXTENDS OfflineSyncProps, FiniteSetTheorems, TLAPS

-----------------------------------------------------------------------------
(* The operators the actions are built from *)

LEMMA BoxCount == ASSUME TypeOK PROVE Cardinality(box) \in Nat
<1>1. IsFiniteSet(box)
  BY ConstantsAssumption, FS_Subset DEF TypeOK
<1> QED BY <1>1, FS_CardinalityType

LEMMA InitTypes == /\ Idle \in TaskState
                   /\ DefaultStatus \in SyncStatus
BY DEF Idle, TaskState, Phase, DefaultStatus, SyncStatus

LEMMA AdvanceType ==
  ASSUME NEW r \in TaskState
  PROVE  Advance(r) \in TaskState
<1> DEFINE p == IF r.todo = {} THEN "finish"
                ELSE IF r.inBatch + 1 = BatchSize THEN "pause" ELSE "send"
<1>1. p \in Phase
  BY DEF Phase
<1>2. r.inBatch + 1 \in Nat
  BY DEF TaskState
<1>3. Advance(r) = [r EXCEPT !.audit = NoAudit, !.inBatch = r.inBatch + 1, !.pc = p]
  BY DEF Advance, p
<1> QED BY <1>1, <1>2, <1>3 DEF TaskState

LEMMA WithFailedType ==
  ASSUME NEW r \in TaskState, NEW a \in Audits
  PROVE  WithFailed(r, a) \in TaskState
<1>1. /\ r.todo \ {a} \in SUBSET Audits
      /\ r.failed + 1 \in Nat
      /\ r.failedIds \cup {a} \in SUBSET Audits
  BY DEF TaskState
<1> QED BY <1>1 DEF WithFailed, TaskState

LEMMA ProgressType ==
  ASSUME TypeOK, NEW r \in TaskState
  PROVE  ProgressStatus(r) \in SyncStatus
<1> DEFINE left == r.total - r.synced - r.failed
           most == IF left > 0 THEN left ELSE 0
           done == left <= 0 /\ r.failedIds = {}
<1>1. /\ r.total \in Nat /\ r.synced \in Nat /\ r.failed \in Nat
      /\ r.failedIds \in SUBSET Audits /\ status \in SyncStatus
  BY DEF TaskState, TypeOK
<1>2. most \in Int /\ done \in BOOLEAN
  BY <1>1
<1>3. ProgressStatus(r) =
        [status EXCEPT !.total = r.total, !.synced = r.synced, !.failed = r.failed,
                       !.remaining = most, !.isCompleted = done,
                       !.failedIds = r.failedIds]
  BY DEF ProgressStatus
<1> QED BY <1>1, <1>2, <1>3 DEF SyncStatus

LEMMA SharedType ==
  ASSUME TypeOK, NEW t \in Tasks, NEW r \in TaskState
  PROVE  Shared(t, r) \in SyncStatus
BY DEF Shared, TaskState, SyncStatus, TypeOK

LEMMA PutType ==
  ASSUME NEW s \in SyncStatus, NEW o \in Tasks \cup {NoTask}, Put(s, o)
  PROVE  /\ status' \in SyncStatus
         /\ diskFailed' \subseteq Audits
         /\ owner' \in Tasks \cup {NoTask}
BY DEF Put, SyncStatus

LEMMA EndType ==
  ASSUME TypeOK, NEW t \in Tasks, End(t)
  PROVE  /\ task' \in [Tasks -> TaskState]
         /\ src' \in [Tasks -> Tasks \cup {NoTask}]
         /\ isSyncing' \in BOOLEAN
BY InitTypes DEF End, TypeOK

LEMMA RecordEntryType ==
  ASSUME TypeOK, NEW t \in Tasks, NEW r \in TaskState, RecordEntry(t, r)
  PROVE  /\ status' \in SyncStatus
         /\ diskFailed' \subseteq Audits
         /\ owner' \in Tasks \cup {NoTask}
         /\ task' \in [Tasks -> TaskState]
         /\ src' = src /\ isSyncing' = isSyncing
<1>1. task' \in [Tasks -> TaskState]
  BY AdvanceType DEF RecordEntry, TypeOK
<1>2. CASE StatusDue(r) /\ Put(ProgressStatus(r), t)
  BY <1>1, <1>2, ProgressType, PutType DEF RecordEntry
<1>3. CASE ~StatusDue(r) /\ status' = Shared(t, r) /\ UNCHANGED <<diskFailed, owner>>
  BY <1>1, <1>3, SharedType DEF RecordEntry, TypeOK
<1> QED BY <1>2, <1>3 DEF RecordEntry

LEMMA EntryFailedType ==
  ASSUME TypeOK, NEW t \in Tasks, NEW a \in Audits, NEW r \in TaskState,
         EntryFailed(t, a, r), charged' \in [Audits -> Nat], budget' \in 0..MaxFaults
  PROVE  TypeOK'
<1>1. WithFailed(r, a) \in TaskState
  BY WithFailedType
<1>2. RecordEntry(t, WithFailed(r, a))
  BY DEF EntryFailed
<1>3. torn' \subseteq Tasks
  BY DEF EntryFailed, Readers, TypeOK
<1> QED BY <1>1, <1>2, <1>3, RecordEntryType DEF EntryFailed, TypeOK

-----------------------------------------------------------------------------
(* Type correctness *)

LEMMA SaveKeepsType ==
  ASSUME TypeOK, NEW t \in Tasks
  PROVE  /\ (\E a \in Audits : SaveAuditOffline(t, a)) => TypeOK'
         /\ UpdatePendingCount(t) => TypeOK'
         /\ TrySyncIfOnline(t) => TypeOK'
<1>1. ASSUME NEW a \in Audits, SaveAuditOffline(t, a) PROVE TypeOK'
  BY <1>1, SMTT(30) DEF SaveAuditOffline, TypeOK, TaskState, Phase, aliases
<1>2. ASSUME UpdatePendingCount(t) PROVE TypeOK'
  <2>1. [status EXCEPT !.total = Cardinality(box),
                       !.remaining = Cardinality(box) - status.synced - status.failed,
                       !.isCompleted = (box = {})] \in SyncStatus
    <3>1. /\ status \in SyncStatus
          /\ Cardinality(box) \in Nat
          /\ (box = {}) \in BOOLEAN
      BY BoxCount DEF TypeOK
    <3>2. Cardinality(box) - status.synced - status.failed \in Int
      BY <3>1 DEF SyncStatus
    <3> QED BY <3>1, <3>2 DEF SyncStatus
  <2>2. owner \in Tasks \cup {NoTask}
    BY DEF TypeOK
  <2>3. task' \in [Tasks -> TaskState]
    BY <1>2 DEF UpdatePendingCount, TypeOK, TaskState, Phase
  <2> QED BY <1>2, <2>1, <2>2, <2>3, PutType DEF UpdatePendingCount, TypeOK, history
<1>3. ASSUME TrySyncIfOnline(t) PROVE TypeOK'
  <2>1. CASE online /\ task' = [task EXCEPT ![t].pc = "open"]
                    /\ UNCHANGED <<aliases, isSyncing>>
    BY <1>3, <2>1 DEF TrySyncIfOnline, TypeOK, TaskState, Phase, store, aliases, history
  <2>2. CASE ~online /\ End(t) /\ UNCHANGED <<owner, torn>>
    BY <1>3, <2>2, EndType DEF TrySyncIfOnline, TypeOK, store, history
  <2> QED BY <1>3, <2>1, <2>2 DEF TrySyncIfOnline
<1> QED BY <1>1, <1>2, <1>3

LEMMA SyncKeepsType ==
  ASSUME TypeOK, NEW t \in Tasks
  PROVE  /\ SyncNothing(t) => TypeOK'
         /\ SyncOnlyFailed(t) => TypeOK'
         /\ SyncBegins(t) => TypeOK'
         /\ Report(t) => TypeOK'
         /\ EndOfPause(t) => TypeOK'
         /\ SyncFinishes(t) => TypeOK'
<1>0. task[t] \in TaskState /\ owner \in Tasks \cup {NoTask}
  BY DEF TypeOK
<1>1. ASSUME SyncNothing(t) PROVE TypeOK'
  BY <1>1, EndType DEF SyncNothing, TypeOK, store, history
<1>2. ASSUME SyncOnlyFailed(t) PROVE TypeOK'
  <2>1. [status EXCEPT !.isCompleted = TRUE, !.remaining = 0] \in SyncStatus
    <3>1. status \in SyncStatus /\ 0 \in Int
      BY DEF TypeOK
    <3> QED BY <3>1 DEF SyncStatus
  <2> QED BY <1>0, <1>2, <2>1, PutType, EndType DEF SyncOnlyFailed, TypeOK, history
<1>3. ASSUME SyncBegins(t) PROVE TypeOK'
  <2>1. [Idle EXCEPT !.pc = "send",
                     !.todo = PendingItems,
                     !.total = IF status.stored THEN status.total ELSE Cardinality(box),
                     !.synced = status.synced,
                     !.failed = status.failed,
                     !.failedIds = status.failedIds] \in TaskState
    BY InitTypes, BoxCount DEF TypeOK, SyncStatus, TaskState, Phase, PendingItems
  <2> QED BY <1>3, <2>1 DEF SyncBegins, TypeOK, store, aliases, history
<1>4. ASSUME Report(t) PROVE TypeOK'
  BY <1>0, <1>4, RecordEntryType DEF Report, TypeOK, history
<1>5. ASSUME EndOfPause(t) PROVE TypeOK'
  <2>1. [task[t] EXCEPT !.pc = "send", !.inBatch = 0] \in TaskState
    BY <1>0 DEF TaskState, Phase
  <2>2. task' \in [Tasks -> TaskState]
    BY <1>5, <2>1 DEF EndOfPause, TypeOK
  <2> QED BY <1>5, <2>2 DEF EndOfPause, TypeOK, store, aliases, history
<1>6. ASSUME SyncFinishes(t) PROVE TypeOK'
  <2>1. [status EXCEPT !.total = task[t].total, !.synced = task[t].synced,
                       !.failed = task[t].failed, !.failedIds = task[t].failedIds,
                       !.remaining = 0, !.isCompleted = TRUE] \in SyncStatus
    <3>1. /\ status \in SyncStatus
          /\ task[t].total \in Nat /\ task[t].synced \in Nat /\ task[t].failed \in Nat
          /\ task[t].failedIds \in SUBSET Audits
          /\ 0 \in Int /\ TRUE \in BOOLEAN
      BY <1>0 DEF TypeOK, TaskState
    <3> QED BY <3>1, Zenon DEF SyncStatus
  <2> QED BY <1>6, <2>1, PutType, EndType DEF SyncFinishes, TypeOK, history
<1> QED BY <1>1, <1>2, <1>3, <1>4, <1>5, <1>6

LEMMA UploadKeepsType ==
  ASSUME TypeOK, NEW t \in Tasks
  PROVE  /\ (\E a \in Audits : UploadCommits(t, a)) => TypeOK'
         /\ (\E a \in Audits : UploadFails(t, a)) => TypeOK'
         /\ UploadConfirmed(t) => TypeOK'
<1>0. task[t] \in TaskState
  BY DEF TypeOK
<1>1. ASSUME NEW a \in Audits, UploadCommits(t, a) PROVE TypeOK'
  BY <1>1 DEF UploadCommits, TypeOK, TaskState, Phase, store, aliases, history
<1>2. ASSUME NEW a \in Audits, UploadFails(t, a) PROVE TypeOK'
  <2>1. charged' \in [Audits -> Nat] /\ budget' \in 0..MaxFaults
    BY <1>2 DEF UploadFails, TypeOK
  <2>2. EntryFailed(t, a, task[t])
    BY <1>2 DEF UploadFails
  <2> QED BY <1>0, <2>1, <2>2, EntryFailedType
<1>3. ASSUME UploadConfirmed(t) PROVE TypeOK'
  BY <1>3 DEF UploadConfirmed, TypeOK, TaskState, Phase, aliases, history
<1> QED BY <1>1, <1>2, <1>3

LEMMA StillFailedType ==
  ASSUME TypeOK, NEW t \in Tasks, StillFailed(t), task[t].audit \in Audits,
         charged' \in [Audits -> Nat], budget' \in 0..MaxFaults
  PROVE  TypeOK'
BY DEF StillFailed, TypeOK, TaskState, Phase, store, aliases

LEMMA FaultType ==
  ASSUME TypeOK, NEW kind, Fault(kind)
  PROVE  budget' \in 0..MaxFaults
BY ConstantsAssumption DEF Fault, TypeOK

-----------------------------------------------------------------------------
(* The inductive invariant: what an activity holds was saved, and what it  *)
(* waits to delete has its log.                                            *)

SyncPhase == {"send", "sent", "report", "pause", "finish"}

TaskGood(r) ==
    /\ r.pc \in {"sent", "resend", "resent"} => r.audit \in saved
    /\ r.pc \in {"sent", "resent"} => logs[r.audit] > 0
    /\ r.pc \in SyncPhase => r.todo \subseteq saved

TasksGood == \A t \in Tasks : TaskGood(task[t])

QueueInv == TypeOK /\ TasksGood /\ box \subseteq saved /\ NoAuditLost

\* The steps of retryFailed, and the faults, keep the types: an activity that may
\* add its audit to a list of failed ones has one.
LEMMA RetryKeepsType ==
  ASSUME QueueInv, NEW t \in Tasks
  PROVE  /\ RetryFailed(t) => TypeOK'
         /\ RetryBroken(t) => TypeOK'
         /\ RetryNext(t) => TypeOK'
         /\ RetryCommits(t) => TypeOK'
         /\ RetryConfirmed(t) => TypeOK'
         /\ RetryFails(t) => TypeOK'
         /\ RetryRewrites(t) => TypeOK'
<1>0. TypeOK /\ task[t] \in TaskState /\ TaskGood(task[t])
  BY DEF QueueInv, TasksGood, TypeOK
<1>1. ASSUME RetryFailed(t) PROVE TypeOK'
  <2>1. [Idle EXCEPT !.pc = "next", !.todo = status.failedIds,
                     !.total = status.total, !.remaining = status.remaining,
                     !.synced = status.synced] \in TaskState
    BY <1>0, InitTypes DEF TypeOK, SyncStatus, TaskState, Phase
  <2> QED BY <1>0, <1>1, <2>1 DEF RetryFailed, TypeOK, store, history
<1>2. ASSUME RetryBroken(t) PROVE TypeOK'
  BY <1>0, <1>2, EndType DEF RetryBroken, TypeOK, store, history
<1>3. ASSUME RetryNext(t) PROVE TypeOK'
  <2>1. task' \in [Tasks -> TaskState]
    <3>1. CASE task' = [task EXCEPT ![t].pc = "rewrite"]
      BY <1>0, <3>1 DEF TypeOK, TaskState, Phase
    <3>2. ASSUME NEW a \in task[t].todo,
                 task' = [task EXCEPT ![t].todo = @ \ {a},
                                      ![t].pc = IF a \in box THEN "resend" ELSE "next",
                                      ![t].audit = IF a \in box THEN a ELSE NoAudit]
          PROVE  task' \in [Tasks -> TaskState]
      <4> DEFINE p == IF a \in box THEN "resend" ELSE "next"
                 x == IF a \in box THEN a ELSE NoAudit
      <4>1. /\ p \in Phase /\ x \in Audits \cup {NoAudit}
            /\ task[t].todo \ {a} \in SUBSET Audits
        BY <1>0 DEF Phase, TaskState
      <4>2. [task[t] EXCEPT !.todo = task[t].todo \ {a}, !.pc = p, !.audit = x]
              \in TaskState
        <5> HIDE DEF p, x
        <5> QED BY <1>0, <4>1 DEF TaskState
      <4>3. task' = [task EXCEPT ![t] =
              [task[t] EXCEPT !.todo = task[t].todo \ {a}, !.pc = p, !.audit = x]]
        BY <1>0, <3>2 DEF TypeOK
      <4> HIDE DEF p, x
      <4> QED BY <1>0, <4>2, <4>3 DEF TypeOK
    <3> QED BY <1>3, <3>1, <3>2 DEF RetryNext
  <2> QED BY <1>0, <1>3, <2>1 DEF RetryNext, TypeOK, store, aliases, history
<1>4. ASSUME RetryCommits(t) PROVE TypeOK'
  BY <1>0, <1>4 DEF RetryCommits, TypeOK, TaskState, Phase, TaskGood, store, aliases, history
<1>5. ASSUME RetryConfirmed(t) PROVE TypeOK'
  BY <1>0, <1>5 DEF RetryConfirmed, TypeOK, TaskState, Phase, aliases, history
<1>6. ASSUME RetryFails(t) PROVE TypeOK'
  <2>1. task[t].audit \in Audits
    BY <1>0, <1>6 DEF RetryFails, TaskGood, TypeOK
  <2>2. charged' \in [Audits -> Nat] /\ budget' \in 0..MaxFaults
    BY <1>0, <1>6 DEF RetryFails, TypeOK
  <2> QED BY <1>0, <1>6, <2>1, <2>2, StillFailedType DEF RetryFails
<1>7. ASSUME RetryRewrites(t) PROVE TypeOK'
  <2>1. [status EXCEPT !.total = task[t].total, !.remaining = task[t].remaining,
                       !.synced = task[t].synced, !.failed = task[t].failed,
                       !.failedIds = task[t].failedIds,
                       !.isCompleted = (task[t].failed = 0)] \in SyncStatus
    BY <1>0 DEF TypeOK, SyncStatus, TaskState
  <2> QED BY <1>0, <1>7, <2>1, PutType, EndType DEF RetryRewrites, TypeOK, history
<1> QED BY <1>1, <1>2, <1>3, <1>4, <1>5, <1>6, <1>7

LEMMA FaultsKeepType ==
  ASSUME QueueInv, NEW t \in Tasks
  PROVE  /\ ReplyLost(t) => TypeOK'
         /\ DeleteFails(t) => TypeOK'
         /\ PutFails(t) => TypeOK'
         /\ Crash => TypeOK'
<1>0. TypeOK /\ task[t] \in TaskState /\ TaskGood(task[t])
  BY DEF QueueInv, TasksGood, TypeOK
<1>1. ASSUME ReplyLost(t) \/ DeleteFails(t) PROVE TypeOK'
  <2>1. task[t].audit \in Audits
    BY <1>0, <1>1 DEF ReplyLost, DeleteFails, TaskGood, TypeOK
  <2>2. charged' \in [Audits -> Nat] /\ budget' \in 0..MaxFaults
    BY <1>0, <1>1, <2>1, FaultType DEF ReplyLost, DeleteFails, Charge, TypeOK
  <2>3. [task[t] EXCEPT !.synced = @ + 1] \in TaskState
    BY <1>0 DEF TaskState
  <2> QED BY <1>0, <1>1, <2>1, <2>2, <2>3, EntryFailedType, StillFailedType
          DEF ReplyLost, DeleteFails
<1>2. ASSUME PutFails(t) PROVE TypeOK'
  <2>1. status' \in SyncStatus /\ torn' \subseteq Tasks
    <3>1. CASE UNCHANGED <<status, torn>>
      BY <1>0, <3>1 DEF TypeOK
    <3>2. ASSUME NEW a \in task[t].todo, status' = Shared(t, WithFailed(task[t], a)),
                 torn' = torn \cup Readers(t)
          PROVE  status' \in SyncStatus /\ torn' \subseteq Tasks
      <4>1. a \in Audits
        BY <1>0 DEF TaskState
      <4> QED BY <1>0, <3>2, <4>1, WithFailedType, SharedType DEF Readers, TypeOK
    <3> QED BY <1>2, <3>1, <3>2 DEF PutFails
  <2> QED BY <1>0, <1>2, <2>1, EndType, FaultType DEF PutFails, TypeOK, history
<1>3. ASSUME Crash PROVE TypeOK'
  <2>1. status' \in SyncStatus
    BY <1>0, <1>3 DEF Crash, TypeOK, SyncStatus
  <2>2. charged' \in [Audits -> Nat]
    BY <1>0, <1>3 DEF Crash, TypeOK
  <2> QED BY <1>0, <1>3, <2>1, <2>2, InitTypes, FaultType DEF Crash, TypeOK
<1> QED BY <1>1, <1>2, <1>3

LEMMA ConnectivityKeepsType ==
  ASSUME TypeOK, ConnectivityChanged
  PROVE  TypeOK'
<1>1. task' \in [Tasks -> TaskState] /\ isSyncing' \in BOOLEAN
  <2>1. CASE task' = [task EXCEPT ![Listener].pc = "open"] /\ isSyncing' = TRUE
    BY <2>1 DEF TypeOK, TaskState, Phase, Tasks
  <2>2. CASE UNCHANGED <<isSyncing, task>>
    BY <2>2 DEF TypeOK
  <2> QED BY <2>1, <2>2 DEF ConnectivityChanged
<1> QED BY <1>1 DEF ConnectivityChanged, TypeOK, store, aliases, history

LEMMA TypeStep ==
  ASSUME QueueInv, [Next]_vars
  PROVE  TypeOK'
<1>0. TypeOK
  BY DEF QueueInv
<1>1. ASSUME NEW t \in Tasks, TaskStep(t) PROVE TypeOK'
  BY <1>0, <1>1, SaveKeepsType, SyncKeepsType, UploadKeepsType, RetryKeepsType DEF TaskStep
<1>2. CASE \E t \in Tasks : \/ \E a \in Audits : SaveAuditOffline(t, a)
                            \/ RetryFailed(t)
                            \/ ReplyLost(t) \/ DeleteFails(t) \/ PutFails(t)
  BY <1>0, <1>2, SaveKeepsType, RetryKeepsType, FaultsKeepType
<1>3. CASE ConnectivityChanged
  BY <1>0, <1>3, ConnectivityKeepsType
<1>4. CASE Crash
  <2>1. Listener \in Tasks
    BY DEF Tasks
  <2> QED BY <1>4, <2>1, FaultsKeepType
<1>5. CASE UNCHANGED vars
  BY <1>0, <1>5 DEF TypeOK, vars, store, aliases, history
<1> QED BY <1>1, <1>2, <1>3, <1>4, <1>5 DEF Next

\* What is good for an activity stays good while other activities move: saved
\* audits stay saved and logs are never taken back.
LEMMA TasksStayGood ==
  ASSUME QueueInv, TypeOK', NEW t \in Tasks,
         saved \subseteq saved',
         \A a \in Audits : logs'[a] >= logs[a],
         \A u \in Tasks : u = t \/ task'[u] = task[u],
         TaskGood(task[t])'
  PROVE  TasksGood'
<1> SUFFICES ASSUME NEW u \in Tasks PROVE TaskGood(task[u])'
  BY DEF TasksGood
<1>1. CASE u = t
  BY <1>1
<1>2. CASE u # t
  <2>1. TaskGood(task[u]) /\ task'[u] = task[u]
    BY <1>2 DEF QueueInv, TasksGood
  <2>2. \A a \in Audits : logs[a] \in Nat /\ logs'[a] \in Nat
    BY DEF QueueInv, TypeOK
  <2>3. saved \subseteq Audits
    BY DEF QueueInv, TypeOK
  <2> QED BY <2>1, <2>2, <2>3 DEF TaskGood
<1> QED BY <1>1, <1>2

\* An activity that has ended holds nothing.
LEMMA EndIsGood ==
  ASSUME QueueInv, TypeOK', NEW t \in Tasks, End(t), UNCHANGED <<saved, logs>>
  PROVE  TasksGood'
<1>1. task'[t] = Idle /\ (\A u \in Tasks : u = t \/ task'[u] = task[u])
  BY DEF End, QueueInv, TypeOK
<1>2. TaskGood(task[t])'
  BY <1>1 DEF TaskGood, Idle, SyncPhase
<1>3. \A a \in Audits : logs'[a] >= logs[a]
  BY DEF QueueInv, TypeOK
<1> QED BY <1>1, <1>2, <1>3, TasksStayGood

\* A sync that has dealt with an entry goes on with entries it had.
LEMMA RecordIsGood ==
  ASSUME QueueInv, TypeOK', NEW t \in Tasks, NEW r, RecordEntry(t, r),
         r.todo \subseteq saved, r \in TaskState, UNCHANGED <<saved, logs>>
  PROVE  TasksGood'
<1>1. task'[t] = Advance(r) /\ (\A u \in Tasks : u = t \/ task'[u] = task[u])
  BY DEF RecordEntry, QueueInv, TypeOK
<1>2. /\ Advance(r).todo = r.todo
      /\ Advance(r).pc \in {"finish", "pause", "send"}
  BY DEF Advance, TaskState
<1>3. TaskGood(task[t])'
  BY <1>1, <1>2 DEF TaskGood
<1>4. \A a \in Audits : logs'[a] >= logs[a]
  BY DEF QueueInv, TypeOK
<1> QED BY <1>1, <1>3, <1>4, TasksStayGood

\* An activity that moves on without touching the box, the server or the saved audits.
LEMMA QuietMove ==
  ASSUME QueueInv, TypeOK', NEW t \in Tasks,
         \A u \in Tasks : u = t \/ task'[u] = task[u],
         TaskGood(task'[t]), UNCHANGED <<saved, logs>>
  PROVE  TasksGood'
<1>1. TaskGood(task[t])'
  BY DEF TaskGood
<1>2. \A a \in Audits : logs'[a] >= logs[a]
  BY DEF QueueInv, TypeOK
<1> QED BY <1>1, <1>2, TasksStayGood

LEMMA SaveStep ==
  ASSUME QueueInv, TypeOK', NEW t \in Tasks, NEW a \in Audits, SaveAuditOffline(t, a)
  PROVE  QueueInv'
<1>1. saved' = saved \cup {a} /\ box' = box \cup {a} /\ logs' = logs
  BY DEF SaveAuditOffline
<1>2. TasksGood'
  <2>1. /\ task'[t].pc = "count"
        /\ \A u \in Tasks : u = t \/ task'[u] = task[u]
    BY DEF SaveAuditOffline, QueueInv, TypeOK, TaskState
  <2>2. TaskGood(task[t])'
    BY <2>1 DEF TaskGood, SyncPhase
  <2>3. \A b \in Audits : logs'[b] >= logs[b]
    BY <1>1 DEF QueueInv, TypeOK
  <2> QED BY <1>1, <2>1, <2>2, <2>3, TasksStayGood
<1> QED BY <1>1, <1>2 DEF QueueInv, NoAuditLost

\* A log is written: of an audit that was saved.
LEMMA CommitStep ==
  ASSUME QueueInv, TypeOK', NEW t \in Tasks, NEW a \in saved,
         logs' = [logs EXCEPT ![a] = @ + 1], UNCHANGED <<box, saved>>,
         \A u \in Tasks : u = t \/ task'[u] = task[u],
         task'[t].pc \in {"sent", "resent"}, task'[t].audit = a,
         task'[t].todo \subseteq saved \/ task'[t].pc = "resent"
  PROVE  QueueInv'
<1>0. a \in Audits /\ (\A b \in Audits : logs[b] \in Nat)
  BY DEF QueueInv, TypeOK
<1>1. logs'[a] > 0 /\ (\A b \in Audits : logs'[b] >= logs[b])
  BY <1>0 DEF QueueInv, TypeOK
<1>2. TaskGood(task[t])'
  BY <1>1 DEF TaskGood, SyncPhase
<1>3. TasksGood'
  BY <1>1, <1>2, TasksStayGood
<1>4. NoAuditLost'
  <2>1. saved \subseteq Audits
    BY DEF QueueInv, TypeOK
  <2>2. \A b \in Audits : logs[b] > 0 => logs'[b] > 0
    BY <1>0, <1>1 DEF TypeOK
  <2> QED BY <2>1, <2>2 DEF QueueInv, NoAuditLost
<1> QED BY <1>3, <1>4 DEF QueueInv

\* box.delete: of an audit whose log is written.
LEMMA DeleteStep ==
  ASSUME QueueInv, TypeOK', NEW t \in Tasks, task[t].pc \in {"sent", "resent"},
         box' = box \ {task[t].audit}, UNCHANGED <<saved, logs>>,
         \A u \in Tasks : u = t \/ task'[u] = task[u],
         TaskGood(task'[t])
  PROVE  QueueInv'
<1>1. logs[task[t].audit] > 0
  BY DEF QueueInv, TasksGood, TaskGood
<1>2. NoAuditLost'
  BY <1>1 DEF QueueInv, NoAuditLost
<1>3. TasksGood'
  BY QuietMove
<1> QED BY <1>2, <1>3 DEF QueueInv

\* Every other step leaves the box, the logs and the saved audits alone.
LEMMA OtherStep ==
  ASSUME QueueInv, TypeOK', TasksGood', UNCHANGED <<box, saved, logs>>
  PROVE  QueueInv'
BY DEF QueueInv, NoAuditLost

LEMMA TaskStepKeepsInv ==
  ASSUME QueueInv, TypeOK', NEW t \in Tasks, TaskStep(t)
  PROVE  QueueInv'
<1>0. /\ TypeOK /\ task[t] \in TaskState /\ TaskGood(task[t])
      /\ task \in [Tasks -> TaskState] /\ box \subseteq saved
  BY DEF QueueInv, TasksGood, TypeOK
<1>1. CASE UpdatePendingCount(t)
  <2>1. TaskGood(task'[t]) /\ (\A u \in Tasks : u = t \/ task'[u] = task[u])
    BY <1>0, <1>1 DEF UpdatePendingCount, TaskGood, SyncPhase, TaskState
  <2> QED BY <1>1, <2>1, QuietMove, OtherStep DEF UpdatePendingCount, history
<1>2. CASE TrySyncIfOnline(t)
  <2>1. CASE End(t)
    BY <1>2, <2>1, EndIsGood, OtherStep DEF TrySyncIfOnline, store, history
  <2>2. CASE task' = [task EXCEPT ![t].pc = "open"]
    <3>1. TaskGood(task'[t]) /\ (\A u \in Tasks : u = t \/ task'[u] = task[u])
      BY <1>0, <2>2 DEF TaskGood, SyncPhase, TaskState
    <3> QED BY <1>2, <3>1, QuietMove, OtherStep DEF TrySyncIfOnline, store, history
  <2> QED BY <1>2, <2>1, <2>2 DEF TrySyncIfOnline
<1>3. CASE SyncNothing(t) \/ SyncOnlyFailed(t) \/ SyncFinishes(t) \/ RetryBroken(t)
           \/ RetryRewrites(t)
  BY <1>3, EndIsGood, OtherStep
     DEF SyncNothing, SyncOnlyFailed, SyncFinishes, RetryBroken, RetryRewrites, store, history
<1>4. CASE SyncBegins(t)
  <2>1. TaskGood(task'[t]) /\ (\A u \in Tasks : u = t \/ task'[u] = task[u])
    BY <1>0, <1>4 DEF SyncBegins, TaskGood, SyncPhase, Idle, PendingItems
  <2> QED BY <1>4, <2>1, QuietMove, OtherStep DEF SyncBegins, store, history
<1>5. ASSUME NEW a \in Audits, UploadCommits(t, a) PROVE QueueInv'
  <2>1. /\ a \in saved
        /\ task'[t].pc = "sent" /\ task'[t].audit = a
        /\ task'[t].todo \subseteq saved
        /\ \A u \in Tasks : u = t \/ task'[u] = task[u]
    BY <1>0, <1>5 DEF UploadCommits, TaskGood, SyncPhase, TaskState
  <2> QED BY <1>5, <2>1, CommitStep DEF UploadCommits, store, history
<1>6. ASSUME NEW a \in Audits, UploadFails(t, a) PROVE QueueInv'
  <2>1. /\ WithFailed(task[t], a) \in TaskState
        /\ WithFailed(task[t], a).todo \subseteq saved
    BY <1>0, <1>6, WithFailedType DEF UploadFails, WithFailed, TaskGood, SyncPhase, TaskState
  <2>2. RecordEntry(t, WithFailed(task[t], a)) /\ UNCHANGED <<box, saved, logs>>
    BY <1>6 DEF UploadFails, EntryFailed
  <2> QED BY <2>1, <2>2, RecordIsGood, OtherStep
<1>7. CASE UploadConfirmed(t)
  <2>1. TaskGood(task'[t]) /\ (\A u \in Tasks : u = t \/ task'[u] = task[u])
    BY <1>0, <1>7 DEF UploadConfirmed, TaskGood, SyncPhase, TaskState
  <2> QED BY <1>7, <2>1, DeleteStep DEF UploadConfirmed, history
<1>8. CASE Report(t)
  <2>1. task[t].todo \subseteq saved
    BY <1>0, <1>8 DEF Report, TaskGood, SyncPhase
  <2> QED BY <1>0, <1>8, <2>1, RecordIsGood, OtherStep DEF Report, history
<1>9. CASE EndOfPause(t)
  <2>1. TaskGood(task'[t]) /\ (\A u \in Tasks : u = t \/ task'[u] = task[u])
    BY <1>0, <1>9 DEF EndOfPause, TaskGood, SyncPhase, TaskState
  <2> QED BY <1>9, <2>1, QuietMove, OtherStep DEF EndOfPause, store, history
<1>10. CASE RetryNext(t)
  <2>1. TaskGood(task'[t]) /\ (\A u \in Tasks : u = t \/ task'[u] = task[u])
    <3>1. CASE task' = [task EXCEPT ![t].pc = "rewrite"]
      BY <1>0, <3>1 DEF TaskGood, SyncPhase, TaskState
    <3>2. ASSUME NEW a \in task[t].todo,
                 task' = [task EXCEPT ![t].todo = @ \ {a},
                                      ![t].pc = IF a \in box THEN "resend" ELSE "next",
                                      ![t].audit = IF a \in box THEN a ELSE NoAudit]
          PROVE  TaskGood(task'[t]) /\ (\A u \in Tasks : u = t \/ task'[u] = task[u])
      <4>1. CASE a \in box
        BY <1>0, <3>2, <4>1 DEF TaskGood, SyncPhase, TaskState
      <4>2. CASE a \notin box
        BY <1>0, <3>2, <4>2 DEF TaskGood, SyncPhase, TaskState
      <4> QED BY <4>1, <4>2
    <3> QED BY <1>10, <3>1, <3>2 DEF RetryNext
  <2> QED BY <1>10, <2>1, QuietMove, OtherStep DEF RetryNext, store, history
<1>11. CASE RetryCommits(t)
  <2>1. /\ task[t].audit \in saved
        /\ task'[t].pc = "resent" /\ task'[t].audit = task[t].audit
        /\ \A u \in Tasks : u = t \/ task'[u] = task[u]
    BY <1>0, <1>11 DEF RetryCommits, TaskGood, TaskState
  <2> QED BY <1>11, <2>1, CommitStep DEF RetryCommits, store, history
<1>12. CASE RetryConfirmed(t)
  <2>1. TaskGood(task'[t]) /\ (\A u \in Tasks : u = t \/ task'[u] = task[u])
    BY <1>0, <1>12 DEF RetryConfirmed, TaskGood, SyncPhase, TaskState
  <2> QED BY <1>12, <2>1, DeleteStep DEF RetryConfirmed, history
<1>13. CASE RetryFails(t)
  <2>1. TaskGood(task'[t]) /\ (\A u \in Tasks : u = t \/ task'[u] = task[u])
    BY <1>0, <1>13 DEF RetryFails, StillFailed, TaskGood, SyncPhase, TaskState
  <2> QED BY <1>13, <2>1, QuietMove, OtherStep DEF RetryFails, StillFailed, store, history
<1> QED BY <1>1, <1>2, <1>3, <1>4, <1>5, <1>6, <1>7, <1>8, <1>9, <1>10, <1>11, <1>12,
           <1>13 DEF TaskStep

LEMMA FaultKeepsInv ==
  ASSUME QueueInv, TypeOK', NEW t \in Tasks
  PROVE  /\ ReplyLost(t) \/ DeleteFails(t) => QueueInv'
         /\ PutFails(t) => QueueInv'
         /\ Crash => QueueInv'
<1>0. /\ TypeOK /\ task[t] \in TaskState /\ TaskGood(task[t])
      /\ task \in [Tasks -> TaskState]
  BY DEF QueueInv, TasksGood, TypeOK
<1>1. ASSUME ReplyLost(t) \/ DeleteFails(t) PROVE QueueInv'
  <2>1. CASE StillFailed(t)
    <3>1. TaskGood(task'[t]) /\ (\A u \in Tasks : u = t \/ task'[u] = task[u])
      BY <1>0, <2>1 DEF StillFailed, TaskGood, SyncPhase, TaskState
    <3> QED BY <2>1, <3>1, QuietMove, OtherStep DEF StillFailed, store
  <2>2. ASSUME NEW r \in {task[t], [task[t] EXCEPT !.synced = @ + 1]},
               task[t].pc = "sent", EntryFailed(t, task[t].audit, r)
        PROVE  QueueInv'
    <3>1. task[t].audit \in Audits
      BY <1>0, <2>2 DEF TaskGood, TypeOK
    <3>2. r \in TaskState /\ r.todo = task[t].todo
      BY <1>0 DEF TaskState
    <3>3. /\ WithFailed(r, task[t].audit) \in TaskState
          /\ WithFailed(r, task[t].audit).todo \subseteq saved
      <4>1. task[t].todo \subseteq saved
        BY <1>0, <2>2 DEF TaskGood, SyncPhase
      <4>2. WithFailed(r, task[t].audit).todo = r.todo \ {task[t].audit}
        BY <3>2 DEF WithFailed, TaskState
      <4> QED BY <3>1, <3>2, <4>1, <4>2, WithFailedType
    <3>4. RecordEntry(t, WithFailed(r, task[t].audit)) /\ UNCHANGED <<box, saved, logs>>
      BY <2>2 DEF EntryFailed
    <3> QED BY <3>3, <3>4, RecordIsGood, OtherStep
  <2> QED BY <1>1, <2>1, <2>2 DEF ReplyLost, DeleteFails
<1>2. ASSUME PutFails(t) PROVE QueueInv'
  BY <1>2, EndIsGood, OtherStep DEF PutFails, history
<1>3. ASSUME Crash PROVE QueueInv'
  <2>1. TasksGood'
    BY <1>3 DEF Crash, TasksGood, TaskGood, Idle, SyncPhase
  <2> QED BY <1>3, <2>1, OtherStep DEF Crash
<1> QED BY <1>1, <1>2, <1>3

LEMMA QueueStep ==
  ASSUME QueueInv, [Next]_vars
  PROVE  QueueInv'
<1>0. TypeOK'
  BY TypeStep
<1>1. ASSUME NEW t \in Tasks, TaskStep(t) PROVE QueueInv'
  BY <1>0, <1>1, TaskStepKeepsInv
<1>2. ASSUME NEW t \in Tasks, NEW a \in Audits, SaveAuditOffline(t, a) PROVE QueueInv'
  BY <1>0, <1>2, SaveStep
<1>3. ASSUME NEW t \in Tasks, RetryFailed(t) PROVE QueueInv'
  <2>1. TaskGood(task'[t]) /\ (\A u \in Tasks : u = t \/ task'[u] = task[u])
    BY <1>3 DEF RetryFailed, TaskGood, SyncPhase, Idle, QueueInv, TypeOK
  <2> QED BY <1>0, <1>3, <2>1, QuietMove, OtherStep DEF RetryFailed, store, history
<1>4. ASSUME NEW t \in Tasks, ReplyLost(t) \/ DeleteFails(t) \/ PutFails(t) PROVE QueueInv'
  BY <1>0, <1>4, FaultKeepsInv
<1>5. CASE ConnectivityChanged
  <2>1. CASE task' = [task EXCEPT ![Listener].pc = "open"]
    <3>1. Listener \in Tasks
      BY DEF Tasks
    <3>2. /\ TaskGood(task'[Listener])
          /\ \A u \in Tasks : u = Listener \/ task'[u] = task[u]
      BY <2>1, <3>1 DEF TaskGood, SyncPhase, QueueInv, TypeOK, TaskState
    <3> QED BY <1>0, <1>5, <3>1, <3>2, QuietMove, OtherStep
            DEF ConnectivityChanged, store, history
  <2>2. CASE UNCHANGED task
    BY <1>0, <1>5, <2>2, OtherStep
       DEF ConnectivityChanged, store, history, QueueInv, TasksGood, TaskGood
  <2> QED BY <1>5, <2>1, <2>2 DEF ConnectivityChanged
<1>6. CASE Crash
  <2>1. Listener \in Tasks
    BY DEF Tasks
  <2> QED BY <1>0, <1>6, <2>1, FaultKeepsInv
<1>7. CASE UNCHANGED vars
  BY <1>0, <1>7, OtherStep
     DEF vars, store, history, QueueInv, TasksGood, TaskGood
<1> QED BY <1>1, <1>2, <1>3, <1>4, <1>5, <1>6, <1>7 DEF Next

LEMMA QueueInit == Init => QueueInv
<1> SUFFICES ASSUME Init PROVE QueueInv
  OBVIOUS
<1>1. TypeOK
  <2>1. budget \in 0..MaxFaults
    BY ConstantsAssumption DEF Init
  <2>2. /\ task \in [Tasks -> TaskState] /\ status \in SyncStatus
        /\ src \in [Tasks -> Tasks \cup {NoTask}]
        /\ logs \in [Audits -> Nat] /\ charged \in [Audits -> Nat]
    BY InitTypes DEF Init
  <2> QED BY <2>1, <2>2 DEF Init, TypeOK
<1>2. TasksGood
  BY DEF Init, TasksGood, TaskGood, Idle, SyncPhase
<1> QED BY <1>1, <1>2 DEF Init, QueueInv, NoAuditLost

LEMMA QueueInvariant == Spec => []QueueInv
BY QueueInit, QueueStep, PTL DEF Spec

\* Type correctness of the offline queue, whatever its constants.
THEOREM TypeCorrect == Spec => []TypeOK
<1>1. QueueInv => TypeOK
  BY DEF QueueInv
<1> QED BY <1>1, QueueInvariant, PTL

\* A saved audit is in the box or on the server, whatever runs overlap and whatever
\* fails: the property NoAuditLost, for every number of audits, callers and faults.
THEOREM SavedAuditsSurvive == Spec => []NoAuditLost
<1>1. QueueInv => NoAuditLost
  BY DEF QueueInv
<1> QED BY <1>1, QueueInvariant, PTL

-----------------------------------------------------------------------------
(* The queue is an at-least-once outbox *)

LEMMA OutboxInit == Init => Outbox!Init
BY DEF Init, Outbox!Init

\* No part of the outbox moves.
LEMMA OutboxStutters ==
  ASSUME UNCHANGED <<saved, box, logs>>
  PROVE  [Outbox!Next]_Outbox!vars
BY DEF Outbox!vars

LEMMA OutboxDelivers ==
  ASSUME TypeOK, NEW a \in saved, logs' = [logs EXCEPT ![a] = @ + 1],
         UNCHANGED <<saved, box>>
  PROVE  [Outbox!Next]_Outbox!vars
<1>1. a \in Audits
  BY DEF TypeOK
<1>2. Outbox!Deliver(a)
  BY DEF Outbox!Deliver
<1> QED BY <1>1, <1>2 DEF Outbox!Next

LEMMA OutboxReleases ==
  ASSUME TypeOK, NEW a \in saved, logs[a] > 0, box' = box \ {a}, UNCHANGED <<saved, logs>>
  PROVE  [Outbox!Next]_Outbox!vars
<1>1. CASE a \in box
  <2>1. Outbox!Release(a)
    BY <1>1 DEF Outbox!Release
  <2> QED BY <2>1 DEF Outbox!Next, TypeOK
<1>2. CASE a \notin box
  BY <1>2, OutboxStutters
<1> QED BY <1>1, <1>2

LEMMA OutboxStep ==
  ASSUME QueueInv, [Next]_vars
  PROVE  [Outbox!Next]_Outbox!vars
<1>0. TypeOK /\ (\A t \in Tasks : TaskGood(task[t]))
  BY DEF QueueInv, TasksGood
<1>1. ASSUME NEW t \in Tasks, NEW a \in Audits, SaveAuditOffline(t, a)
      PROVE  [Outbox!Next]_Outbox!vars
  <2>1. Outbox!Accept(a)
    BY <1>1 DEF SaveAuditOffline, Outbox!Accept
  <2> QED BY <2>1 DEF Outbox!Next
<1>2. ASSUME NEW t \in Tasks, NEW a \in Audits, UploadCommits(t, a)
      PROVE  [Outbox!Next]_Outbox!vars
  <2>1. a \in saved
    BY <1>0, <1>2 DEF UploadCommits, TaskGood, SyncPhase
  <2> QED BY <1>0, <1>2, <2>1, OutboxDelivers DEF UploadCommits, store, history
<1>3. ASSUME NEW t \in Tasks, RetryCommits(t)
      PROVE  [Outbox!Next]_Outbox!vars
  <2>1. task[t].audit \in saved
    BY <1>0, <1>3 DEF RetryCommits, TaskGood
  <2> QED BY <1>0, <1>3, <2>1, OutboxDelivers DEF RetryCommits, store, history
<1>4. ASSUME NEW t \in Tasks, UploadConfirmed(t) \/ RetryConfirmed(t)
      PROVE  [Outbox!Next]_Outbox!vars
  <2>1. task[t].audit \in saved /\ logs[task[t].audit] > 0
    BY <1>0, <1>4, SMTT(30) DEF UploadConfirmed, RetryConfirmed, TaskGood
  <2> QED BY <1>0, <1>4, <2>1, OutboxReleases DEF UploadConfirmed, RetryConfirmed, history
<1>5. ASSUME NEW t \in Tasks,
             \/ UpdatePendingCount(t) \/ TrySyncIfOnline(t)
             \/ SyncNothing(t) \/ SyncOnlyFailed(t) \/ SyncBegins(t)
             \/ \E a \in Audits : UploadFails(t, a)
             \/ Report(t) \/ EndOfPause(t) \/ SyncFinishes(t)
             \/ RetryFailed(t) \/ RetryBroken(t) \/ RetryNext(t) \/ RetryFails(t)
             \/ RetryRewrites(t) \/ ReplyLost(t) \/ DeleteFails(t) \/ PutFails(t)
      PROVE  [Outbox!Next]_Outbox!vars
  BY <1>5, OutboxStutters
     DEF UpdatePendingCount, TrySyncIfOnline, SyncNothing, SyncOnlyFailed, SyncBegins,
         UploadFails, EntryFailed, Report, EndOfPause, SyncFinishes, RetryFailed,
         RetryBroken, RetryNext, RetryFails, StillFailed, RetryRewrites, ReplyLost,
         DeleteFails, PutFails, store, history
<1>6. CASE ConnectivityChanged \/ Crash \/ UNCHANGED vars
  BY <1>6, OutboxStutters DEF ConnectivityChanged, Crash, vars, store, history
<1> QED BY <1>1, <1>2, <1>3, <1>4, <1>5, <1>6 DEF Next, TaskStep

\* The queue implements the outbox: every step is an accept, a delivery, a release of
\* a delivered audit, or none of these (the property ImplementsOutbox).
THEOREM QueueImplementsOutbox == Spec => ImplementsOutbox
<1>1. Spec => Outbox!Init
  BY OutboxInit DEF Spec
<1>2. QueueInv /\ [Next]_vars => [Outbox!Next]_Outbox!vars
  BY OutboxStep
<1> QED BY <1>1, <1>2, QueueInvariant, PTL DEF Spec, ImplementsOutbox, Outbox!Spec

-----------------------------------------------------------------------------
(* Runs that do not overlap                                                *)

\* What a run holds, when no other one takes from the box or writes the status: it counts
\* no failure without an id, and it sends only what waits and has not failed.
RunGood(r) ==
    r.pc \notin {"idle", "count", "check", "open"} =>
        /\ r.todo \cap r.failedIds = {}
        /\ r.failed <= Cardinality(r.failedIds)
        /\ status.synced <= r.synced
        /\ r.pc \in SyncPhase => r.todo \subseteq box
        /\ r.pc \in {"sent", "resend", "resent"} => r.audit \in box \ (r.todo \cup r.failedIds)

RunsGood == \A t \in Tasks : RunGood(task[t])

\* The disk has an id for every failure it counts, and the status that get returns has no
\* less; only a running sync shares its list with it.
StoreGood ==
    /\ diskFailed \subseteq status.failedIds
    /\ status.failed <= Cardinality(diskFailed)
    /\ owner # NoTask => /\ task[owner].pc \in SyncPhase
                         /\ status.failedIds \subseteq task[owner].failedIds

\* An activity that waits to hear of its commit, or to delete what it sent.
InFlight(t, a) == task[t].pc \in {"sent", "resent"} /\ task[t].audit = a

\* What waits and is not in flight has no log that is not paid for.
LogsPaid ==
    /\ DuplicatesPaidFor
    /\ \A a \in box : (\A t \in Tasks : ~InFlight(t, a)) => logs[a] <= charged[a]
    /\ \A a \in Audits \ saved : logs[a] = 0

\* main.dart: while the guard is down the listener's sync is over.
GuardHeld == ~isSyncing => task[Listener].pc = "idle"

SerialInv == QueueInv /\ GuardHeld /\ Serial /\ RunsGood /\ StoreGood /\ LogsPaid

LEMMA GuardStep ==
  ASSUME TypeOK, GuardHeld, [Next]_vars
  PROVE  GuardHeld'
<1>0. Listener \in Tasks /\ Listener \notin Callers /\ task \in [Tasks -> TaskState]
  BY ConstantsAssumption DEF Tasks, TypeOK
<1>1. ASSUME NEW t \in Tasks, End(t) PROVE GuardHeld'
  BY <1>0, <1>1 DEF End, GuardHeld, Idle
<1>2. ASSUME NEW t \in Tasks, task[t].pc # "idle" \/ t \in Callers,
             UNCHANGED isSyncing, \A u \in Tasks : u = t \/ task'[u] = task[u]
      PROVE  GuardHeld'
  BY <1>0, <1>2 DEF GuardHeld
<1>3. ASSUME NEW t \in Tasks, TaskStep(t) PROVE GuardHeld'
  <2>1. CASE UpdatePendingCount(t) \/ SyncBegins(t) \/ EndOfPause(t) \/ UploadConfirmed(t)
             \/ RetryCommits(t) \/ RetryConfirmed(t) \/ RetryNext(t)
             \/ \E a \in Audits : UploadCommits(t, a)
    BY <1>0, <1>2, <2>1 DEF UpdatePendingCount, SyncBegins, EndOfPause, UploadConfirmed,
         RetryCommits, RetryConfirmed, RetryNext, UploadCommits
  <2>2. CASE SyncNothing(t) \/ SyncOnlyFailed(t) \/ SyncFinishes(t) \/ RetryBroken(t)
             \/ RetryRewrites(t)
    BY <1>1, <2>2 DEF SyncNothing, SyncOnlyFailed, SyncFinishes, RetryBroken, RetryRewrites
  <2>3. CASE TrySyncIfOnline(t)
    <3>1. CASE task' = [task EXCEPT ![t].pc = "open"] /\ UNCHANGED isSyncing
      BY <1>0, <1>2, <2>3, <3>1 DEF TrySyncIfOnline
    <3> QED BY <1>1, <2>3, <3>1 DEF TrySyncIfOnline
  <2>4. CASE Report(t) \/ RetryFails(t) \/ \E a \in Audits : UploadFails(t, a)
    BY <1>0, <1>2, <2>4 DEF Report, RetryFails, UploadFails, EntryFailed, RecordEntry, StillFailed
  <2> QED BY <1>3, <2>1, <2>2, <2>3, <2>4 DEF TaskStep
<1>4. ASSUME NEW t \in Tasks, ReplyLost(t) \/ DeleteFails(t) PROVE GuardHeld'
  BY <1>0, <1>2, <1>4 DEF ReplyLost, DeleteFails, EntryFailed, RecordEntry, StillFailed
<1>5. ASSUME NEW t \in Tasks, PutFails(t) PROVE GuardHeld'
  BY <1>1, <1>5 DEF PutFails
<1>6. ASSUME NEW t \in Tasks, RetryFailed(t) \/ \E a \in Audits : SaveAuditOffline(t, a)
      PROVE  GuardHeld'
  BY <1>0, <1>2, <1>6 DEF RetryFailed, SaveAuditOffline
<1>7. CASE ConnectivityChanged \/ UNCHANGED vars
  BY <1>7 DEF ConnectivityChanged, vars, GuardHeld
<1>8. CASE Crash
  BY <1>0, <1>8 DEF Crash, GuardHeld, Idle
<1> QED BY <1>3, <1>4, <1>5, <1>6, <1>7, <1>8 DEF Next

LEMMA SerialFacts ==
  ASSUME SerialInv, NEW t \in Tasks
  PROVE  /\ TypeOK /\ task[t] \in TaskState /\ task \in [Tasks -> TaskState]
         /\ TaskGood(task[t]) /\ RunGood(task[t])
         /\ Running(t) => \A u \in Tasks : u = t \/ ~Running(u)
         /\ NoTask \notin Tasks
BY ConstantsAssumption
   DEF SerialInv, QueueInv, TasksGood, RunsGood, Serial, TypeOK

LEMMA FewerIds ==
  ASSUME NEW S \in SUBSET Audits, NEW T \in SUBSET S
  PROVE  Cardinality(T) <= Cardinality(S) /\ Cardinality(S) \in Nat /\ Cardinality(T) \in Nat
<1>1. IsFiniteSet(S)
  BY ConstantsAssumption, FS_Subset
<1>2. IsFiniteSet(T) /\ Cardinality(T) <= Cardinality(S)
  BY <1>1, FS_Subset
<1> QED BY <1>1, <1>2, FS_CardinalityType

LEMMA OneMoreId ==
  ASSUME NEW S \in SUBSET Audits, NEW a \in Audits \ S
  PROVE  Cardinality(S \cup {a}) = Cardinality(S) + 1 /\ Cardinality(S) \in Nat
<1>1. IsFiniteSet(S)
  BY ConstantsAssumption, FS_Subset
<1> QED BY <1>1, FS_AddElement, FS_CardinalityType

\* The owner of the shared list is a running sync.
LEMMA OwnerRuns ==
  ASSUME SerialInv, NEW t \in Tasks
  PROVE  /\ owner = t => /\ task[t].pc \in SyncPhase
                         /\ status.failedIds \subseteq task[t].failedIds
         /\ owner = t => Running(t)
         /\ Running(t) => owner \in {t, NoTask}
<1>1. TypeOK /\ NoTask \notin Tasks /\ StoreGood /\ Serial
  BY ConstantsAssumption DEF SerialInv, QueueInv
<1>2. ASSUME NEW u \in Tasks, owner = u
      PROVE  /\ task[u].pc \in SyncPhase /\ Running(u)
             /\ status.failedIds \subseteq task[u].failedIds
  BY <1>1, <1>2 DEF StoreGood, Running, SyncPhase
<1>3. owner \in Tasks \cup {NoTask}
  BY <1>1 DEF TypeOK
<1> QED BY <1>1, <1>2, <1>3 DEF Serial

\* A step of t leaves the other runs as they are.
LEMMA RunsFrame ==
  ASSUME SerialInv, NEW t \in Tasks, \A u \in Tasks : u = t \/ task'[u] = task[u],
         Running(t) \/ (box \subseteq box' /\ status'.synced = status.synced),
         RunGood(task[t])'
  PROVE  RunsGood'
<1>1. ASSUME NEW u \in Tasks, u # t PROVE RunGood(task[u])'
  <2>1. task'[u] = task[u] /\ RunGood(task[u])
    BY <1>1, SerialFacts
  <2>2. CASE Running(t)
    <3>1. ~Running(u)
      BY <1>1, <2>2, SerialFacts
    <3> QED BY <2>1, <3>1 DEF RunGood, Running
  <2>3. CASE box \subseteq box' /\ status'.synced = status.synced
    BY <2>1, <2>3 DEF RunGood
  <2> QED BY <2>2, <2>3
<1> QED BY <1>1 DEF RunsGood

\* A step of t that writes no status.
LEMMA StoreFrame ==
  ASSUME SerialInv, NEW t \in Tasks, \A u \in Tasks : u = t \/ task'[u] = task[u],
         UNCHANGED <<status, diskFailed, owner>>,
         Running(t) => task'[t].pc \in SyncPhase \/ task[t].pc \notin SyncPhase,
         Running(t) => task[t].failedIds \subseteq task'[t].failedIds
  PROVE  StoreGood' /\ SyncedGrows
<1>1. TypeOK /\ StoreGood
  BY DEF SerialInv, QueueInv
<1>2. SyncedGrows
  BY <1>1 DEF SyncedGrows, TypeOK, SyncStatus
<1>3. ASSUME owner # NoTask
      PROVE  /\ task'[owner].pc \in SyncPhase
             /\ status.failedIds \subseteq task'[owner].failedIds
  <2>1. owner \in Tasks
    BY <1>1, <1>3 DEF TypeOK
  <2>2. CASE owner = t
    BY <2>1, <2>2, OwnerRuns
  <2>3. CASE owner # t
    BY <1>1, <1>3, <2>1, <2>3 DEF StoreGood
  <2> QED BY <2>2, <2>3
<1> QED BY <1>1, <1>2, <1>3 DEF StoreGood

\* A step that writes the status, and whose list is then nobody's.
LEMMA PutFrame ==
  ASSUME SerialInv, NEW s \in SyncStatus, Put(s, NoTask),
         s.failed <= Cardinality(s.failedIds), s.synced >= status.synced
  PROVE  StoreGood' /\ SyncedGrows
<1>1. /\ diskFailed' = s.failedIds /\ status'.failedIds = s.failedIds
      /\ status'.failed = s.failed /\ status'.synced = s.synced /\ owner' = NoTask
  BY DEF Put, SyncStatus
<1> QED BY <1>1 DEF StoreGood, SyncedGrows

\* A step that takes no audit out of flight without a fault to pay for it.
LEMMA LogsFrame ==
  ASSUME SerialInv, TypeOK', logs' = logs, saved \subseteq saved',
         \A a \in Audits : charged'[a] >= charged[a],
         box' \subseteq box \cup {a \in Audits : logs[a] = 0},
         \A a \in box', u \in Tasks :
             InFlight(u, a) => InFlight(u, a)' \/ charged'[a] >= charged[a] + 1
  PROVE  LogsPaid'
<1>1. TypeOK /\ LogsPaid
  BY DEF SerialInv, QueueInv
<1>2. \A a \in Audits : logs[a] \in Nat /\ charged[a] \in Nat /\ charged'[a] \in Nat
  BY <1>1 DEF TypeOK
<1>3. DuplicatesPaidFor'
  BY <1>1, <1>2 DEF LogsPaid, DuplicatesPaidFor
<1>4. ASSUME NEW a \in box', \A u \in Tasks : ~InFlight(u, a)'
      PROVE  logs[a] <= charged'[a]
  <2>0. a \in Audits
    BY <1>1 DEF TypeOK
  <2>1. CASE logs[a] = 0
    BY <1>2, <2>0, <2>1
  <2>2. CASE a \in box /\ \E u \in Tasks : InFlight(u, a)
    <3>1. charged'[a] >= charged[a] + 1
      BY <1>4, <2>2
    <3>2. logs[a] <= 1 + charged[a]
      BY <1>1, <2>0 DEF LogsPaid, DuplicatesPaidFor
    <3> QED BY <1>2, <2>0, <3>1, <3>2
  <2>3. CASE a \in box /\ \A u \in Tasks : ~InFlight(u, a)
    <3>1. logs[a] <= charged[a] /\ charged'[a] >= charged[a]
      BY <1>1, <2>0, <2>3 DEF LogsPaid
    <3> QED BY <1>2, <2>0, <3>1
  <2> QED BY <2>1, <2>2, <2>3
<1> QED BY <1>1, <1>3, <1>4 DEF LogsPaid

\* What a step owes, beside QueueInv and Serial.
SerialKept == RunsGood' /\ StoreGood' /\ LogsPaid' /\ SyncedGrows

\* The end of an iteration: r holds what the run holds, and the list only grew.
LEMMA RecordKeeps ==
  ASSUME SerialInv, NEW t \in Tasks, NEW r \in TaskState, RecordEntry(t, r), box' = box,
         task[t].pc \in SyncPhase, task[t].failedIds \subseteq r.failedIds,
         r.todo \cap r.failedIds = {}, r.failed <= Cardinality(r.failedIds),
         status.synced <= r.synced, r.todo \subseteq box
  PROVE  /\ RunsGood' /\ StoreGood' /\ SyncedGrows
         /\ \A u \in Tasks : u = t \/ task'[u] = task[u]
<1>1. /\ Running(t) /\ TypeOK /\ task \in [Tasks -> TaskState] /\ NoTask \notin Tasks
      /\ status \in SyncStatus
  BY SerialFacts DEF Running, SyncPhase, TypeOK
<1>2. /\ task'[t] = Advance(r)
      /\ \A u \in Tasks : u = t \/ task'[u] = task[u]
  BY <1>1 DEF RecordEntry
<1>3. /\ task'[t].todo = r.todo /\ task'[t].failedIds = r.failedIds
      /\ task'[t].failed = r.failed /\ task'[t].synced = r.synced
      /\ task'[t].pc \in {"finish", "pause", "send"}
  <2> DEFINE p == IF r.todo = {} THEN "finish"
                  ELSE IF r.inBatch + 1 = BatchSize THEN "pause" ELSE "send"
  <2>1. p \in {"finish", "pause", "send"}
    OBVIOUS
  <2>2. task'[t] = [r EXCEPT !.audit = NoAudit, !.inBatch = r.inBatch + 1, !.pc = p]
    BY <1>2 DEF Advance
  <2> HIDE DEF p
  <2> QED BY <2>1, <2>2 DEF TaskState
<1>4. CASE StatusDue(r) /\ Put(ProgressStatus(r), t)
  <2>1. /\ ProgressStatus(r) \in SyncStatus
        /\ ProgressStatus(r).synced = r.synced /\ ProgressStatus(r).failed = r.failed
        /\ ProgressStatus(r).failedIds = r.failedIds
    <3>1. ProgressStatus(r) \in SyncStatus
      BY <1>1, ProgressType
    <3> QED BY <1>1, <3>1 DEF ProgressStatus, SyncStatus
  <2>2. /\ status'.synced = r.synced /\ status'.failed = r.failed
        /\ status'.failedIds = r.failedIds /\ diskFailed' = r.failedIds /\ owner' = t
    BY <1>4, <2>1 DEF Put, SyncStatus
  <2>3. RunGood(task[t])'
    BY <1>3, <2>2 DEF RunGood, TaskState
  <2>4. StoreGood'
    BY <1>1, <1>3, <2>2 DEF StoreGood, SyncPhase
  <2> QED BY <1>1, <1>2, <2>2, <2>3, <2>4, RunsFrame DEF SyncedGrows
<1>5. CASE ~StatusDue(r) /\ status' = Shared(t, r) /\ UNCHANGED <<diskFailed, owner>>
  <2>1. StoreGood /\ owner \in {t, NoTask} /\ (owner = t => status.failedIds \subseteq r.failedIds)
    BY <1>1, OwnerRuns DEF SerialInv
  <2>2. /\ status'.synced = status.synced /\ status'.failed = status.failed
        /\ status'.failedIds = IF owner = t THEN r.failedIds ELSE status.failedIds
    BY <1>1, <1>5 DEF Shared, SyncStatus
  <2>3. RunGood(task[t])'
    BY <1>3, <2>2 DEF RunGood
  <2>4. StoreGood'
    BY <1>1, <1>3, <1>5, <2>1, <2>2 DEF StoreGood, SyncPhase
  <2>5. SyncedGrows
    BY <1>1, <2>2 DEF SyncedGrows, SyncStatus
  <2> QED BY <1>1, <1>2, <2>3, <2>4, <2>5, RunsFrame
<1> QED BY <1>2, <1>4, <1>5 DEF RecordEntry

\* The same, for an entry that failed.
LEMMA FailureKeeps ==
  ASSUME SerialInv, NEW t \in Tasks, NEW r \in TaskState, NEW a \in Audits,
         EntryFailed(t, a, r), task[t].pc \in SyncPhase,
         r.todo = task[t].todo, r.failed = task[t].failed,
         r.failedIds = task[t].failedIds, r.synced >= task[t].synced,
         a \notin task[t].failedIds
  PROVE  /\ RunsGood' /\ StoreGood' /\ SyncedGrows
         /\ \A u \in Tasks : u = t \/ task'[u] = task[u]
<1> DEFINE w == WithFailed(r, a)
<1>1. /\ TypeOK /\ task[t] \in TaskState /\ status \in SyncStatus
      /\ RunGood(task[t])
  BY SerialFacts DEF TypeOK
<1>2. /\ task[t].todo \cap task[t].failedIds = {}
      /\ task[t].failed <= Cardinality(task[t].failedIds)
      /\ status.synced <= task[t].synced
      /\ task[t].todo \subseteq box
  BY <1>1 DEF RunGood, SyncPhase
<1>3. /\ w \in TaskState
      /\ w.todo = r.todo \ {a} /\ w.failed = r.failed + 1
      /\ w.failedIds = r.failedIds \cup {a} /\ w.synced = r.synced
  BY WithFailedType DEF WithFailed, TaskState
<1>4. w.failed <= Cardinality(w.failedIds)
  <2>1. task[t].failedIds \in SUBSET Audits /\ a \in Audits \ task[t].failedIds
    BY <1>1 DEF TaskState
  <2>2. /\ Cardinality(task[t].failedIds \cup {a}) = Cardinality(task[t].failedIds) + 1
        /\ Cardinality(task[t].failedIds) \in Nat
    BY <2>1, OneMoreId
  <2>3. task[t].failed \in Nat
    BY <1>1 DEF TaskState
  <2> QED BY <1>2, <1>3, <2>2, <2>3
<1>5. status.synced <= w.synced
  BY <1>1, <1>2, <1>3 DEF TaskState, SyncStatus
<1>6. /\ RecordEntry(t, w) /\ box' = box
      /\ w.todo \cap w.failedIds = {} /\ w.todo \subseteq box
      /\ task[t].failedIds \subseteq w.failedIds
  BY <1>2, <1>3 DEF EntryFailed
<1> HIDE DEF w
<1> QED BY <1>3, <1>4, <1>5, <1>6, RecordKeeps

\* A step of an activity that is not running, and that writes no status.
LEMMA StartKeeps ==
  ASSUME SerialInv, TypeOK', NEW t \in Tasks, ~Running(t),
         \A u \in Tasks : u = t \/ task'[u] = task[u],
         UNCHANGED <<status, diskFailed, owner, logs, charged>>,
         saved \subseteq saved', box \subseteq box',
         box' \subseteq box \cup {a \in Audits : logs[a] = 0},
         RunGood(task[t])'
  PROVE  SerialKept
<1>1. TypeOK
  BY SerialFacts
<1>2. RunsGood'
  BY RunsFrame
<1>3. StoreGood' /\ SyncedGrows
  BY StoreFrame
<1>4. LogsPaid'
  <2>1. \A a \in Audits : charged'[a] >= charged[a]
    BY <1>1 DEF TypeOK
  <2>2. ASSUME NEW a \in box', NEW u \in Tasks, InFlight(u, a) PROVE InFlight(u, a)'
    BY <2>2 DEF InFlight, Running
  <2> QED BY <2>1, <2>2, LogsFrame
<1> QED BY <1>2, <1>3, <1>4 DEF SerialKept

\* The same, when it writes a status with the list it found.
LEMMA StartPuts ==
  ASSUME SerialInv, TypeOK', NEW t \in Tasks, ~Running(t),
         \A u \in Tasks : u = t \/ task'[u] = task[u],
         ~Running(t)',
         NEW s \in SyncStatus, Put(s, owner),
         s.failedIds = status.failedIds, s.failed = status.failed, s.synced = status.synced,
         UNCHANGED <<box, saved, logs, charged>>
  PROVE  SerialKept
<1>1. TypeOK /\ StoreGood /\ status \in SyncStatus
  BY SerialFacts DEF TypeOK, SerialInv
<1>2. /\ diskFailed' = status.failedIds /\ status'.failedIds = status.failedIds
      /\ status'.failed = status.failed /\ status'.synced = status.synced /\ owner' = owner
  BY DEF Put, SyncStatus
<1>3. RunsGood'
  <2>1. RunGood(task[t])'
    BY DEF RunGood, Running
  <2> QED BY <1>2, <2>1, RunsFrame
<1>4. StoreGood'
  <2>1. status.failed <= Cardinality(status.failedIds)
    <3>1. /\ Cardinality(diskFailed) <= Cardinality(status.failedIds)
          /\ Cardinality(diskFailed) \in Nat /\ Cardinality(status.failedIds) \in Nat
      BY <1>1, FewerIds DEF StoreGood, SyncStatus
    <3>2. status.failed \in Nat /\ status.failed <= Cardinality(diskFailed)
      BY <1>1 DEF StoreGood, SyncStatus
    <3> QED BY <3>1, <3>2
  <2>2. ASSUME owner # NoTask
        PROVE  /\ task'[owner].pc \in SyncPhase
               /\ status.failedIds \subseteq task'[owner].failedIds
    <3>1. owner \in Tasks /\ owner # t
      BY <1>1, <2>2, OwnerRuns DEF TypeOK
    <3> QED BY <1>1, <2>2, <3>1 DEF StoreGood
  <2> QED BY <1>2, <2>1, <2>2 DEF StoreGood
<1>5. SyncedGrows
  BY <1>1, <1>2 DEF SyncedGrows, SyncStatus
<1>6. LogsPaid'
  <2>1. \A a \in Audits : charged'[a] >= charged[a]
    BY <1>1 DEF TypeOK
  <2>2. ASSUME NEW a \in box', NEW u \in Tasks, InFlight(u, a) PROVE InFlight(u, a)'
    BY <2>2 DEF InFlight, Running
  <2> QED BY <2>1, <2>2, LogsFrame
<1> QED BY <1>3, <1>4, <1>5, <1>6 DEF SerialKept

\* A run that is told of its commit, or that has nothing in flight, takes what it
\* deletes out of the box: no log is left unpaid.
LEMMA RunLogs ==
  ASSUME SerialInv, TypeOK', NEW t \in Tasks,
         \A u \in Tasks : u = t \/ task'[u] = task[u],
         UNCHANGED <<saved, logs, charged>>, box' \subseteq box,
         task[t].pc \in {"sent", "resent"} => task[t].audit \notin box'
  PROVE  LogsPaid'
<1>1. \A a \in Audits : charged'[a] >= charged[a]
  BY SerialFacts DEF TypeOK
<1>2. ASSUME NEW a \in box', NEW u \in Tasks, InFlight(u, a) PROVE InFlight(u, a)'
  BY <1>2 DEF InFlight
<1> QED BY <1>1, <1>2, LogsFrame

\* A fault that hits an audit in flight is charged to it.
LEMMA FaultLogs ==
  ASSUME SerialInv, TypeOK', NEW t \in Tasks,
         task[t].pc \in {"sent", "resent"}, task[t].audit \in Audits,
         \A u \in Tasks : u = t \/ task'[u] = task[u],
         UNCHANGED <<box, saved, logs>>, Charge(task[t].audit)
  PROVE  LogsPaid'
<1>1. TypeOK
  BY SerialFacts
<1>2. \A a \in Audits : /\ charged'[a] >= charged[a]
                        /\ a = task[t].audit => charged'[a] = charged[a] + 1
  BY <1>1 DEF TypeOK, Charge
<1>3. ASSUME NEW a \in box', NEW u \in Tasks, InFlight(u, a)
      PROVE  InFlight(u, a)' \/ charged'[a] >= charged[a] + 1
  <2>1. a \in Audits /\ charged[a] \in Nat
    BY <1>1 DEF TypeOK
  <2>2. CASE u = t
    BY <1>2, <1>3, <2>1, <2>2 DEF InFlight
  <2>3. CASE u # t
    BY <1>3, <2>3 DEF InFlight
  <2> QED BY <2>2, <2>3
<1> QED BY <1>2, <1>3, LogsFrame

\* A commit: one log more for an audit that had none unpaid, and that is in flight now.
LEMMA CommitLogs ==
  ASSUME SerialInv, TypeOK', NEW t \in Tasks, NEW a \in box,
         Running(t), task[t].pc \notin {"sent", "resent"},
         \A u \in Tasks : u = t \/ task'[u] = task[u],
         task'[t].pc \in {"sent", "resent"}, task'[t].audit = a,
         UNCHANGED <<box, saved, charged>>, logs' = [logs EXCEPT ![a] = @ + 1]
  PROVE  LogsPaid'
<1>1. /\ TypeOK /\ LogsPaid /\ a \in Audits /\ a \in saved
      /\ \A b \in Audits : logs[b] \in Nat /\ charged[b] \in Nat
  BY SerialFacts DEF SerialInv, TypeOK, QueueInv
<1>2. \A u \in Tasks, b \in Audits : ~InFlight(u, b)
  BY SerialFacts DEF InFlight, Running
<1>3. logs[a] <= charged[a]
  BY <1>1, <1>2 DEF LogsPaid
<1>4. \A b \in Audits : logs'[b] = IF b = a THEN logs[b] + 1 ELSE logs[b]
  BY <1>1 DEF TypeOK
<1>5. DuplicatesPaidFor'
  BY <1>1, <1>3, <1>4 DEF LogsPaid, DuplicatesPaidFor
<1>6. ASSUME NEW b \in box', \A u \in Tasks : ~InFlight(u, b)'
      PROVE  logs'[b] <= charged'[b]
  <2>1. b # a
    BY <1>6 DEF InFlight
  <2>2. b \in box /\ b \in Audits
    BY <1>1 DEF TypeOK
  <2>3. logs[b] <= charged[b]
    BY <1>1, <1>2, <2>2 DEF LogsPaid
  <2> QED BY <1>4, <2>1, <2>2, <2>3
<1>7. \A b \in Audits \ saved' : logs'[b] = 0
  BY <1>1, <1>4 DEF LogsPaid
<1> QED BY <1>5, <1>6, <1>7 DEF LogsPaid

LEMMA BeforeRunKeeps ==
  ASSUME SerialInv, TypeOK', NEW t \in Tasks
  PROVE  /\ (\E a \in Audits : SaveAuditOffline(t, a)) => SerialKept
         /\ UpdatePendingCount(t) => SerialKept
         /\ TrySyncIfOnline(t) => SerialKept
         /\ SyncNothing(t) => SerialKept
         /\ SyncOnlyFailed(t) => SerialKept
         /\ SyncBegins(t) => SerialKept
         /\ RetryFailed(t) => SerialKept
<1>0. /\ TypeOK /\ task \in [Tasks -> TaskState] /\ status \in SyncStatus
      /\ StoreGood /\ LogsPaid /\ Idle \in TaskState
  BY SerialFacts, InitTypes DEF SerialInv, TypeOK
<1>1. ASSUME NEW a \in Audits, SaveAuditOffline(t, a) PROVE SerialKept
  <2>1. /\ ~Running(t) /\ RunGood(task[t])'
        /\ \A u \in Tasks : u = t \/ task'[u] = task[u]
    BY <1>0, <1>1 DEF SaveAuditOffline, Running, RunGood, TaskState
  <2>2. logs[a] = 0
    BY <1>0, <1>1 DEF SaveAuditOffline, LogsPaid
  <2> QED BY <1>1, <2>1, <2>2, StartKeeps DEF SaveAuditOffline, aliases
<1>2. ASSUME UpdatePendingCount(t) PROVE SerialKept
  <2> DEFINE s == [status EXCEPT !.total = Cardinality(box),
                       !.remaining = Cardinality(box) - status.synced - status.failed,
                       !.isCompleted = (box = {})]
  <2>1. /\ ~Running(t) /\ ~Running(t)'
        /\ \A u \in Tasks : u = t \/ task'[u] = task[u]
    BY <1>0, <1>2 DEF UpdatePendingCount, Running, TaskState
  <2>2. s \in SyncStatus
    <3>1. Cardinality(box) \in Nat /\ (box = {}) \in BOOLEAN
      BY <1>0, BoxCount
    <3>2. Cardinality(box) - status.synced - status.failed \in Int
      BY <1>0, <3>1 DEF SyncStatus
    <3> QED BY <1>0, <3>1, <3>2 DEF SyncStatus
  <2>3. /\ s.failedIds = status.failedIds /\ s.failed = status.failed
        /\ s.synced = status.synced
    BY <1>0 DEF SyncStatus
  <2>4. Put(s, owner) /\ UNCHANGED <<box, saved, logs, charged>>
    BY <1>2 DEF UpdatePendingCount, history
  <2> HIDE DEF s
  <2> QED BY <2>1, <2>2, <2>3, <2>4, StartPuts
<1>3. ASSUME TrySyncIfOnline(t) PROVE SerialKept
  <2>1. /\ ~Running(t) /\ RunGood(task[t])'
        /\ \A u \in Tasks : u = t \/ task'[u] = task[u]
    <3>1. CASE task' = [task EXCEPT ![t].pc = "open"]
      BY <1>0, <1>3, <3>1 DEF TrySyncIfOnline, Running, RunGood, TaskState
    <3>2. CASE End(t)
      BY <1>0, <1>3, <3>2 DEF TrySyncIfOnline, End, Running, RunGood, Idle
    <3> QED BY <1>3, <3>1, <3>2 DEF TrySyncIfOnline
  <2> QED BY <1>3, <2>1, StartKeeps DEF TrySyncIfOnline, store, aliases, history
<1>4. ASSUME SyncNothing(t) PROVE SerialKept
  <2>1. /\ ~Running(t) /\ RunGood(task[t])'
        /\ \A u \in Tasks : u = t \/ task'[u] = task[u]
    BY <1>0, <1>4 DEF SyncNothing, End, Running, RunGood, Idle
  <2> QED BY <1>4, <2>1, StartKeeps DEF SyncNothing, store, history
<1>5. ASSUME SyncOnlyFailed(t) PROVE SerialKept
  <2> DEFINE s == [status EXCEPT !.isCompleted = TRUE, !.remaining = 0]
  <2>1. /\ ~Running(t) /\ ~Running(t)'
        /\ \A u \in Tasks : u = t \/ task'[u] = task[u]
    BY <1>0, <1>5 DEF SyncOnlyFailed, End, Running, Idle
  <2>2. s \in SyncStatus
    <3>1. 0 \in Int /\ TRUE \in BOOLEAN
      OBVIOUS
    <3> QED BY <1>0, <3>1 DEF SyncStatus
  <2>3. /\ s.failedIds = status.failedIds /\ s.failed = status.failed
        /\ s.synced = status.synced
    BY <1>0 DEF SyncStatus
  <2>4. Put(s, owner) /\ UNCHANGED <<box, saved, logs, charged>>
    BY <1>5 DEF SyncOnlyFailed, history
  <2> HIDE DEF s
  <2> QED BY <2>1, <2>2, <2>3, <2>4, StartPuts
<1>6. /\ status.failed <= Cardinality(status.failedIds)
      /\ status.synced <= status.synced
  <2>1. /\ Cardinality(diskFailed) <= Cardinality(status.failedIds)
        /\ Cardinality(diskFailed) \in Nat /\ Cardinality(status.failedIds) \in Nat
    BY <1>0, FewerIds DEF StoreGood, SyncStatus
  <2>2. status.failed \in Nat /\ status.failed <= Cardinality(diskFailed) /\ status.synced \in Nat
    BY <1>0 DEF StoreGood, SyncStatus
  <2> QED BY <2>1, <2>2
<1>7. ASSUME SyncBegins(t) PROVE SerialKept
  <2>1. /\ ~Running(t)
        /\ \A u \in Tasks : u = t \/ task'[u] = task[u]
        /\ task'[t].pc = "send" /\ task'[t].todo = box \ status.failedIds
        /\ task'[t].failedIds = status.failedIds
        /\ task'[t].failed = status.failed /\ task'[t].synced = status.synced
    BY <1>0, <1>7 DEF SyncBegins, Running, Idle, PendingItems
  <2>2. RunGood(task[t])'
    BY <1>6, <1>7, <2>1 DEF RunGood, SyncBegins, store
  <2> QED BY <1>7, <2>1, <2>2, StartKeeps DEF SyncBegins, store, aliases, history
<1>8. ASSUME RetryFailed(t) PROVE SerialKept
  <2>1. /\ ~Running(t)
        /\ \A u \in Tasks : u = t \/ task'[u] = task[u]
        /\ task'[t].pc = "next" /\ task'[t].failedIds = {}
        /\ task'[t].failed = 0 /\ task'[t].synced = status.synced
    BY <1>0, <1>8 DEF RetryFailed, Running, Idle
  <2>2. RunGood(task[t])'
    <3>1. Cardinality({}) = 0
      BY FS_EmptySet
    <3> QED BY <1>6, <1>8, <2>1, <3>1 DEF RunGood, RetryFailed, store, SyncPhase
  <2> QED BY <1>8, <2>1, <2>2, StartKeeps DEF RetryFailed, store, history
<1> QED BY <1>1, <1>2, <1>3, <1>4, <1>5, <1>7, <1>8

LEMMA SyncRunKeeps ==
  ASSUME SerialInv, TypeOK', NEW t \in Tasks
  PROVE  /\ (\E a \in Audits : UploadCommits(t, a)) => SerialKept
         /\ (\E a \in Audits : UploadFails(t, a)) => SerialKept
         /\ UploadConfirmed(t) => SerialKept
         /\ Report(t) => SerialKept
         /\ EndOfPause(t) => SerialKept
         /\ SyncFinishes(t) => SerialKept
<1>0. /\ TypeOK /\ task \in [Tasks -> TaskState] /\ status \in SyncStatus
      /\ task[t] \in TaskState
  BY SerialFacts DEF TypeOK
<1>1. ASSUME task[t].pc \in SyncPhase
      PROVE  /\ task[t].todo \cap task[t].failedIds = {}
             /\ task[t].failed <= Cardinality(task[t].failedIds)
             /\ status.synced <= task[t].synced
             /\ task[t].todo \subseteq box
             /\ task[t].pc = "sent" =>
                   task[t].audit \in box \ (task[t].todo \cup task[t].failedIds)
             /\ Running(t)
  BY <1>1, SerialFacts DEF RunGood, Running, SyncPhase
<1>2. ASSUME NEW a \in Audits, UploadCommits(t, a) PROVE SerialKept
  <2>1. task[t].pc \in SyncPhase /\ task[t].pc = "send" /\ a \in task[t].todo
    BY <1>2 DEF UploadCommits, SyncPhase
  <2>2. /\ \A u \in Tasks : u = t \/ task'[u] = task[u]
        /\ task'[t].pc = "sent" /\ task'[t].audit = a
        /\ task'[t].todo = task[t].todo \ {a}
        /\ task'[t].failedIds = task[t].failedIds
        /\ task'[t].failed = task[t].failed /\ task'[t].synced = task[t].synced
    BY <1>0, <1>2 DEF UploadCommits, TaskState
  <2>3. RunGood(task[t])'
    BY <1>1, <1>2, <2>1, <2>2 DEF RunGood, UploadCommits, store
  <2>4. RunsGood'
    BY <1>1, <2>1, <2>2, <2>3, RunsFrame
  <2>5. StoreGood' /\ SyncedGrows
    BY <1>2, <2>2, StoreFrame DEF UploadCommits, store, aliases, SyncPhase
  <2>6. LogsPaid'
    BY <1>1, <1>2, <2>1, <2>2, CommitLogs DEF UploadCommits, store, history
  <2> QED BY <2>4, <2>5, <2>6 DEF SerialKept
<1>3. ASSUME NEW a \in Audits, UploadFails(t, a) PROVE SerialKept
  <2>1. /\ task[t].pc \in SyncPhase /\ task[t].pc = "send" /\ a \in task[t].todo
        /\ EntryFailed(t, a, task[t])
    BY <1>3 DEF UploadFails, SyncPhase
  <2>2. a \notin task[t].failedIds /\ task[t].synced >= task[t].synced
    BY <1>0, <1>1, <2>1 DEF TaskState
  <2>3. /\ RunsGood' /\ StoreGood' /\ SyncedGrows
        /\ \A u \in Tasks : u = t \/ task'[u] = task[u]
    BY <1>0, <2>1, <2>2, FailureKeeps
  <2>4. LogsPaid'
    BY <1>3, <2>1, <2>3, RunLogs DEF UploadFails, EntryFailed
  <2> QED BY <2>3, <2>4 DEF SerialKept
<1>4. ASSUME UploadConfirmed(t) PROVE SerialKept
  <2>1. task[t].pc \in SyncPhase /\ task[t].pc = "sent"
    BY <1>4 DEF UploadConfirmed, SyncPhase
  <2>2. /\ \A u \in Tasks : u = t \/ task'[u] = task[u]
        /\ task'[t].pc = "report" /\ task'[t].todo = task[t].todo
        /\ task'[t].failedIds = task[t].failedIds
        /\ task'[t].failed = task[t].failed /\ task'[t].synced = task[t].synced + 1
    BY <1>0, <1>4 DEF UploadConfirmed, TaskState
  <2>3. status.synced <= task'[t].synced
    BY <1>0, <1>1, <2>1, <2>2 DEF TaskState, SyncStatus
  <2>4. RunGood(task[t])'
    BY <1>1, <1>4, <2>1, <2>2, <2>3 DEF RunGood, UploadConfirmed
  <2>5. RunsGood'
    BY <1>1, <2>1, <2>2, <2>4, RunsFrame
  <2>6. StoreGood' /\ SyncedGrows
    BY <1>4, <2>2, StoreFrame DEF UploadConfirmed, aliases, SyncPhase
  <2>7. LogsPaid'
    BY <1>4, <2>2, RunLogs DEF UploadConfirmed, history
  <2> QED BY <2>5, <2>6, <2>7 DEF SerialKept
<1>5. ASSUME Report(t) PROVE SerialKept
  <2>1. /\ task[t].pc \in SyncPhase /\ task[t].pc = "report"
        /\ RecordEntry(t, task[t]) /\ UNCHANGED <<box, saved, logs, charged>>
    BY <1>5 DEF Report, SyncPhase, history
  <2>2. /\ RunsGood' /\ StoreGood' /\ SyncedGrows
        /\ \A u \in Tasks : u = t \/ task'[u] = task[u]
    BY <1>0, <1>1, <2>1, RecordKeeps
  <2>3. LogsPaid'
    BY <2>1, <2>2, RunLogs
  <2> QED BY <2>2, <2>3 DEF SerialKept
<1>6. ASSUME EndOfPause(t) PROVE SerialKept
  <2>1. task[t].pc \in SyncPhase /\ task[t].pc = "pause"
    BY <1>6 DEF EndOfPause, SyncPhase
  <2>2. /\ \A u \in Tasks : u = t \/ task'[u] = task[u]
        /\ task'[t].pc = "send" /\ task'[t].todo = task[t].todo
        /\ task'[t].failedIds = task[t].failedIds
        /\ task'[t].failed = task[t].failed /\ task'[t].synced = task[t].synced
    BY <1>0, <1>6 DEF EndOfPause, TaskState
  <2>3. RunGood(task[t])'
    BY <1>1, <1>6, <2>1, <2>2 DEF RunGood, EndOfPause, store
  <2>4. RunsGood'
    BY <1>1, <2>1, <2>2, <2>3, RunsFrame
  <2>5. StoreGood' /\ SyncedGrows
    BY <1>6, <2>2, StoreFrame DEF EndOfPause, store, aliases, SyncPhase
  <2>6. LogsPaid'
    BY <1>6, <2>1, <2>2, RunLogs DEF EndOfPause, store, history
  <2> QED BY <2>4, <2>5, <2>6 DEF SerialKept
<1>7. ASSUME SyncFinishes(t) PROVE SerialKept
  <2> DEFINE s == [status EXCEPT !.total = task[t].total, !.synced = task[t].synced,
                       !.failed = task[t].failed, !.failedIds = task[t].failedIds,
                       !.remaining = 0, !.isCompleted = TRUE]
  <2>1. task[t].pc \in SyncPhase /\ task[t].pc = "finish"
    BY <1>7 DEF SyncFinishes, SyncPhase
  <2>2. \A u \in Tasks : u = t \/ task'[u] = task[u]
    BY <1>0, <1>7 DEF SyncFinishes, End
  <2>3. RunGood(task[t])'
    BY <1>0, <1>7 DEF SyncFinishes, End, RunGood, Idle
  <2>4. RunsGood'
    BY <1>1, <2>1, <2>2, <2>3, RunsFrame
  <2>5. s \in SyncStatus
    <3>1. /\ task[t].total \in Nat /\ task[t].synced \in Nat /\ task[t].failed \in Nat
          /\ task[t].failedIds \in SUBSET Audits
          /\ 0 \in Int /\ TRUE \in BOOLEAN
      BY <1>0 DEF TaskState
    <3> QED BY <1>0, <3>1, Zenon DEF SyncStatus
  <2>6. /\ s.failed = task[t].failed /\ s.failedIds = task[t].failedIds
        /\ s.synced = task[t].synced
    BY <1>0 DEF SyncStatus
  <2>7. s.failed <= Cardinality(s.failedIds) /\ s.synced >= status.synced
    BY <1>0, <1>1, <2>1, <2>6 DEF TaskState, SyncStatus
  <2>8. Put(s, NoTask)
    BY <1>7 DEF SyncFinishes
  <2> HIDE DEF s
  <2>9. StoreGood' /\ SyncedGrows
    BY <2>5, <2>7, <2>8, PutFrame
  <2>10. LogsPaid'
    BY <1>7, <2>1, <2>2, RunLogs DEF SyncFinishes, history
  <2> QED BY <2>4, <2>9, <2>10 DEF SerialKept
<1> QED BY <1>2, <1>3, <1>4, <1>5, <1>6, <1>7

\* A retry goes on: its lists say what they said, and nothing is written.
LEMMA RetryMoves ==
  ASSUME SerialInv, TypeOK', NEW t \in Tasks, Running(t), task[t].pc \notin SyncPhase,
         \A u \in Tasks : u = t \/ task'[u] = task[u],
         task[t].failedIds \subseteq task'[t].failedIds,
         RunGood(task[t])', LogsPaid',
         UNCHANGED <<status, diskFailed, owner>>
  PROVE  SerialKept
BY RunsFrame, StoreFrame DEF SerialKept

\* What a retry that fails owes: the id it adds was not there.
LEMMA StillFailedKeeps ==
  ASSUME SerialInv, TypeOK', NEW t \in Tasks, task[t].pc \in {"resend", "resent"},
         StillFailed(t), LogsPaid'
  PROVE  SerialKept
<1>0. /\ TypeOK /\ task \in [Tasks -> TaskState] /\ task[t] \in TaskState
      /\ RunGood(task[t]) /\ Running(t) /\ task[t].pc \notin SyncPhase
  BY SerialFacts DEF Running, SyncPhase
<1>1. /\ task[t].todo \cap task[t].failedIds = {}
      /\ task[t].failed <= Cardinality(task[t].failedIds)
      /\ status.synced <= task[t].synced
      /\ task[t].audit \in box \ (task[t].todo \cup task[t].failedIds)
  BY <1>0 DEF RunGood
<1>2. /\ \A u \in Tasks : u = t \/ task'[u] = task[u]
      /\ task'[t].pc = "next" /\ task'[t].todo = task[t].todo
      /\ task'[t].failedIds = task[t].failedIds \cup {task[t].audit}
      /\ task'[t].failed = task[t].failed + 1 /\ task'[t].synced = task[t].synced
  BY <1>0 DEF StillFailed, TaskState
<1>3. task'[t].failed <= Cardinality(task'[t].failedIds)
  <2>1. /\ task[t].failedIds \in SUBSET Audits
        /\ task[t].audit \in Audits \ task[t].failedIds
        /\ task[t].failed \in Nat
    BY <1>0, <1>1 DEF TaskState, TypeOK
  <2>2. /\ Cardinality(task[t].failedIds \cup {task[t].audit})
             = Cardinality(task[t].failedIds) + 1
        /\ Cardinality(task[t].failedIds) \in Nat
    BY <2>1, OneMoreId
  <2> QED BY <1>1, <1>2, <2>1, <2>2
<1>4. RunGood(task[t])'
  BY <1>1, <1>2, <1>3 DEF RunGood, StillFailed, store, SyncPhase
<1> QED BY <1>0, <1>2, <1>4, RetryMoves DEF StillFailed, store, aliases

LEMMA RetryKeeps ==
  ASSUME SerialInv, TypeOK', NEW t \in Tasks
  PROVE  /\ RetryBroken(t) => SerialKept
         /\ RetryNext(t) => SerialKept
         /\ RetryCommits(t) => SerialKept
         /\ RetryConfirmed(t) => SerialKept
         /\ RetryFails(t) => SerialKept
         /\ RetryRewrites(t) => SerialKept
<1>0. /\ TypeOK /\ task \in [Tasks -> TaskState] /\ status \in SyncStatus
      /\ task[t] \in TaskState /\ NoTask \notin Tasks
  BY SerialFacts DEF TypeOK
<1>1. ASSUME task[t].pc \in {"next", "resend", "resent", "rewrite"}
      PROVE  /\ task[t].todo \cap task[t].failedIds = {}
             /\ task[t].failed <= Cardinality(task[t].failedIds)
             /\ status.synced <= task[t].synced
             /\ task[t].pc \in {"resend", "resent"} =>
                   task[t].audit \in box \ (task[t].todo \cup task[t].failedIds)
             /\ Running(t) /\ task[t].pc \notin SyncPhase
             /\ owner # t
  BY <1>0, <1>1, SerialFacts, OwnerRuns DEF RunGood, Running, SyncPhase
<1>2. ASSUME RetryBroken(t) PROVE SerialKept
  <2>1. /\ task[t].pc = "next" /\ \A u \in Tasks : u = t \/ task'[u] = task[u]
        /\ RunGood(task[t])'
    BY <1>0, <1>2 DEF RetryBroken, End, RunGood, Idle
  <2>2. RunsGood'
    BY <1>1, <2>1, RunsFrame
  <2>3. StoreGood /\ UNCHANGED <<status, diskFailed, owner>> /\ owner \in Tasks \cup {NoTask}
    BY <1>0, <1>2 DEF RetryBroken, store, SerialInv, TypeOK
  <2>4. StoreGood' /\ SyncedGrows
    <3>1. owner # NoTask => task'[owner] = task[owner]
      BY <1>1, <2>1, <2>3
    <3> QED BY <1>0, <2>3, <3>1 DEF StoreGood, SyncedGrows, SyncStatus
  <2>5. LogsPaid'
    BY <1>2, <2>1, RunLogs DEF RetryBroken, store, history
  <2> QED BY <2>2, <2>4, <2>5 DEF SerialKept
<1>3. ASSUME RetryNext(t) PROVE SerialKept
  <2>1. task[t].pc = "next" /\ UNCHANGED <<store, owner, logs, history>>
    BY <1>3, ZenonT(40) DEF RetryNext, aliases
  <2> DEFINE Moved ==
        /\ \A u \in Tasks : u = t \/ task'[u] = task[u]
        /\ task'[t].failedIds = task[t].failedIds
        /\ task'[t].failed = task[t].failed /\ task'[t].synced = task[t].synced
        /\ task'[t].todo \subseteq task[t].todo
        /\ task'[t].pc \notin SyncPhase /\ task'[t].pc # "sent"
        /\ task'[t].pc \in {"resend", "resent"} =>
              /\ task'[t].audit \in box
              /\ task'[t].audit \in task[t].todo \ task'[t].todo
  <2>2. Moved
    <3>1. CASE task' = [task EXCEPT ![t].pc = "rewrite"]
      BY <1>0, <3>1 DEF TaskState, SyncPhase
    <3>2. ASSUME NEW a \in task[t].todo,
                 task' = [task EXCEPT ![t].todo = @ \ {a},
                                      ![t].pc = IF a \in box THEN "resend" ELSE "next",
                                      ![t].audit = IF a \in box THEN a ELSE NoAudit]
          PROVE  Moved
      <4>1. CASE a \in box
        BY <1>0, <3>2, <4>1 DEF TaskState, SyncPhase
      <4>2. CASE a \notin box
        BY <1>0, <3>2, <4>2 DEF TaskState, SyncPhase
      <4> QED BY <4>1, <4>2
    <3> QED BY <1>3, <3>1, <3>2 DEF RetryNext
  <2>3. RunGood(task[t])'
    BY <1>1, <2>1, <2>2 DEF RunGood, store
  <2>4. LogsPaid'
    BY <2>1, <2>2, RunLogs DEF store, history
  <2> QED BY <1>1, <2>1, <2>2, <2>3, <2>4, RetryMoves DEF store
<1>4. ASSUME RetryCommits(t) PROVE SerialKept
  <2>1. task[t].pc = "resend" /\ UNCHANGED <<store, owner, history>>
    BY <1>4 DEF RetryCommits, aliases
  <2>2. /\ \A u \in Tasks : u = t \/ task'[u] = task[u]
        /\ task'[t].pc = "resent" /\ task'[t].audit = task[t].audit
        /\ task'[t].todo = task[t].todo /\ task'[t].failedIds = task[t].failedIds
        /\ task'[t].failed = task[t].failed /\ task'[t].synced = task[t].synced
    BY <1>0, <1>4 DEF RetryCommits, TaskState
  <2>3. RunGood(task[t])'
    BY <1>1, <2>1, <2>2 DEF RunGood, store, SyncPhase
  <2>4. LogsPaid'
    BY <1>1, <1>4, <2>1, <2>2, CommitLogs DEF RetryCommits, store, history
  <2> QED BY <1>1, <2>1, <2>2, <2>3, <2>4, RetryMoves DEF store
<1>5. ASSUME RetryConfirmed(t) PROVE SerialKept
  <2>1. /\ task[t].pc = "resent" /\ UNCHANGED <<status, diskFailed, owner, logs, history>>
        /\ box' = box \ {task[t].audit}
    BY <1>5 DEF RetryConfirmed, aliases
  <2>2. /\ \A u \in Tasks : u = t \/ task'[u] = task[u]
        /\ task'[t].pc = "next"
        /\ task'[t].todo = task[t].todo /\ task'[t].failedIds = task[t].failedIds
        /\ task'[t].failed = task[t].failed /\ task'[t].synced = task[t].synced + 1
    BY <1>0, <1>5 DEF RetryConfirmed, TaskState
  <2>3. status.synced <= task'[t].synced
    BY <1>0, <1>1, <2>1, <2>2 DEF TaskState, SyncStatus
  <2>4. RunGood(task[t])'
    BY <1>1, <2>1, <2>2, <2>3 DEF RunGood, SyncPhase
  <2>5. LogsPaid'
    BY <2>1, <2>2, RunLogs DEF history
  <2> QED BY <1>1, <2>1, <2>2, <2>4, <2>5, RetryMoves
<1>6. ASSUME RetryFails(t) PROVE SerialKept
  <2>1. /\ task[t].pc = "resend" /\ StillFailed(t) /\ UNCHANGED <<box, saved, logs, charged>>
    BY <1>6 DEF RetryFails, StillFailed, store
  <2>2. \A u \in Tasks : u = t \/ task'[u] = task[u]
    BY <1>0, <2>1 DEF StillFailed
  <2>3. LogsPaid'
    BY <2>1, <2>2, RunLogs
  <2> QED BY <2>1, <2>3, StillFailedKeeps
<1>7. ASSUME RetryRewrites(t) PROVE SerialKept
  <2> DEFINE s == [status EXCEPT !.total = task[t].total, !.remaining = task[t].remaining,
                          !.synced = task[t].synced, !.failed = task[t].failed,
                          !.failedIds = task[t].failedIds,
                          !.isCompleted = (task[t].failed = 0)]
  <2>1. task[t].pc = "rewrite" /\ Put(s, NoTask) /\ UNCHANGED <<box, saved, logs, charged>>
    BY <1>7 DEF RetryRewrites, history
  <2>2. /\ \A u \in Tasks : u = t \/ task'[u] = task[u]
        /\ RunGood(task[t])'
    BY <1>0, <1>7 DEF RetryRewrites, End, RunGood, Idle
  <2>3. RunsGood'
    BY <1>1, <2>1, <2>2, RunsFrame
  <2>4. s \in SyncStatus
    <3>1. /\ task[t].total \in Nat /\ task[t].synced \in Nat /\ task[t].failed \in Nat
          /\ task[t].remaining \in Int
          /\ task[t].failedIds \in SUBSET Audits /\ (task[t].failed = 0) \in BOOLEAN
      BY <1>0 DEF TaskState
    <3> QED BY <1>0, <3>1, Zenon DEF SyncStatus
  <2>5. /\ s.failed = task[t].failed /\ s.failedIds = task[t].failedIds
        /\ s.synced = task[t].synced
    BY <1>0 DEF SyncStatus
  <2>6. s.failed <= Cardinality(s.failedIds) /\ s.synced >= status.synced
    BY <1>0, <1>1, <2>1, <2>5 DEF TaskState, SyncStatus
  <2> HIDE DEF s
  <2>7. StoreGood' /\ SyncedGrows
    BY <2>1, <2>4, <2>6, PutFrame
  <2>8. LogsPaid'
    BY <2>1, <2>2, RunLogs
  <2> QED BY <2>3, <2>7, <2>8 DEF SerialKept
<1> QED BY <1>2, <1>3, <1>4, <1>5, <1>6, <1>7

LEMMA FaultKeeps ==
  ASSUME SerialInv, TypeOK', NEW t \in Tasks
  PROVE  /\ ReplyLost(t) \/ DeleteFails(t) => SerialKept
         /\ PutFails(t) => SerialKept
<1>0. /\ TypeOK /\ task \in [Tasks -> TaskState] /\ status \in SyncStatus
      /\ task[t] \in TaskState /\ NoTask \notin Tasks /\ StoreGood
      /\ owner \in Tasks \cup {NoTask}
  BY SerialFacts DEF SerialInv, TypeOK
<1>1. ASSUME ReplyLost(t) \/ DeleteFails(t) PROVE SerialKept
  <2>1. /\ task[t].pc \in {"sent", "resent"} /\ Charge(task[t].audit)
        /\ task[t].audit \in Audits
    BY <1>0, <1>1, SerialFacts DEF ReplyLost, DeleteFails, TaskGood, TypeOK
  <2>2. CASE StillFailed(t) /\ task[t].pc = "resent"
    <3>1. UNCHANGED <<box, saved, logs>> /\ \A u \in Tasks : u = t \/ task'[u] = task[u]
      BY <1>0, <2>2 DEF StillFailed, store
    <3>2. LogsPaid'
      BY <2>1, <3>1, FaultLogs
    <3> QED BY <2>2, <3>2, StillFailedKeeps
  <2>3. ASSUME NEW r \in {task[t], [task[t] EXCEPT !.synced = @ + 1]},
               task[t].pc = "sent", EntryFailed(t, task[t].audit, r)
        PROVE  SerialKept
    <3>1. /\ r \in TaskState /\ r.todo = task[t].todo /\ r.failed = task[t].failed
          /\ r.failedIds = task[t].failedIds /\ r.synced >= task[t].synced
      BY <1>0 DEF TaskState
    <3>2. task[t].pc \in SyncPhase /\ task[t].audit \notin task[t].failedIds
      BY <2>3, SerialFacts DEF SyncPhase, RunGood
    <3>3. /\ RunsGood' /\ StoreGood' /\ SyncedGrows
          /\ \A u \in Tasks : u = t \/ task'[u] = task[u]
      BY <2>1, <2>3, <3>1, <3>2, FailureKeeps
    <3>4. LogsPaid'
      BY <2>1, <2>3, <3>3, FaultLogs DEF EntryFailed
    <3> QED BY <3>3, <3>4 DEF SerialKept
  <2> QED BY <1>1, <2>2, <2>3 DEF ReplyLost, DeleteFails
<1>2. ASSUME PutFails(t) PROVE SerialKept
  <2>1. /\ UNCHANGED <<box, diskFailed, saved, logs, charged>>
        /\ owner' = (IF owner = t THEN NoTask ELSE owner)
        /\ task[t].pc \notin {"sent", "resent"}
        /\ \A u \in Tasks : u = t \/ task'[u] = task[u]
        /\ task'[t].pc = "idle"
    BY <1>0, <1>2 DEF PutFails, End, Idle, history
  <2>2. /\ status'.synced = status.synced /\ status'.failed = status.failed
        /\ status.failedIds \subseteq status'.failedIds
        /\ owner # t => status' = status
    <3>1. CASE UNCHANGED status
      BY <3>1
    <3>2. ASSUME NEW a \in task[t].todo, task[t].pc = "send",
                 status' = Shared(t, WithFailed(task[t], a))
          PROVE  <2>2
      <4>1. WithFailed(task[t], a).failedIds = task[t].failedIds \cup {a}
        BY <1>0 DEF WithFailed, TaskState
      <4>2. owner = t => status.failedIds \subseteq task[t].failedIds
        BY OwnerRuns
      <4> QED BY <1>0, <3>2, <4>1, <4>2 DEF Shared, SyncStatus
    <3> QED BY <1>2, <3>1, <3>2 DEF PutFails
  <2>3. RunsGood'
    <3>1. RunGood(task[t])'
      BY <2>1 DEF RunGood
    <3> QED BY <2>1, <2>2, <3>1, RunsFrame
  <2>4. StoreGood'
    BY <1>0, <2>1, <2>2 DEF StoreGood
  <2>5. SyncedGrows
    BY <1>0, <2>2 DEF SyncedGrows, SyncStatus
  <2>6. LogsPaid'
    BY <2>1, RunLogs
  <2> QED BY <2>3, <2>4, <2>5, <2>6 DEF SerialKept
<1> QED BY <1>1, <1>2

\* A restart reads the list that the disk holds, which has an id for every failure.
LEMMA CrashKeeps ==
  ASSUME SerialInv, TypeOK', Crash
  PROVE  SerialKept
<1>1. TypeOK /\ StoreGood /\ LogsPaid /\ status \in SyncStatus
  BY DEF SerialInv, QueueInv, TypeOK
<1>2. RunsGood'
  BY DEF Crash, RunsGood, RunGood, Idle
<1>3. StoreGood' /\ SyncedGrows
  BY <1>1 DEF Crash, StoreGood, SyncedGrows, SyncStatus
<1>4. LogsPaid'
  <2>1. \A a \in Audits : charged'[a] >= charged[a]
    BY <1>1 DEF Crash, TypeOK
  <2>2. ASSUME NEW a \in box', NEW u \in Tasks, InFlight(u, a)
        PROVE  charged'[a] >= charged[a] + 1
    <3>1. a \in Audits /\ charged[a] \in Nat
      BY <1>1 DEF Crash, TypeOK
    <3> QED BY <2>2, <3>1 DEF Crash, InFlight
  <2> QED BY <2>1, <2>2, LogsFrame DEF Crash
<1> QED BY <1>2, <1>3, <1>4 DEF SerialKept

LEMMA SerialStep ==
  ASSUME SerialInv, [Next /\ Serial']_vars
  PROVE  SerialInv' /\ SyncedGrows
<1>1. QueueInv' /\ TypeOK'
  BY QueueStep, TypeStep DEF SerialInv
<1>0. TypeOK /\ GuardHeld'
  BY GuardStep DEF SerialInv, QueueInv
<1>2. CASE UNCHANGED vars
  <2>1. UNCHANGED <<box, status, diskFailed, owner, task, logs, saved, charged>>
    BY <1>2 DEF vars, store, aliases, history
  <2>2. RunsGood' /\ StoreGood' /\ Serial'
    BY <2>1 DEF SerialInv, RunsGood, RunGood, StoreGood, Serial, Running
  <2>3. LogsPaid'
    BY <2>1 DEF SerialInv, LogsPaid, DuplicatesPaidFor, InFlight
  <2>4. SyncedGrows
    BY <2>1 DEF SyncedGrows, SerialInv, QueueInv, TypeOK, SyncStatus
  <2> QED BY <1>0, <1>1, <2>2, <2>3, <2>4 DEF SerialInv
<1>3. CASE Next /\ Serial'
  <2>1. ASSUME NEW t \in Tasks, TaskStep(t) PROVE SerialKept
    BY <1>1, <2>1, BeforeRunKeeps, SyncRunKeeps, RetryKeeps DEF TaskStep
  <2>2. ASSUME NEW t \in Tasks, NEW a \in Audits, SaveAuditOffline(t, a) PROVE SerialKept
    BY <1>1, <2>2, BeforeRunKeeps
  <2>3. ASSUME NEW t \in Tasks, RetryFailed(t) PROVE SerialKept
    BY <1>1, <2>3, BeforeRunKeeps
  <2>4. ASSUME NEW t \in Tasks, ReplyLost(t) \/ DeleteFails(t) \/ PutFails(t)
        PROVE  SerialKept
    BY <1>1, <2>4, FaultKeeps
  <2>5. ASSUME ConnectivityChanged PROVE SerialKept
    <3>1. Listener \in Tasks /\ task \in [Tasks -> TaskState]
      BY SerialFacts DEF Tasks, SerialInv, QueueInv, TypeOK
    <3>2. UNCHANGED <<box, status, diskFailed, owner, logs, saved, charged>>
      BY <2>5 DEF ConnectivityChanged, store, aliases, history
    <3>3. CASE UNCHANGED task
      <4>1. RunsGood' /\ StoreGood'
        BY <3>2, <3>3 DEF SerialInv, RunsGood, RunGood, StoreGood
      <4>2. LogsPaid'
        BY <3>2, <3>3 DEF SerialInv, LogsPaid, DuplicatesPaidFor, InFlight
      <4>3. SyncedGrows
        BY <3>2 DEF SyncedGrows, SerialInv, QueueInv, TypeOK, SyncStatus
      <4> QED BY <4>1, <4>2, <4>3 DEF SerialKept
    <3>4. CASE task' = [task EXCEPT ![Listener].pc = "open"]
      <4>1. /\ \A u \in Tasks : u = Listener \/ task'[u] = task[u]
            /\ task'[Listener].pc = "open"
        BY <3>1, <3>4 DEF TaskState
      <4>2. ~Running(Listener) /\ RunGood(task[Listener])'
        <5>1. task[Listener].pc \in {"idle", "open"}
          BY <2>5, <4>1 DEF ConnectivityChanged, SerialInv, GuardHeld
        <5> QED BY <4>1, <5>1 DEF RunGood, Running
      <4> QED BY <1>1, <3>1, <3>2, <4>1, <4>2, StartKeeps
    <3> QED BY <2>5, <3>3, <3>4 DEF ConnectivityChanged
  <2>6. ASSUME Crash PROVE SerialKept
    BY <1>1, <2>6, CrashKeeps
  <2> QED BY <1>0, <1>1, <1>3, <2>1, <2>2, <2>3, <2>4, <2>5, <2>6
         DEF Next, SerialKept, SerialInv
<1> QED BY <1>2, <1>3

LEMMA SerialStart == Init => SerialInv
<1> SUFFICES ASSUME Init PROVE SerialInv
  OBVIOUS
<1>1. QueueInv
  BY QueueInit
<1>2. GuardHeld /\ Serial /\ RunsGood
  BY DEF Init, GuardHeld, Serial, Running, RunsGood, RunGood, Idle, Tasks
<1>3. StoreGood
  <2>1. Cardinality({}) = 0
    BY FS_EmptySet
  <2> QED BY <2>1 DEF Init, StoreGood, DefaultStatus
<1>4. LogsPaid
  BY DEF Init, LogsPaid, DuplicatesPaidFor
<1> QED BY <1>1, <1>2, <1>3, <1>4 DEF SerialInv

LEMMA SerialInvariant == SerialSpec => []SerialInv
BY SerialStart, SerialStep, PTL DEF SerialSpec

\* If runs do not overlap, an audit has no log too many that no fault pays for: the
\* property DuplicatesPaidFor.
THEOREM DuplicatesArePaid == SerialSpec => []DuplicatesPaidFor
<1>1. SerialInv => DuplicatesPaidFor
  BY DEF SerialInv, LogsPaid
<1> QED BY <1>1, SerialInvariant, PTL

\* If runs do not overlap, a retry finds an id for every failure that is shown, also
\* after a restart or a failed write of the status: the property FailuresKept.
THEOREM FailuresAreKept == SerialSpec => []FailuresKept
<1>1. SerialInv => FailuresKept
  <2> SUFFICES ASSUME SerialInv PROVE status.failed <= Cardinality(status.failedIds)
    BY DEF FailuresKept
  <2>1. StoreGood /\ status \in SyncStatus
    BY DEF SerialInv, QueueInv, TypeOK
  <2>2. /\ Cardinality(diskFailed) <= Cardinality(status.failedIds)
        /\ Cardinality(diskFailed) \in Nat /\ Cardinality(status.failedIds) \in Nat
    BY <2>1, FewerIds DEF StoreGood, SyncStatus
  <2>3. status.failed \in Nat /\ status.failed <= Cardinality(diskFailed)
    BY <2>1 DEF StoreGood, SyncStatus
  <2> QED BY <2>2, <2>3
<1> QED BY <1>1, SerialInvariant, PTL

\* If runs do not overlap, the number of audits shown as synced never goes back: the
\* property SyncedNeverDecreases.
THEOREM SyncedNeverGoesBack == SerialSpec => SyncedNeverDecreases
<1>1. SerialInv /\ [Next /\ Serial']_vars => [SyncedGrows]_vars
  BY SerialStep
<1> QED BY <1>1, SerialInvariant, PTL DEF SerialSpec, SyncedNeverDecreases

=============================================================================
