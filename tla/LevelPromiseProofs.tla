------------------------- MODULE LevelPromiseProofs -------------------------
(* Proof that LevelStore implements DurableStore: what was acknowledged stays  *)
(* when the process dies, and what was synced also when the machine does.      *)
EXTENDS LevelStoreProofs

-----------------------------------------------------------------------------
(* The inductive invariant: where an acknowledged batch is to be found.        *)

\* What a crash of the machine leaves of a log, at least; and the batches of the log that
\* are there as surely as their writer was told.
InSynced(l) == UNION {logs[l].recs[i] : i \in 1 .. logs[l].synced}
Secured(l) == {b \in InLog(l) : b[1] \in SyncWriters => b \in InSynced(l)}

\* The acknowledged batches of a set.
Acked(S) == {b \in S : b[1] \in Acknowledged}

\* What a recovery finds if the manifest ends with its edit n.
FoundTables(n) == Contents(TablesOf(Prefix(n)))
Found(n) == FoundTables(n) \cup UNION {Secured(l) : l \in LogsFrom(Current[n].log)}

\* A writer in the queue waits for its answer, and stands there once.
QueueInv ==
    /\ \A i \in 1 .. Len(queue) : pc[queue[i]] = "queued"
    /\ \A i, j \in 1 .. Len(queue) : queue[i] = queue[j] => i = j
    /\ \A w \in Writers : pc[w] # "done" => result[w] = "none"
    /\ up # "up" => queue = <<>>

\* The group is the first of the queue, and synced if one of them asked for it.
GroupInv ==
    lead.phase \in {"log", "sync", "insert"} =>
        /\ 1 <= Len(lead.group) /\ lead.group = SubSeq(queue, 1, Len(lead.group))
        /\ Head(queue) \in SyncWriters
             \/ \A i \in 1 .. Len(lead.group) : lead.group[i] \notin SyncWriters

\* What is stored, or was acknowledged unread, comes from a call that ended, but for the
\* batches that are being written.
AskedInv ==
    /\ unread \subseteq Batch
    /\ \A b \in Stored \cup unread : b \in Writing \/ pc[b[1]] \in {"done", "gone"}
    /\ \A b \in InMemory \cup Contents(Needed) : pc[b[1]] \in {"done", "gone"}

\* The record of the group is in the log, synced before the insertion if it has to be;
\* or it is behind a torn one, and counted as unread.
RecordInv ==
    lead.phase \in {"sync", "insert"} =>
        IF logs[version.logfile].torn THEN Numbered \subseteq unread
        ELSE /\ Numbered \cap unread = {} /\ Numbered \subseteq InLog(version.logfile)
             /\ lead.phase = "insert" /\ Synced => Numbered \subseteq InSynced(version.logfile)

\* The last log is the one that is written.
LastLogInv ==
    /\ current = 0 => DOMAIN logs = {}
    /\ up = "logs" => version.log < version.next
    /\ up = "newlog" => \A l \in DOMAIN logs : l < version.next
    /\ up \in {"manifest", "current"} \/ Running =>
          version.logfile \in DOMAIN logs /\ \A l \in DOMAIN logs : l <= version.logfile

\* Before the first opening is done nothing was asked for; after it CURRENT names the
\* second manifest or a later one.
FirstInv ==
    /\ current \in {0, 1} => Stored = {} /\ \A w \in Writers : pc[w] = "idle"
    /\ Running => current > 1

\* What an opening is about to install is what it found.
OpeningInv ==
    /\ up \in {"newlog", "manifest", "current"} =>
          /\ version.tables = TablesOf(Current)
          /\ Contents(bg.edit.add) = UNION {InLog(l) : l \in LogsFrom(Last(Current).log)}
    /\ up \in {"manifest", "current", "clean"} =>
          InLog(version.logfile) = {} /\ ~logs[version.logfile].torn
    /\ up = "clean" => Last(Current).log = version.logfile

\* What the edit of a flush or a merge replaces has what it adds.
EditInv ==
    /\ merge # NoMerge => /\ merge.inputs \subseteq version.tables
                          /\ tables[merge.num] = Contents(merge.inputs)
    /\ bg.phase \in {"write", "sync"} =>
          \/ /\ bg.of = "flush" /\ imm # NoTable
             /\ Contents(bg.edit.add) = imm /\ bg.edit.del = {}
             /\ bg.edit.log = version.logfile
          \/ /\ bg.of = "merge" /\ merge # NoMerge
             /\ bg.edit.add = {merge.num} /\ bg.edit.del = merge.inputs
             /\ bg.edit.log = version.log
    /\ bg.phase = "sync" /\ behind = "nothing" =>
          bg.edit.add \subseteq TablesOf(Current) /\ Last(Current) = bg.edit

\* A log that will be removed is one that no recovery reads.
GarbageInv ==
    \A x \in garbage : x[1] = "log" =>
        x[2] < version.log /\ \A n \in Lengths \ {0} : x[2] < Current[n].log

\* Where the process has what was acknowledged: each memtable in its logs, what is in
\* older logs in tables, and the tables in those of the manifest, unless that cannot be
\* continued; then nothing is removed.
PlacesInv ==
    Running =>
        /\ Acked(mem) \subseteq Secured(version.logfile)
        /\ Acked(imm \ NoTable) \subseteq UNION {Secured(l) : l \in LogsFrom(version.log)}
        /\ \A l \in DOMAIN logs : l < version.logfile =>
              Acked(InLog(l)) \subseteq (imm \ NoTable) \cup Contents(version.tables)
        /\ \A l \in DOMAIN logs : l < version.log =>
              Acked(InLog(l)) \subseteq Contents(version.tables)
        /\ behind = "nothing" => Contents(version.tables) \subseteq Contents(TablesOf(Current))

\* What was acknowledged is visible wherever it is stored, and found with every end of
\* the manifest that a crash may leave; only a crash of the machine lost any, and none
\* that was synced.
KeptInv ==
    /\ Acked(Stored) \subseteq Visible
    /\ \A n \in Lengths \ {0} :
          /\ Acked(Visible) \subseteq Found(n)
          /\ \A l \in DOMAIN logs : l < Current[n].log =>
                Acked(InLog(l)) \subseteq FoundTables(n)
    /\ Acknowledged \cap SyncWriters \subseteq WritersOf(Visible)
    /\ Acknowledged \ lost \subseteq WritersOf(Visible)

PromiseInv ==
    /\ QueueInv /\ GroupInv /\ AskedInv /\ RecordInv /\ LastLogInv /\ FirstInv
    /\ OpeningInv /\ EditInv /\ GarbageInv /\ PlacesInv /\ KeptInv

-----------------------------------------------------------------------------
(* What each kind of step leaves alone.                                        *)

Dies == Crash \/ MachineCrash \/ Closed
Others == (\E w \in Writers : Enqueue(w)) \/ Pin \/ Unpin \/ Close \/ UNCHANGED storeVars

LEMMA StepKinds ==
    ASSUME [StoreNext]_storeVars
    PROVE  WriteStep \/ BackgroundStep \/ OpenStep \/ Dies \/ Others
BY DEF StoreNext, Dies, Others

LEMMA WriteFrame ==
    ASSUME StoreIInv, WriteStep
    PROVE  /\ up \in {"up", "closing"} /\ Running
           /\ UNCHANGED <<up, pinned, bg, merge, garbage, tables, manifests, current, behind, lost>>
           /\ ~AddRecord => unread' = unread
           /\ ~SwitchMemTable => imm' = imm /\ (~InsertInto => mem' = mem)
           /\ ~SwitchMemTable /\ ~AddRecord /\ ~AddRecordFails /\ ~SyncLog => logs' = logs
           /\ version'.tables = version.tables /\ version'.log = version.log
           /\ ~SwitchMemTable => version'.logfile = version.logfile
<1>1. up \in {"up", "closing"}
  <2>1. lead.phase # "none" \/ queue # <<>>
    BY DEF WriteStep, AtFront, RoomError, RoomFound, SwitchMemTable, SwitchFails, AddRecord,
           AddRecordFails, SyncLog, SyncLogFails, InsertInto, Switches
  <2> QED BY <2>1 DEF StoreIInv, PhasesInv, NoLead
<1>2. UNCHANGED <<up, pinned, bg, merge, garbage, tables, manifests, current, behind, lost>>
  BY DEF WriteStep, AtFront, RoomError, RoomFound, SwitchMemTable, SwitchFails, AddRecord,
         AddRecordFails, SyncLog, SyncLogFails, InsertInto, disk
<1>3. /\ ~AddRecord => unread' = unread
      /\ ~SwitchMemTable => imm' = imm /\ (~InsertInto => mem' = mem)
      /\ ~SwitchMemTable /\ ~AddRecord /\ ~AddRecordFails /\ ~SyncLog => logs' = logs
  BY DEF WriteStep, AtFront, RoomError, RoomFound, SwitchMemTable, SwitchFails, AddRecord,
         AddRecordFails, SyncLog, SyncLogFails, InsertInto, disk
<1>4. \/ version' = version \/ version' = [version EXCEPT !.last = @ + GroupCount]
      \/ SwitchMemTable /\ version' = [version EXCEPT !.logfile = version.next, !.next = @ + 1]
  BY DEF WriteStep, AtFront, RoomError, RoomFound, SwitchMemTable, SwitchFails, AddRecord,
         AddRecordFails, SyncLog, SyncLogFails, InsertInto
<1>5. VersionType
  BY DEF StoreIInv, Types
<1> QED BY <1>1, <1>2, <1>3, <1>4, <1>5 DEF VersionType, Running

LEMMA BackgroundFrame ==
    ASSUME StoreIInv, BackgroundStep
    PROVE  /\ up \in {"up", "closing"} /\ Running
           /\ UNCHANGED <<up, queue, pc, result, lead, mem, pinned, current, unread, lost>>
           /\ ~Install => imm' = imm /\ (~Clean => garbage' = garbage)
           /\ ~Install => version'.tables = version.tables /\ version'.log = version.log
           /\ version'.logfile = version.logfile /\ version'.last = version.last
           /\ ~Clean => logs' = logs
           /\ ~Clean /\ ~WriteEdit /\ ~Install => manifests' = manifests
           /\ ~WriteEdit /\ ~Install /\ ~EditFails => behind' = behind
<1>1. up \in {"up", "closing"}
  <2>1. BeginNothing \/ BeginFlush \/ BeginMerge => up \in {"up", "closing"}
    BY DEF BeginNothing, BeginFlush, BeginMerge, Begins
  <2>2. ~BeginNothing /\ ~BeginFlush /\ ~BeginMerge => bg.phase \notin {"idle", "open"}
    BY DEF BackgroundStep, Flush, FlushFails, MergeDone, MergeFails, WriteEdit, Install,
           EditFails, Clean, Flushing, Busy
  <2> QED BY <2>1, <2>2, BusyRuns DEF StoreIInv, Types
<1>2. /\ UNCHANGED <<up, queue, pc, result, lead, mem, pinned, current, unread, lost>>
      /\ ~Install => imm' = imm /\ (~Clean => garbage' = garbage)
      /\ ~Clean => logs' = logs
      /\ ~Clean /\ ~WriteEdit /\ ~Install => manifests' = manifests
      /\ ~WriteEdit /\ ~Install /\ ~EditFails => behind' = behind
  BY DEF BackgroundStep, BeginNothing, BeginFlush, BeginMerge, Flush, FlushFails, MergeDone,
         MergeFails, WriteEdit, Install, EditFails, Clean, disk
<1>3. \/ version' = version \/ version' = [version EXCEPT !.next = @ + 1]
      \/ Install /\ version' = [version EXCEPT !.tables = Applied(@, bg.edit), !.log = bg.edit.log]
  BY DEF BackgroundStep, BeginNothing, BeginFlush, BeginMerge, Flush, FlushFails, MergeDone,
         MergeFails, WriteEdit, Install, EditFails, Clean
<1>4. VersionType
  BY DEF StoreIInv, Types
<1> QED BY <1>1, <1>2, <1>3, <1>4 DEF VersionType, Running

LEMMA OpenFrame ==
    ASSUME OpenStep
    PROVE  /\ up \notin {"up", "closing"}
           /\ UNCHANGED <<queue, pc, result, lead, mem, imm, pinned, bgError, merge, unread, lost>>
           /\ ~OpenCurrent => behind' = behind
           /\ ~OpenLog /\ ~OpenDone => logs' = logs
           /\ ~NewDB /\ ~OpenManifest /\ ~OpenDone => manifests' = manifests
           /\ ~NewDB /\ ~OpenCurrent => current' = current
           /\ ~RecoverLogs /\ ~OpenDone => tables' = tables
<1>1. up \notin {"up", "closing"}
  BY DEF OpenStep, NewDB, RecoverManifest, RecoverLogs, OpenLog, OpenManifest, OpenCurrent, OpenDone
<1>2. /\ UNCHANGED <<queue, pc, result, lead, mem, imm, pinned, bgError, merge, unread, lost>>
      /\ ~OpenCurrent => behind' = behind
      /\ ~OpenLog /\ ~OpenDone => logs' = logs
      /\ ~NewDB /\ ~OpenManifest /\ ~OpenDone => manifests' = manifests
      /\ ~NewDB /\ ~OpenCurrent => current' = current
      /\ ~RecoverLogs /\ ~OpenDone => tables' = tables
  BY DEF OpenStep, NewDB, RecoverManifest, RecoverLogs, OpenLog, OpenManifest, OpenCurrent,
         OpenDone, process, disk
<1> QED BY <1>1, <1>2

LEMMA OthersFrame ==
    ASSUME Others
    PROVE  /\ UNCHANGED <<result, lead, mem, imm, version, bgError, bg, merge, garbage, disk, unread, lost>>
           /\ up' = up \/ (up = "up" /\ up' = "closing" /\ queue = <<>>)
           /\ \/ \E w \in Writers : Enqueue(w)
              \/ UNCHANGED <<queue, pc>>
BY DEF Others, Enqueue, Pin, Unpin, Close, storeVars, process, disk

LEMMA DiesFrame ==
    ASSUME Dies
    PROVE  /\ Gone /\ UNCHANGED <<result, tables, current, unread>>
           /\ ~MachineCrash => UNCHANGED <<logs, manifests, behind, lost>>
BY DEF Dies, Crash, MachineCrash, Closed, Gone, disk

-----------------------------------------------------------------------------
(* The queue and its group.                                                    *)

LEMMA ReturnFacts ==
    ASSUME WriterTypes, QueueInv, NEW n \in 0 .. Len(queue), NEW status \in {"ok", "error"},
           Return(n, status)
    PROVE  /\ lead' = NoLead /\ queue' \in Seq(Writers) /\ Len(queue') = Len(queue) - n
           /\ \A i \in 1 .. Len(queue') : i + n \in 1 .. Len(queue) /\ queue'[i] = queue[i + n]
           /\ \A i \in 1 .. n : /\ queue[i] \in Writers /\ pc[queue[i]] = "queued"
                                /\ pc'[queue[i]] = "done" /\ result'[queue[i]] = status
           /\ \A w \in Writers : (\A i \in 1 .. n : w # queue[i]) =>
                                 pc'[w] = pc[w] /\ result'[w] = result[w]
<1> DEFINE q == SubSeq(queue, 1, n)
           r == SubSeq(queue, n + 1, Len(queue))
<1>1. queue \in Seq(Writers) /\ Len(queue) \in Nat /\ n \in Nat /\ n <= Len(queue)
  BY DEF WriterTypes
<1>2. q \in Seq(Writers) /\ Len(q) = n /\ \A i \in 1 .. n : q[i] = queue[i]
  BY <1>1
<1>3. r \in Seq(Writers) /\ Len(r) = Len(queue) - n
      /\ \A i \in 1 .. Len(r) : i + n \in 1 .. Len(queue) /\ r[i] = queue[i + n]
  BY <1>1
<1>4. /\ queue' = r /\ lead' = NoLead
      /\ pc' = [w \in Writers |-> IF w \in ToSet(q) THEN "done" ELSE pc[w]]
      /\ result' = [w \in Writers |-> IF w \in ToSet(q) THEN status ELSE result[w]]
  BY DEF Return
<1> HIDE DEF q, r
<1>5. \A w : w \in ToSet(q) <=> \E i \in 1 .. n : w = queue[i]
  <2>1. DOMAIN q = 1 .. n
    BY <1>2
  <2> QED BY <1>2, <2>1 DEF ToSet
<1>6. \A i \in 1 .. n : queue[i] \in Writers /\ pc[queue[i]] = "queued"
  BY <1>1 DEF QueueInv
<1> QED BY <1>3, <1>4, <1>5, <1>6

\* What the writers of a group are before they return.
LEMMA GroupFacts ==
    ASSUME WriterTypes, VersionType, QueueInv, GroupInv, lead.phase \in {"log", "sync", "insert"}
    PROVE  /\ Len(lead.group) \in 1 .. Len(queue)
           /\ \A i \in 1 .. Len(lead.group) : lead.group[i] = queue[i]
           /\ \A b \in Numbered : /\ b \in Batch /\ b[1] \in Writers \ NullWriters
                                  /\ pc[b[1]] = "queued" /\ result[b[1]] = "none"
                                  /\ \E i \in 1 .. Len(lead.group) : b[1] = queue[i]
           /\ \A b \in Numbered : b[1] \in SyncWriters => Synced
           /\ \A i \in 1 .. Len(lead.group) :
                 queue[i] \in NullWriters \/ queue[i] \in WritersOf(Numbered)
<1> DEFINE n == Len(lead.group)
<1>1. /\ queue \in Seq(Writers) /\ Len(queue) \in Nat /\ lead.group \in Seq(Writers)
      /\ n \in Nat /\ n <= Len(queue) /\ 1 <= n /\ lead.group = SubSeq(queue, 1, n)
      /\ Head(queue) \in SyncWriters \/ \A i \in 1 .. n : lead.group[i] \notin SyncWriters
  <2>1. queue \in Seq(Writers) /\ lead.group \in Seq(Writers) /\ n <= Len(queue)
    BY DEF WriterTypes
  <2> QED BY <2>1 DEF GroupInv
<1>2. \A i \in 1 .. n : lead.group[i] = queue[i]
  <2>1. \A i \in 1 .. n : SubSeq(queue, 1, n)[i] = queue[i]
    BY <1>1
  <2> QED BY <1>1, <2>1
<1>3. ASSUME NEW b \in Numbered
      PROVE  \E i \in 1 .. n : lead.group[i] \notin NullWriters /\ b[1] = lead.group[i]
  <2>1. PICK i \in WithBatch(lead.group, n) :
             b = <<lead.group[i], version.last + BatchCount(lead.group, i)>>
    BY DEF Numbered
  <2>2. i \in 1 .. n /\ lead.group[i] \notin NullWriters
    BY DEF WithBatch
  <2> QED BY <2>1, <2>2
<1>4. ASSUME NEW i \in 1 .. n
      PROVE  queue[i] \in Writers /\ pc[queue[i]] = "queued" /\ result[queue[i]] = "none"
  <2>1. i \in 1 .. Len(queue)
    BY <1>1
  <2>2. queue[i] \in Writers /\ pc[queue[i]] = "queued"
    BY <1>1, <2>1 DEF QueueInv
  <2> QED BY <2>2 DEF QueueInv
<1>5. ASSUME NEW i \in 1 .. n, queue[i] \notin NullWriters
      PROVE  queue[i] \in WritersOf(Numbered)
  <2>1. i \in WithBatch(lead.group, n)
    BY <1>2, <1>5 DEF WithBatch
  <2>2. <<lead.group[i], version.last + BatchCount(lead.group, i)>> \in Numbered
    BY <2>1 DEF Numbered
  <2>3. <<lead.group[i], version.last + BatchCount(lead.group, i)>>[1] = queue[i]
    BY <1>2
  <2> QED BY <2>2, <2>3 DEF WritersOf
<1>6. Numbered \in SUBSET Batch
  BY NumberedType
<1>7. ASSUME NEW b \in Numbered, b[1] \in SyncWriters PROVE Synced
  BY <1>1, <1>3, <1>7 DEF Synced
<1> QED BY <1>1, <1>2, <1>3, <1>4, <1>5, <1>6, <1>7

LEMMA QueueStep ==
    ASSUME StoreIInv, QueueInv, GroupInv, [StoreNext]_storeVars
    PROVE  QueueInv'
<1>t. WriterTypes /\ VersionType /\ PhasesInv
  BY DEF StoreIInv, Types
<1>q. queue \in Seq(Writers) /\ Len(queue) \in Nat /\ \A i \in 1 .. Len(queue) : queue[i] \in Writers
  BY <1>t DEF WriterTypes
<1>0. ASSUME UNCHANGED <<queue, pc, result>>, up' = up \/ queue = <<>> PROVE QueueInv'
  BY <1>0 DEF QueueInv
<1>1. ASSUME NEW n \in 0 .. Len(queue), NEW status \in {"ok", "error"}, Return(n, status), up' = up
      PROVE  QueueInv'
  <2>1. /\ queue' \in Seq(Writers) /\ Len(queue') = Len(queue) - n
        /\ \A i \in 1 .. Len(queue') : i + n \in 1 .. Len(queue) /\ queue'[i] = queue[i + n]
        /\ \A i \in 1 .. n : queue[i] \in Writers /\ pc'[queue[i]] = "done"
        /\ \A w \in Writers : (\A i \in 1 .. n : w # queue[i]) =>
                              pc'[w] = pc[w] /\ result'[w] = result[w]
    BY <1>1, <1>t, ReturnFacts
  <2>2. ASSUME NEW i \in 1 .. Len(queue') PROVE pc'[queue'[i]] = "queued"
    <3>1. \A j \in 1 .. n : queue[i + n] # queue[j]
      <4>1. ASSUME NEW j \in 1 .. n, queue[i + n] = queue[j] PROVE FALSE
        <5>1. i + n \in 1 .. Len(queue) /\ j \in 1 .. Len(queue) /\ i + n # j
          BY <1>q, <2>1
        <5> QED BY <4>1, <5>1 DEF QueueInv
      <4> QED BY <4>1
    <3>2. i + n \in 1 .. Len(queue)
      BY <2>1
    <3>3. queue[i + n] \in Writers /\ pc[queue[i + n]] = "queued"
      BY <1>q, <3>2 DEF QueueInv
    <3> QED BY <2>1, <3>1, <3>3
  <2>3. ASSUME NEW i \in 1 .. Len(queue'), NEW j \in 1 .. Len(queue'), queue'[i] = queue'[j]
        PROVE  i = j
    <3>1. i + n \in 1 .. Len(queue) /\ j + n \in 1 .. Len(queue) /\ queue[i + n] = queue[j + n]
      BY <2>1, <2>3
    <3>2. i + n = j + n
      BY <3>1 DEF QueueInv
    <3> QED BY <3>2
  <2>4. ASSUME NEW w \in Writers, pc'[w] # "done" PROVE result'[w] = "none"
    <3>1. \A i \in 1 .. n : w # queue[i]
      BY <2>1, <2>4
    <3> QED BY <2>1, <2>4, <3>1 DEF QueueInv
  <2>5. ASSUME up' # "up" PROVE queue' = <<>>
    <3>1. queue = <<>>
      BY <1>1, <2>5 DEF QueueInv
    <3>2. Len(queue) = 0 /\ Len(queue') \in Nat
      BY <2>1, <3>1
    <3>3. n = 0
      BY <3>2
    <3>4. Len(queue') = Len(queue) - n
      BY <2>1
    <3>5. Len(queue') = 0
      BY <3>2, <3>3, <3>4
    <3> QED BY <2>1, <3>5
  <2> QED BY <2>2, <2>3, <2>4, <2>5 DEF QueueInv
<1>2. ASSUME NEW w \in Writers, Enqueue(w) PROVE QueueInv'
  <2>1. /\ up = "up" /\ up' = up /\ pc[w] = "idle" /\ queue' = Append(queue, w)
        /\ pc' = [pc EXCEPT ![w] = "queued"] /\ result' = result
    BY <1>2 DEF Enqueue
  <2>2. /\ Len(queue') = Len(queue) + 1
        /\ \A i \in 1 .. Len(queue') : queue'[i] = IF i <= Len(queue) THEN queue[i] ELSE w
    BY <1>q, <2>1
  <2>3. pc' \in [Writers -> {"idle", "queued", "done", "gone"}] /\ pc'[w] = "queued"
        /\ \A v \in Writers : v # w => pc'[v] = pc[v]
    BY <1>t, <2>1 DEF WriterTypes
  <2>4. \A i \in 1 .. Len(queue) : queue[i] # w
    BY <2>1 DEF QueueInv
  <2>5. ASSUME NEW i \in 1 .. Len(queue') PROVE pc'[queue'[i]] = "queued"
    <3>1. CASE i <= Len(queue)
      <4>1. i \in 1 .. Len(queue)
        BY <3>1
      <4> QED BY <1>q, <2>2, <2>3, <2>4, <4>1 DEF QueueInv
    <3> QED BY <2>2, <2>3, <3>1
  <2>6. ASSUME NEW i \in 1 .. Len(queue'), NEW j \in 1 .. Len(queue'), queue'[i] = queue'[j]
        PROVE  i = j
    <3>1. i \in 1 .. Len(queue) \/ i = Len(queue) + 1
      BY <1>q, <2>2
    <3>2. j \in 1 .. Len(queue) \/ j = Len(queue) + 1
      BY <1>q, <2>2
    <3>3. CASE i \in 1 .. Len(queue) /\ j \in 1 .. Len(queue)
      BY <2>2, <2>6, <3>3 DEF QueueInv
    <3>4. CASE i \in 1 .. Len(queue) /\ j = Len(queue) + 1
      BY <1>q, <2>2, <2>4, <2>6, <3>4
    <3>5. CASE j \in 1 .. Len(queue) /\ i = Len(queue) + 1
      BY <1>q, <2>2, <2>4, <2>6, <3>5
    <3> QED BY <3>1, <3>2, <3>3, <3>4, <3>5
  <2>7. \A v \in Writers : pc'[v] # "done" => result'[v] = "none"
    BY <2>1, <2>3 DEF QueueInv
  <2> QED BY <2>1, <2>5, <2>6, <2>7 DEF QueueInv
<1>3. ASSUME WriteStep PROVE QueueInv'
  <2>0. up' = up
    BY <1>3, WriteFrame
  <2>1. CASE AtFront \/ SwitchMemTable \/ AddRecord \/ SyncLog
    <3>1. UNCHANGED <<queue, pc, result>>
      BY <2>1 DEF AtFront, SwitchMemTable, AddRecord, SyncLog
    <3> QED BY <1>0, <2>0, <3>1
  <2>2. CASE RoomError \/ SwitchFails \/ RoomFound
    <3>1. 1 \in 0 .. Len(queue)
      BY <1>t, <2>2, QueueFacts DEF RoomError, SwitchFails, Switches, RoomFound
    <3>2. Return(1, "error") \/ Return(1, "ok") \/ UNCHANGED <<queue, pc, result>>
      BY <2>2 DEF RoomError, SwitchFails, RoomFound
    <3> QED BY <1>0, <1>1, <2>0, <3>1, <3>2
  <2>3. CASE AddRecordFails \/ SyncLogFails \/ InsertInto
    <3>1. Len(lead.group) \in 0 .. Len(queue)
      BY <1>t, QueueFacts
    <3>2. Return(Len(lead.group), "error") \/ Return(Len(lead.group), "ok")
      BY <2>3 DEF AddRecordFails, SyncLogFails, InsertInto
    <3> QED BY <1>1, <2>0, <3>1, <3>2
  <2> QED BY <1>3, <2>1, <2>2, <2>3 DEF WriteStep
<1>4. ASSUME Dies PROVE QueueInv'
  <2>1. /\ queue' = <<>> /\ result' = result
        /\ pc' = [w \in Writers |-> IF pc[w] = "queued" THEN "gone" ELSE pc[w]]
    BY <1>4, DiesFrame DEF Gone
  <2>2. Len(queue') = 0
    BY <2>1
  <2>3. \A w \in Writers : pc'[w] # "done" => pc[w] # "done"
    BY <2>1
  <2> QED BY <2>1, <2>2, <2>3 DEF QueueInv
<1>5. ASSUME BackgroundStep PROVE QueueInv'
  BY <1>0, <1>5, BackgroundFrame
<1>6. ASSUME OpenStep PROVE QueueInv'
  <2>1. UNCHANGED <<queue, pc, result>> /\ up \notin {"up", "closing"}
    BY <1>6, OpenFrame
  <2>2. queue = <<>>
    BY <1>t, <2>1 DEF PhasesInv
  <2> QED BY <1>0, <2>1, <2>2
<1>7. ASSUME Others PROVE QueueInv'
  BY <1>0, <1>2, <1>7, OthersFrame
<1> QED BY <1>3, <1>4, <1>5, <1>6, <1>7, StepKinds

LEMMA GroupStep ==
    ASSUME StoreIInv, QueueInv, GroupInv, [StoreNext]_storeVars
    PROVE  GroupInv'
<1>t. WriterTypes /\ VersionType /\ PhasesInv
  BY DEF StoreIInv, Types
<1>q. queue \in Seq(Writers) /\ Len(queue) \in Nat
  BY <1>t DEF WriterTypes
<1>0. ASSUME lead' = lead, queue' = queue PROVE GroupInv'
  BY <1>0 DEF GroupInv
<1>1. ASSUME lead' = NoLead PROVE GroupInv'
  BY <1>1 DEF GroupInv, NoLead
<1>2. ASSUME NEW w \in Writers, Enqueue(w) PROVE GroupInv'
  <2>1. queue' = Append(queue, w) /\ lead' = lead
    BY <1>2 DEF Enqueue
  <2>2. ASSUME lead.phase \in {"log", "sync", "insert"}
        PROVE  SubSeq(queue', 1, Len(lead.group)) = SubSeq(queue, 1, Len(lead.group))
               /\ Head(queue') = Head(queue)
    <3>1. Len(lead.group) \in 1 .. Len(queue)
      BY <1>t, <2>2, GroupFacts
    <3> DEFINE n == Len(lead.group)
    <3>2. n \in Nat /\ 1 <= n /\ n <= Len(queue)
      BY <1>q, <3>1
    <3> HIDE DEF n
    <3>3. /\ SubSeq(queue', 1, n) \in Seq(Writers) /\ Len(SubSeq(queue', 1, n)) = n
          /\ \A i \in 1 .. n : SubSeq(queue', 1, n)[i] = queue'[i]
      BY <1>q, <2>1, <3>2
    <3>4. /\ SubSeq(queue, 1, n) \in Seq(Writers) /\ Len(SubSeq(queue, 1, n)) = n
          /\ \A i \in 1 .. n : SubSeq(queue, 1, n)[i] = queue[i]
      BY <1>q, <3>2
    <3>5. \A i \in 1 .. n : queue'[i] = queue[i]
      BY <1>q, <2>1, <3>2
    <3>6. SubSeq(queue', 1, n) = SubSeq(queue, 1, n)
      BY <3>3, <3>4, <3>5, SeqEqual
    <3>7. Head(queue') = queue'[1] /\ Head(queue) = queue[1]
      BY <1>q, <2>1, <3>2
    <3> QED BY <3>2, <3>5, <3>6, <3>7 DEF n
  <2> QED BY <2>1, <2>2 DEF GroupInv
<1>3. ASSUME RoomFound PROVE GroupInv'
  <2>1. CASE Head(queue) \in NullWriters
    BY <1>1, <1>3, <2>1 DEF RoomFound, Return
  <2>2. CASE Head(queue) \notin NullWriters
    <3> DEFINE S == Groups \cup {1}
    <3>1. /\ queue' = queue /\ lead.phase # "none"
          /\ lead' = [phase |-> "log", force |-> FALSE, group |-> Group]
      BY <1>3, <2>2 DEF RoomFound
    <3>2. Len(queue) > 0 /\ Len(Group) > 0 /\ Len(Group) <= Len(queue) /\ Group \in Seq(Writers)
      BY <1>t, <3>1, QueueFacts, GroupType
    <3>3. Max(S) \in S
      <4>1. S \in SUBSET Nat /\ S # {} /\ \A n \in S : n <= Len(queue)
        BY <1>q, <3>2 DEF Groups
      <4> HIDE DEF S
      <4> QED BY <1>q, <4>1, MaxOf
    <3> DEFINE n == Max(S)
    <3>4. n \in 1 .. Len(queue) /\ (n = 1 \/ n \in Groups)
      BY <1>q, <3>2, <3>3 DEF Groups
    <3>5. Group = SubSeq(queue, 1, n)
      BY DEF Group
    <3> HIDE DEF n, S
    <3>6. Len(Group) = n /\ \A i \in 1 .. n : Group[i] = queue[i]
      BY <1>q, <3>4, <3>5
    <3>7. Head(queue) = queue[1]
      BY <1>q, <3>2
    <3>8. ASSUME Head(queue) \notin SyncWriters, NEW i \in 1 .. n PROVE Group[i] \notin SyncWriters
      <4>1. CASE i = 1
        BY <3>6, <3>7, <3>8, <4>1
      <4>2. CASE i # 1
        <5> DEFINE s == SubSeq(queue, 2, n)
        <5>1. n \in Groups /\ n \in Nat /\ n <= Len(queue)
          BY <1>q, <3>4, <3>8, <4>2
        <5>2. ToSet(s) \cap SyncWriters = {}
          BY <3>8, <5>1 DEF Groups
        <5>3. Len(s) = n - 1 /\ s \in Seq(Writers) /\ \A j \in 1 .. n - 1 : s[j] = queue[j + 1]
          BY <1>q, <3>4, <5>1
        <5>4. i - 1 \in 1 .. n - 1 /\ i - 1 + 1 = i
          BY <3>8, <4>2, <5>1
        <5> HIDE DEF s
        <5>5. s[i - 1] = queue[i] /\ s[i - 1] \in ToSet(s)
          <6>1. DOMAIN s = 1 .. n - 1
            BY <5>1, <5>3
          <6> QED BY <5>3, <5>4, <6>1 DEF ToSet
        <5> QED BY <3>6, <5>2, <5>5
      <4> QED BY <4>1, <4>2
    <3>9. lead'.group = Group /\ queue' = queue
      BY <3>1
    <3> QED BY <3>2, <3>5, <3>6, <3>8, <3>9 DEF GroupInv
  <2> QED BY <2>1, <2>2
<1>4. ASSUME WriteStep, ~RoomFound PROVE GroupInv'
  <2>1. CASE AtFront \/ SwitchMemTable
    <3>1. lead'.phase = "room"
      BY <1>t, <2>1 DEF AtFront, SwitchMemTable, Switches, NoLead, WriterTypes
    <3> QED BY <3>1 DEF GroupInv
  <2>2. CASE AddRecord \/ SyncLog
    <3>1. lead.phase \in {"log", "sync"} /\ queue' = queue /\ lead'.group = lead.group
      BY <1>t, <2>2 DEF AddRecord, SyncLog, WriterTypes
    <3> QED BY <3>1 DEF GroupInv
  <2>3. CASE ~AtFront /\ ~SwitchMemTable /\ ~AddRecord /\ ~SyncLog
    BY <1>1, <1>4, <2>3 DEF WriteStep, RoomError, SwitchFails, AddRecordFails, SyncLogFails,
                            InsertInto, Return
  <2> QED BY <2>1, <2>2, <2>3
<1>5. ASSUME Dies PROVE GroupInv'
  BY <1>1, <1>5, DiesFrame DEF Gone
<1>6. ASSUME Others PROVE GroupInv'
  BY <1>0, <1>2, <1>6, OthersFrame
<1> QED BY <1>0, <1>3, <1>4, <1>5, <1>6, StepKinds, BackgroundFrame, OpenFrame

-----------------------------------------------------------------------------
(* Calls and answers.                                                          *)

LEMMA AcknowledgedFacts ==
    ASSUME WriterTypes, QueueInv, NEW w \in Acknowledged
    PROVE  w \in Writers \ NullWriters /\ result[w] = "ok" /\ pc[w] = "done"
BY DEF Acknowledged, QueueInv, WriterTypes

\* Only the insertion of a group acknowledges batches, and not behind a torn record.
LEMMA AcknowledgedStep ==
    ASSUME StoreIInv, QueueInv, GroupInv, RecordInv, AskedInv, [StoreNext]_storeVars
    PROVE  /\ ~InsertInto \/ logs[version.logfile].torn => Acknowledged' = Acknowledged
           /\ InsertInto /\ ~logs[version.logfile].torn =>
                 Acknowledged' = Acknowledged \cup WritersOf(Numbered)
<1>t. WriterTypes /\ VersionType /\ PhasesInv
  BY DEF StoreIInv, Types
<1>0. ASSUME unread' = unread,
             \A w \in Writers \ NullWriters : result'[w] = "ok" <=> result[w] = "ok"
      PROVE  Acknowledged' = Acknowledged
  BY <1>0 DEF Acknowledged
<1>1. ASSUME NEW n \in 0 .. Len(queue), Return(n, "error"), unread' = unread
      PROVE  Acknowledged' = Acknowledged
  <2>1. /\ \A i \in 1 .. n : queue[i] \in Writers /\ pc[queue[i]] = "queued"
                             /\ result'[queue[i]] = "error"
        /\ \A w \in Writers : (\A i \in 1 .. n : w # queue[i]) => result'[w] = result[w]
    BY <1>1, <1>t, ReturnFacts
  <2>2. \A i \in 1 .. n : result[queue[i]] = "none"
    BY <2>1 DEF QueueInv
  <2>3. ASSUME NEW w \in Writers PROVE result'[w] = "ok" <=> result[w] = "ok"
    <3>1. CASE \E i \in 1 .. n : w = queue[i]
      BY <2>1, <2>2, <3>1
    <3>2. CASE \A i \in 1 .. n : w # queue[i]
      BY <2>1, <3>2
    <3> QED BY <3>1, <3>2
  <2> QED BY <1>0, <1>1, <2>3
<1>2. ASSUME RoomFound PROVE Acknowledged' = Acknowledged
  <2>1. unread' = unread /\ lead.phase = "room"
    BY <1>2 DEF RoomFound
  <2>2. CASE Head(queue) \notin NullWriters
    BY <1>0, <1>2, <2>1, <2>2 DEF RoomFound
  <2>3. CASE Head(queue) \in NullWriters
    <3>1. Return(1, "ok") /\ 1 \in 0 .. Len(queue) /\ queue \in Seq(Writers) /\ Len(queue) > 0
      BY <1>2, <1>t, <2>1, <2>3, QueueFacts DEF RoomFound, WriterTypes
    <3>2. \A w \in Writers : (\A i \in 1 .. 1 : w # queue[i]) => result'[w] = result[w]
      BY <1>t, <3>1, ReturnFacts
    <3>3. Head(queue) = queue[1]
      BY <3>1
    <3>4. \A w \in Writers \ NullWriters : \A i \in 1 .. 1 : w # queue[i]
      BY <2>3, <3>3
    <3> QED BY <1>0, <2>1, <3>2, <3>4
  <2> QED BY <2>2, <2>3
<1>3. ASSUME AddRecord PROVE Acknowledged' = Acknowledged
  <2>1. result' = result /\ lead.phase = "log"
    BY <1>3 DEF AddRecord
  <2>2. unread' = unread \/ unread' = unread \cup Numbered
    BY <1>3 DEF AddRecord
  <2>3. \A b \in Numbered : b[1] \in Writers /\ result[b[1]] = "none"
    BY <1>t, <2>1, GroupFacts
  <2>4. \A w : result[w] = "ok" => w \notin WritersOf(Numbered)
    BY <2>3 DEF WritersOf
  <2>5. WritersOf(unread \cup Numbered) = WritersOf(unread) \cup WritersOf(Numbered)
    BY DEF WritersOf
  <2> QED BY <2>1, <2>2, <2>4, <2>5 DEF Acknowledged
<1>4. ASSUME InsertInto
      PROVE  Acknowledged' = IF logs[version.logfile].torn THEN Acknowledged
                             ELSE Acknowledged \cup WritersOf(Numbered)
  <2> DEFINE n == Len(lead.group)
  <2>1. /\ lead.phase = "insert" /\ Return(n, "ok") /\ unread' = unread
    BY <1>4 DEF InsertInto
  <2>2. n \in 0 .. Len(queue) /\ n \in 1 .. Len(queue)
    BY <1>t, <2>1, QueueFacts, GroupFacts
  <2>3. /\ \A i \in 1 .. n : queue[i] \in Writers /\ pc[queue[i]] = "queued"
                             /\ result'[queue[i]] = "ok"
        /\ \A w \in Writers : (\A i \in 1 .. n : w # queue[i]) => result'[w] = result[w]
    BY <1>t, <2>1, <2>2, ReturnFacts
  <2>4. /\ \A b \in Numbered : b[1] \in Writers \ NullWriters /\ pc[b[1]] = "queued"
                               /\ \E i \in 1 .. n : b[1] = queue[i]
        /\ \A i \in 1 .. n : queue[i] \in NullWriters \/ queue[i] \in WritersOf(Numbered)
    BY <1>t, <2>1, GroupFacts
  <2>5. \A w \in WritersOf(Numbered) : w \in Writers \ NullWriters /\ pc[w] = "queued"
                                       /\ \E i \in 1 .. n : w = queue[i]
    BY <2>4 DEF WritersOf
  <2>6. ASSUME NEW w \in Writers \ NullWriters
        PROVE  result'[w] = "ok" <=> result[w] = "ok" \/ w \in WritersOf(Numbered)
    <3>1. CASE \E i \in 1 .. n : w = queue[i]
      BY <2>3, <2>4, <3>1
    <3>2. CASE \A i \in 1 .. n : w # queue[i]
      BY <2>3, <2>5, <3>2
    <3> QED BY <3>1, <3>2
  <2>7. CASE logs[version.logfile].torn
    <3>1. Numbered \subseteq unread
      BY <2>1, <2>7 DEF RecordInv
    <3>2. WritersOf(Numbered) \subseteq WritersOf(unread)
      BY <3>1 DEF WritersOf
    <3>3. Acknowledged' = Acknowledged
      BY <2>1, <2>6, <3>2 DEF Acknowledged
    <3> QED BY <2>7, <3>3
  <2>8. CASE ~logs[version.logfile].torn
    <3>1. Numbered \cap unread = {} /\ Writing = Numbered
      BY <2>1, <2>8 DEF RecordInv, Writing
    <3>2. ASSUME NEW w \in WritersOf(Numbered), w \in WritersOf(unread) PROVE FALSE
      <4>1. PICK b \in unread : b[1] = w
        BY <3>2 DEF WritersOf
      <4>2. b \notin Numbered /\ pc[b[1]] = "queued"
        BY <2>5, <3>1, <4>1
      <4> QED BY <3>1, <4>2 DEF AskedInv
    <3>3. \A w \in WritersOf(Numbered) : w \in Writers \ NullWriters /\ w \notin WritersOf(unread)
      BY <2>5, <3>2
    <3> HIDE DEF n
    <3> QED BY <2>1, <2>6, <2>8, <3>3 DEF Acknowledged
  <2> QED BY <2>7, <2>8
<1>5. ASSUME WriteStep, ~RoomFound, ~AddRecord, ~InsertInto PROVE Acknowledged' = Acknowledged
  <2>0. unread' = unread
    BY <1>5, WriteFrame
  <2>1. CASE AtFront \/ SwitchMemTable \/ SyncLog
    <3>1. result' = result
      BY <2>1 DEF AtFront, SwitchMemTable, SyncLog
    <3> QED BY <1>0, <2>0, <3>1
  <2>2. CASE RoomError \/ SwitchFails
    <3>1. Return(1, "error") /\ lead.phase = "room"
      BY <2>2 DEF RoomError, SwitchFails, Switches
    <3> QED BY <1>1, <1>t, <2>0, <3>1, QueueFacts
  <2>3. CASE AddRecordFails \/ SyncLogFails
    <3>1. Return(Len(lead.group), "error")
      BY <2>3 DEF AddRecordFails, SyncLogFails
    <3> QED BY <1>1, <1>t, <2>0, <3>1, QueueFacts
  <2> QED BY <1>5, <2>1, <2>2, <2>3 DEF WriteStep
<1>6. ASSUME BackgroundStep \/ OpenStep \/ Dies \/ Others PROVE Acknowledged' = Acknowledged
  <2>1. result' = result /\ unread' = unread
    BY <1>6, BackgroundFrame, OpenFrame, DiesFrame, OthersFrame
  <2> QED BY <1>0, <2>1
<1> QED BY <1>2, <1>3, <1>4, <1>5, <1>6, StepKinds

\* A call that has ended stays ended; what was being written still is, or its call ends.
LEMMA CallsStep ==
    ASSUME StoreIInv, QueueInv, GroupInv, [StoreNext]_storeVars
    PROVE  /\ \A w \in Writers : pc[w] \in {"done", "gone"} => pc'[w] = pc[w]
           /\ \A b \in Writing : b \in Writing' \/ pc'[b[1]] \in {"done", "gone"}
           /\ AddRecord => Writing = {} /\ Writing' = Numbered
           /\ InsertInto => \A b \in Numbered : pc'[b[1]] = "done"
<1>t. WriterTypes /\ VersionType /\ PhasesInv
  BY DEF StoreIInv, Types
<1> DEFINE Ends == \A w \in Writers : pc[w] \in {"done", "gone"} => pc'[w] = pc[w]
           Goes == \A b \in Writing : b \in Writing' \/ pc'[b[1]] \in {"done", "gone"}
<1>g. ASSUME lead.phase \in {"sync", "insert"}, NEW b \in Numbered
      PROVE  b[1] \in Writers /\ pc[b[1]] = "queued"
             /\ \E i \in 1 .. Len(lead.group) : b[1] = queue[i]
  BY <1>g, <1>t, GroupFacts
<1>0. ASSUME lead'.group = lead.group, version'.last = version.last PROVE Numbered' = Numbered
  BY <1>0 DEF Numbered
<1>1. ASSUME NEW n \in 0 .. Len(queue), NEW status \in {"ok", "error"}, Return(n, status)
      PROVE  Ends /\ \A i \in 1 .. n : pc'[queue[i]] = "done"
  <2>1. /\ \A i \in 1 .. n : /\ queue[i] \in Writers /\ pc[queue[i]] = "queued"
                             /\ pc'[queue[i]] = "done"
        /\ \A w \in Writers : (\A i \in 1 .. n : w # queue[i]) => pc'[w] = pc[w]
    BY <1>1, <1>t, ReturnFacts
  <2> QED BY <2>1
<1> HIDE DEF Ends, Goes
<1>2. ASSUME lead' = lead, version'.last = version.last PROVE Goes
  <2>1. Writing' = Writing
    BY <1>0, <1>2 DEF Writing
  <2> QED BY <2>1 DEF Goes
<1>3. ASSUME WriteStep
      PROVE  /\ Ends /\ Goes
             /\ AddRecord => Writing = {} /\ Writing' = Numbered
             /\ InsertInto => \A b \in Numbered : pc'[b[1]] = "done"
  <2>1. CASE AtFront \/ SwitchMemTable
    <3>1. pc' = pc /\ lead.phase \notin {"log", "sync", "insert"}
      BY <2>1 DEF AtFront, SwitchMemTable, Switches, NoLead
    <3>2. Writing = {} /\ ~AddRecord /\ ~InsertInto
      BY <3>1 DEF Writing, AddRecord, InsertInto
    <3> QED BY <3>1, <3>2 DEF Ends, Goes
  <2>2. CASE RoomError \/ SwitchFails \/ RoomFound
    <3>1. lead.phase = "room"
      BY <2>2 DEF RoomError, SwitchFails, Switches, RoomFound
    <3>2. Writing = {} /\ ~AddRecord /\ ~InsertInto
      BY <3>1 DEF Writing, AddRecord, InsertInto
    <3>3. Return(1, "error") \/ Return(1, "ok") \/ pc' = pc
      BY <2>2 DEF RoomError, SwitchFails, RoomFound
    <3>4. 1 \in 0 .. Len(queue)
      BY <1>t, <3>1, QueueFacts
    <3>5. Ends
      <4>1. pc' = pc => Ends
        BY DEF Ends
      <4> QED BY <1>1, <3>3, <3>4, <4>1
    <3> QED BY <3>2, <3>5 DEF Goes
  <2>3. CASE AddRecord
    <3>1. pc' = pc /\ lead.phase = "log" /\ lead'.group = lead.group /\ version' = version
          /\ lead'.phase \in {"sync", "insert"}
      BY <1>t, <2>3 DEF AddRecord, WriterTypes
    <3>2. Writing = {} /\ Writing' = Numbered /\ ~InsertInto
      BY <1>0, <3>1 DEF Writing, InsertInto
    <3> QED BY <3>1, <3>2 DEF Ends, Goes
  <2>4. CASE SyncLog
    <3>1. pc' = pc /\ lead.phase = "sync" /\ lead'.group = lead.group /\ version' = version
          /\ lead'.phase = "insert"
      BY <1>t, <2>4 DEF SyncLog, WriterTypes
    <3>2. Writing' = Writing /\ ~InsertInto /\ ~AddRecord
      BY <1>0, <3>1 DEF Writing, InsertInto, AddRecord
    <3> QED BY <3>1, <3>2 DEF Ends, Goes
  <2>5. CASE AddRecordFails
    <3>1. Return(Len(lead.group), "error") /\ lead.phase = "log"
      BY <2>5 DEF AddRecordFails
    <3>2. Writing = {} /\ ~InsertInto
      BY <3>1 DEF Writing, InsertInto
    <3>3. lead' = NoLead
      BY <3>1 DEF Return
    <3>4. ~AddRecord
      <4>1. AddRecord => lead'.phase \in {"sync", "insert"}
        BY <1>t DEF AddRecord, WriterTypes
      <4> QED BY <3>3, <4>1 DEF NoLead
    <3> QED BY <1>1, <1>t, <3>1, <3>2, <3>4, QueueFacts DEF Goes
  <2>6. CASE SyncLogFails \/ InsertInto
    <3>1. /\ Return(Len(lead.group), "error") \/ Return(Len(lead.group), "ok")
          /\ lead.phase \in {"sync", "insert"}
      BY <2>6 DEF SyncLogFails, InsertInto
    <3>2. Ends /\ \A i \in 1 .. Len(lead.group) : pc'[queue[i]] = "done"
      BY <1>1, <1>t, <3>1, QueueFacts
    <3>3. \A b \in Numbered : pc'[b[1]] = "done"
      BY <1>g, <3>1, <3>2
    <3>4. Writing = Numbered /\ ~AddRecord
      BY <3>1 DEF Writing, AddRecord
    <3> QED BY <3>2, <3>3, <3>4 DEF Goes
  <2> QED BY <1>3, <2>1, <2>2, <2>3, <2>4, <2>5, <2>6 DEF WriteStep
<1>4. ASSUME BackgroundStep PROVE Ends /\ Goes
  <2>1. lead' = lead /\ pc' = pc /\ version'.last = version.last
    BY <1>4, BackgroundFrame
  <2> QED BY <1>2, <2>1 DEF Ends
<1>5. ASSUME OpenStep PROVE Ends /\ Goes
  <2>1. pc' = pc /\ up \notin {"up", "closing"}
    BY <1>5, OpenFrame
  <2>2. Writing = {}
    BY <1>t, <2>1 DEF PhasesInv, Writing, NoLead
  <2> QED BY <2>1, <2>2 DEF Ends, Goes
<1>6. ASSUME Others PROVE Ends /\ Goes
  <2>1. lead' = lead /\ version' = version
    BY <1>6, OthersFrame
  <2>2. Ends
    <3>1. CASE UNCHANGED <<queue, pc>>
      BY <3>1 DEF Ends
    <3>2. ASSUME NEW w \in Writers, Enqueue(w) PROVE Ends
      BY <1>t, <3>2 DEF Enqueue, WriterTypes, Ends
    <3> QED BY <1>6, <3>1, <3>2, OthersFrame
  <2> QED BY <1>2, <2>1, <2>2
<1>7. ASSUME Dies PROVE Ends /\ Goes
  <2>1. pc' = [w \in Writers |-> IF pc[w] = "queued" THEN "gone" ELSE pc[w]]
    BY <1>7, DiesFrame DEF Gone
  <2>2. ASSUME NEW b \in Writing PROVE pc'[b[1]] = "gone"
    <3>1. lead.phase \in {"sync", "insert"} /\ b \in Numbered
      BY <2>2 DEF Writing
    <3> QED BY <1>g, <2>1, <3>1
  <2> QED BY <2>1, <2>2 DEF Ends, Goes
<1>8. ASSUME ~WriteStep PROVE ~AddRecord /\ ~InsertInto
  BY <1>8 DEF WriteStep
<1>9. Ends /\ Goes
  BY <1>3, <1>4, <1>5, <1>6, <1>7, StepKinds
<1> QED BY <1>3, <1>8, <1>9 DEF Ends, Goes

LEMMA AskedStep ==
    ASSUME StoreIInv, QueueInv, GroupInv, AskedInv, [StoreNext]_storeVars
    PROVE  AskedInv'
<1>t. WriterTypes /\ VersionType /\ PhasesInv
  BY DEF StoreIInv, Types
<1>c. /\ \A w \in Writers : pc[w] \in {"done", "gone"} => pc'[w] = pc[w]
      /\ \A b \in Writing : b \in Writing' \/ pc'[b[1]] \in {"done", "gone"}
      /\ AddRecord => Writing = {} /\ Writing' = Numbered
      /\ InsertInto => \A b \in Numbered : pc'[b[1]] = "done"
  BY CallsStep
<1>s. Stored \subseteq Batch /\ unread \subseteq Batch /\ \A b \in Batch : b[1] \in Writers
  BY StoredFacts DEF AskedInv, Batch
<1>1. \A b \in unread' : b \in unread \/ (AddRecord /\ b \in Numbered)
  <2>1. unread' = unread \/ (AddRecord /\ unread' = unread \cup Numbered)
    <3>1. AddRecord => unread' = unread \/ unread' = unread \cup Numbered
      BY DEF AddRecord
    <3>2. ~AddRecord => unread' = unread
      BY WriteFrame, BackgroundFrame, OpenFrame, DiesFrame, OthersFrame, StepKinds
    <3> QED BY <3>1, <3>2
  <2> QED BY <2>1
<1>2. unread' \subseteq Batch
  BY <1>1, <1>s, <1>t, NumberedType
<1>3. ASSUME NEW b \in Stored' \cup unread'
      PROVE  b \in Writing' \/ pc'[b[1]] \in {"done", "gone"}
  <2>1. \/ b \in Stored \cup unread
        \/ (AddRecord \/ InsertInto) /\ b \in Numbered
    BY <1>1, StoredStep
  <2>2. CASE b \in Stored \cup unread
    <3>1. b[1] \in Writers
      BY <1>s, <2>2
    <3>2. b \in Writing \/ pc[b[1]] \in {"done", "gone"}
      BY <2>2 DEF AskedInv
    <3> QED BY <1>c, <3>1, <3>2
  <2>3. CASE (AddRecord \/ InsertInto) /\ b \in Numbered
    BY <1>c, <2>3
  <2> QED BY <2>1, <2>2, <2>3
<1>4. ASSUME NEW b \in InMemory' \cup Contents(Needed)' PROVE pc'[b[1]] \in {"done", "gone"}
  <2>1. \/ b \in InMemory \cup Contents(Needed)
        \/ InsertInto /\ b \in Numbered
        \/ RecoverLogs /\ b \in InLogs
    <3>1. CASE b \in InMemory'
      BY <3>1, MemoryStep
    <3>2. CASE b \in Contents(Needed)'
      <4>1. PICK t \in Needed' : b \in tables'[t]
        BY <3>2 DEF Contents
      <4> QED BY <4>1, ContentsStep DEF InLogs, LogsFrom
    <3> QED BY <3>1, <3>2
  <2>2. CASE b \in InMemory \cup Contents(Needed)
    <3>1. b \in Stored
      BY <2>2 DEF Stored
    <3>2. b[1] \in Writers /\ pc[b[1]] \in {"done", "gone"}
      BY <1>s, <2>2, <3>1 DEF AskedInv
    <3> QED BY <1>c, <3>2
  <2>3. CASE RecoverLogs /\ b \in InLogs
    <3>1. Writing = {} /\ b \in Stored
      BY <1>t, <2>3 DEF RecoverLogs, PhasesInv, NoLead, Writing, Stored
    <3>2. b[1] \in Writers /\ pc[b[1]] \in {"done", "gone"}
      BY <1>s, <3>1 DEF AskedInv
    <3> QED BY <1>c, <3>2
  <2> QED BY <1>c, <2>1, <2>2, <2>3
<1> QED BY <1>2, <1>3, <1>4 DEF AskedInv

\* Before the first opening is done nothing happens.
LEMMA FirstStep ==
    ASSUME StoreIInv, QueueInv, FirstInv, [StoreNext]_storeVars
    PROVE  FirstInv'
<1>t. WriterTypes /\ VersionType /\ PhasesInv /\ ManifestTypes /\ NumbersInv
  BY DEF StoreIInv, Types
<1>1. ASSUME OpenCurrent PROVE current' > 1
  BY <1>1, <1>t DEF OpenCurrent, NumbersInv, FileNumbers, Opening
<1>2. ~OpenCurrent => current' = current \/ (current = 0 /\ current' = 1 /\ ~Running)
  <2>1. NewDB => current = 0 /\ current' = 1 /\ ~Running
    BY DEF NewDB, Running
  <2> QED BY <2>1, WriteFrame, BackgroundFrame, OpenFrame, OthersFrame, DiesFrame, StepKinds DEF disk
<1>3. Running' => Running \/ OpenCurrent
  <2>1. OpenStep /\ ~OpenCurrent => Running \/ ~Running'
    BY DEF OpenStep, NewDB, RecoverManifest, RecoverLogs, OpenLog, OpenManifest, OpenDone,
           Running, process
  <2>2. Dies => ~Running'
    BY DiesFrame DEF Gone, Running
  <2>3. Others => Running \/ ~Running'
    BY OthersFrame DEF Running
  <2> QED BY <2>1, <2>2, <2>3, WriteFrame, BackgroundFrame, StepKinds
<1>4. current \in Nat
  BY <1>t DEF ManifestTypes
<1>5. ASSUME Running' PROVE current' > 1
  <2>1. CASE OpenCurrent
    BY <1>1, <2>1
  <2>2. CASE ~OpenCurrent
    BY <1>2, <1>3, <1>4, <1>5, <2>2 DEF FirstInv
  <2> QED BY <2>1, <2>2
<1>6. ASSUME current' \in {0, 1} PROVE Stored' = {} /\ \A w \in Writers : pc'[w] = "idle"
  <2>1. ~OpenCurrent
    BY <1>1, <1>6
  <2>2. current \in {0, 1}
    BY <1>2, <1>6, <2>1
  <2>3. ~Running /\ Stored = {} /\ \A w \in Writers : pc[w] = "idle"
    BY <2>2 DEF FirstInv
  <2>4. ~WriteStep /\ ~BackgroundStep
    BY <2>3, WriteFrame, BackgroundFrame
  <2>5. Stored' = {}
    BY <2>3, <2>4, StoredStep DEF WriteStep
  <2>6. \A w \in Writers : ~Enqueue(w)
    BY <2>3 DEF Enqueue, Running
  <2>7. pc' = pc \/ pc' = [w \in Writers |-> IF pc[w] = "queued" THEN "gone" ELSE pc[w]]
    BY <2>4, <2>6, OpenFrame, OthersFrame, DiesFrame, StepKinds DEF Gone
  <2> QED BY <2>3, <2>5, <2>7
<1> QED BY <1>5, <1>6 DEF FirstInv

-----------------------------------------------------------------------------
(* Phases, logs and files.                                                     *)

\* How each phase of an opening, and the running of the store, begins.
LEMMA PhaseEntered ==
    ASSUME StoreIInv, [StoreNext]_storeVars
    PROVE  /\ up' = "logs" => RecoverManifest \/ UNCHANGED storeVars
           /\ up' = "newlog" => RecoverLogs \/ UNCHANGED storeVars
           /\ up' = "manifest" => OpenLog \/ UNCHANGED storeVars
           /\ up' = "current" => OpenManifest \/ UNCHANGED storeVars
           /\ up' = "clean" => OpenCurrent \/ OpenDone \/ UNCHANGED storeVars
           /\ Running' => Running \/ OpenCurrent
<1>t. PhasesInv
  BY DEF StoreIInv
<1>1. ASSUME up' \in {"logs", "newlog", "manifest", "current", "clean"}
      PROVE  OpenStep \/ UNCHANGED storeVars
  <2>1. ~WriteStep /\ ~BackgroundStep
    BY <1>1, WriteFrame, BackgroundFrame
  <2>2. ~Dies
    BY <1>1, DiesFrame DEF Gone
  <2>3. Others => UNCHANGED storeVars
    <3>1. Others => up' = up
      BY <1>1, OthersFrame
    <3>2. Others => pinned = {}
      BY <1>1, <1>t, <3>1 DEF PhasesInv
    <3> QED BY <1>1, <3>1, <3>2 DEF Others, Enqueue, Pin, Unpin, Close
  <2> QED BY <2>1, <2>2, <2>3, StepKinds
<1>2. OpenStep => \/ NewDB /\ up' = "down"
                  \/ RecoverManifest /\ up' \in {"logs", "corrupt"}
                  \/ RecoverLogs /\ up' = "newlog"
                  \/ OpenLog /\ up' = "manifest"
                  \/ OpenManifest /\ up' = "current"
                  \/ OpenCurrent /\ up' = "clean"
                  \/ OpenDone /\ up = "clean"
  BY DEF OpenStep, NewDB, RecoverManifest, RecoverLogs, OpenLog, OpenManifest, OpenCurrent,
         OpenDone, process
<1>3. OpenDone => up' \in {"clean", "up"}
  BY DEF OpenDone
<1>4. Running' => Running \/ OpenCurrent
  <2>1. Dies => ~Running'
    BY DiesFrame DEF Gone, Running
  <2>2. Others => Running \/ ~Running'
    BY OthersFrame DEF Running
  <2>3. OpenStep => Running \/ ~Running' \/ OpenCurrent
    BY <1>2 DEF Running
  <2> QED BY <2>1, <2>2, <2>3, WriteFrame, BackgroundFrame, StepKinds
<1> QED BY <1>1, <1>2, <1>3, <1>4

\* What was written to a log and is synced stays, but for a crash of the machine, until the
\* log is removed.
LEMMA LogKept ==
    ASSUME StoreIInv, LastLogInv, [StoreNext]_storeVars, ~MachineCrash,
           NEW l \in DOMAIN logs, <<"log", l>> \notin garbage
    PROVE  /\ l \in DOMAIN logs' /\ InLog(l) \subseteq InLog(l)'
           /\ InSynced(l) \subseteq InSynced(l)' /\ Secured(l) \subseteq Secured(l)'
           /\ ~AddRecord \/ l # version.logfile => InLog(l)' = InLog(l)
<1>t. /\ WriterTypes /\ VersionType /\ LogTypes /\ PhasesInv /\ NumbersInv
      /\ logs[l] \in LogFiles /\ logs[l].recs \in Seq(SUBSET Batch) /\ Len(logs[l].recs) \in Nat
      /\ logs[l].synced \in Nat /\ logs[l].synced <= Len(logs[l].recs)
  <2>1. WriterTypes /\ VersionType /\ LogTypes /\ PhasesInv /\ NumbersInv
    BY DEF StoreIInv, Types
  <2>2. logs[l].synced <= Len(logs[l].recs)
    BY <2>1 DEF LogTypes
  <2> QED BY <2>1, <2>2, LogRecords
<1> DEFINE Kept == /\ l \in DOMAIN logs' /\ InLog(l) \subseteq InLog(l)'
                   /\ InSynced(l) \subseteq InSynced(l)'
                   /\ ~AddRecord \/ l # version.logfile => InLog(l)' = InLog(l)
<1> HIDE DEF Kept
<1>1. ASSUME l \in DOMAIN logs', logs'[l].recs = logs[l].recs, logs'[l].synced \in Nat,
             logs[l].synced <= logs'[l].synced
      PROVE  Kept
  <2>1. InLog(l)' = InLog(l)
    BY <1>1 DEF InLog
  <2>2. \A i \in 1 .. logs[l].synced : i \in 1 .. logs'[l].synced
    BY <1>1, <1>t
  <2>3. InSynced(l) \subseteq InSynced(l)'
    BY <1>1, <2>2 DEF InSynced
  <2> QED BY <1>1, <2>1, <2>3 DEF Kept
<1>2. ASSUME logs' = logs PROVE Kept
  BY <1>1, <1>2, <1>t
<1>3. ASSUME l # version.next, logs' = With(logs, version.next, NewLog) PROVE Kept
  <2>1. l \in DOMAIN logs' /\ logs'[l] = logs[l]
    BY <1>3 DEF With
  <2> QED BY <1>1, <1>t, <2>1
<1>4. ASSUME NEW x \in garbage, RemoveFile(x) PROVE Kept
  <2>1. x[1] = "log" => x[2] # l
    <3>1. x \in {"log", "manifest", "table"} \X Nat
      BY DEF StoreIInv, Types, ProcessTypes
    <3> QED BY <1>4, <3>1
  <2>2. l \in DOMAIN logs' /\ logs'[l] = logs[l]
    BY <1>4, <2>1 DEF RemoveFile, Without
  <2> QED BY <1>1, <1>t, <2>2
<1> DEFINE lf == version.logfile
<1>5. ASSUME AddRecord, lf = l PROVE Kept
  <2>1. CASE logs' = logs
    BY <1>2, <2>1
  <2>2. CASE logs' = [logs EXCEPT ![lf].recs = Append(@, Numbered)]
    <3> DEFINE recs == logs[l].recs
    <3>1. /\ l \in DOMAIN logs' /\ logs'[l].recs = Append(recs, Numbered)
          /\ logs'[l].synced = logs[l].synced
      BY <1>5, <1>t, <2>2 DEF LogFiles
    <3>2. /\ Numbered \in SUBSET Batch /\ recs \in Seq(SUBSET Batch) /\ Len(recs) \in Nat
      BY <1>t, NumberedType
    <3>3. /\ Append(recs, Numbered) \in Seq(SUBSET Batch)
          /\ Len(Append(recs, Numbered)) = Len(recs) + 1
          /\ \A i \in 1 .. Len(recs) : Append(recs, Numbered)[i] = recs[i]
      BY <3>2
    <3>4. DOMAIN recs = 1 .. Len(recs) /\ DOMAIN Append(recs, Numbered) = 1 .. Len(recs) + 1
      BY <3>2, <3>3
    <3>5. \A i \in 1 .. Len(recs) : i \in 1 .. Len(recs) + 1
      BY <3>2
    <3> HIDE DEF recs
    <3>6. InLog(l) \subseteq InLog(l)'
      <4>1. InLog(l) = UNION ToSet(recs) /\ InLog(l)' = UNION ToSet(Append(recs, Numbered))
        BY <3>1 DEF InLog, recs
      <4> QED BY <3>3, <3>4, <3>5, <4>1 DEF ToSet
    <3>7. \A i \in 1 .. logs[l].synced : i \in 1 .. Len(recs)
      BY <1>t DEF recs
    <3>8. InSynced(l) \subseteq InSynced(l)'
      <4>1. InSynced(l) = UNION {recs[i] : i \in 1 .. logs[l].synced}
        BY DEF InSynced, recs
      <4>2. InSynced(l)' = UNION {Append(recs, Numbered)[i] : i \in 1 .. logs[l].synced}
        BY <3>1 DEF InSynced
      <4> QED BY <3>3, <3>7, <4>1, <4>2
    <3> QED BY <1>5, <3>1, <3>6, <3>8 DEF Kept
  <2> QED BY <1>5, <2>1, <2>2 DEF AddRecord
<1>6. ASSUME AddRecord \/ AddRecordFails \/ SyncLog, lf # l PROVE Kept
  <2>1. \E f : logs' = [logs EXCEPT ![lf] = f]
    <3>1. AddRecord => logs' = logs \/ logs' = [logs EXCEPT ![lf].recs = Append(@, Numbered)]
      BY DEF AddRecord
    <3>2. AddRecordFails => \E torn \in BOOLEAN : logs' = [logs EXCEPT ![lf].torn = @ \/ torn]
      BY DEF AddRecordFails
    <3>3. SyncLog => logs' = [logs EXCEPT ![lf].synced = Len(logs[lf].recs)]
      BY DEF SyncLog
    <3>4. logs' = logs => logs' = [logs EXCEPT ![lf] = logs[lf]]
      BY <1>t DEF LogTypes
    <3> QED BY <1>6, <3>1, <3>2, <3>3, <3>4
  <2>2. l \in DOMAIN logs' /\ logs'[l] = logs[l]
    BY <1>6, <2>1
  <2> QED BY <1>1, <1>t, <2>2
<1>7. ASSUME AddRecordFails \/ SyncLog, lf = l PROVE Kept
  <2>1. CASE AddRecordFails
    <3>1. PICK torn \in BOOLEAN : logs' = [logs EXCEPT ![lf].torn = @ \/ torn]
      BY <2>1 DEF AddRecordFails
    <3>2. l \in DOMAIN logs' /\ logs'[l].recs = logs[l].recs /\ logs'[l].synced = logs[l].synced
      BY <1>7, <1>t, <3>1 DEF LogFiles
    <3> QED BY <1>1, <1>t, <3>2
  <2>2. CASE SyncLog
    <3>1. logs' = [logs EXCEPT ![lf].synced = Len(logs[lf].recs)]
      BY <2>2 DEF SyncLog
    <3>2. l \in DOMAIN logs' /\ logs'[l].recs = logs[l].recs
          /\ logs'[l].synced = Len(logs[l].recs)
      BY <1>7, <1>t, <3>1 DEF LogFiles
    <3> QED BY <1>1, <1>t, <3>2
  <2> QED BY <1>7, <2>1, <2>2
<1> HIDE DEF lf
<1>8. ASSUME SwitchMemTable \/ OpenLog PROVE Kept
  <2>1. logs' = With(logs, version.next, NewLog)
    BY <1>8 DEF SwitchMemTable, OpenLog
  <2>2. l < version.next
    <3>1. l \in Nat /\ version.next \in Nat /\ version.logfile \in Nat
      BY NumberFacts, StoredFacts
    <3>2. CASE OpenLog
      BY <3>2 DEF OpenLog, LastLogInv
    <3>3. CASE SwitchMemTable
      <4>1. Running
        BY <3>3, WriteFrame DEF WriteStep
      <4>2. l <= version.logfile /\ version.logfile < version.next
        BY <1>t, <4>1 DEF LastLogInv, NumbersInv, FileNumbers
      <4> QED BY <3>1, <4>2
    <3> QED BY <1>8, <3>2, <3>3
  <2>3. l # version.next
    <3>1. l \in Nat
      BY StoredFacts
    <3> QED BY <2>2, <3>1
  <2> QED BY <1>3, <2>1, <2>3
<1>9. ASSUME Clean \/ OpenDone PROVE Kept
  BY <1>2, <1>4, <1>9 DEF Clean, OpenDone
<1>10. Kept
  <2>1. CASE WriteStep
    BY <1>2, <1>5, <1>6, <1>7, <1>8, <2>1, WriteFrame
  <2>2. CASE BackgroundStep
    BY <1>2, <1>9, <2>2, BackgroundFrame
  <2>3. CASE OpenStep
    BY <1>2, <1>8, <1>9, <2>3, OpenFrame
  <2>4. CASE Dies \/ Others
    BY <1>2, <2>4, DiesFrame, OthersFrame DEF disk
  <2> QED BY <2>1, <2>2, <2>3, <2>4, StepKinds
<1>11. Secured(l) \subseteq Secured(l)'
  BY <1>10 DEF Kept, Secured
<1> QED BY <1>10, <1>11 DEF Kept

\* A log is new only when one is begun, and is empty then.
LEMMA LogBegun ==
    ASSUME StoreIInv, [StoreNext]_storeVars, NEW l \in DOMAIN logs', l \notin DOMAIN logs
    PROVE  l = version.next /\ InLog(l)' = {} /\ (SwitchMemTable \/ OpenLog)
<1>1. ASSUME ~SwitchMemTable, ~OpenLog PROVE DOMAIN logs' \subseteq DOMAIN logs
  <2>1. ASSUME WriteStep PROVE DOMAIN logs' \subseteq DOMAIN logs
    <3>1. CASE logs' = logs
      BY <3>1
    <3>2. CASE AddRecord \/ AddRecordFails \/ SyncLog
      BY <3>2 DEF AddRecord, AddRecordFails, SyncLog
    <3> QED BY <1>1, <2>1, <3>1, <3>2, WriteFrame
  <2>2. ASSUME NEW x, RemoveFile(x) PROVE DOMAIN logs' \subseteq DOMAIN logs
    BY <2>2 DEF RemoveFile, Without
  <2>3. Clean \/ OpenDone => DOMAIN logs' \subseteq DOMAIN logs
    BY <2>2 DEF Clean, OpenDone
  <2>4. ASSUME Dies PROVE DOMAIN logs' \subseteq DOMAIN logs
    <3>1. MachineCrash => DOMAIN logs' = DOMAIN logs
      BY DEF MachineCrash
    <3> QED BY <2>4, <3>1, DiesFrame
  <2> QED BY <1>1, <2>1, <2>3, <2>4, BackgroundFrame, OpenFrame, OthersFrame, StepKinds DEF disk
<1>2. SwitchMemTable \/ OpenLog
  BY <1>1
<1>3. logs' = With(logs, version.next, NewLog)
  BY <1>2 DEF SwitchMemTable, OpenLog
<1>4. l = version.next /\ logs'[l] = NewLog
  BY <1>3 DEF With
<1> QED BY <1>2, <1>4 DEF InLog, ToSet, NewLog

LEMMA LastLogStep ==
    ASSUME StoreIInv, LastLogInv, GarbageInv, [StoreNext]_storeVars
    PROVE  LastLogInv'
<1>t. /\ VersionType /\ LogTypes /\ ManifestTypes /\ LogsBounded /\ PhasesInv /\ FilesInv
      /\ NumbersInv
  BY DEF StoreIInv, Types
<1>n. /\ version.next \in Nat /\ version.log \in Nat /\ version.logfile \in Nat
      /\ \A l \in DOMAIN logs : l \in Nat
      /\ \A l \in DOMAIN logs' :
            \/ l \in DOMAIN logs
            \/ l = version.next /\ InLog(l)' = {} /\ (SwitchMemTable \/ OpenLog)
  <2>1. ASSUME NEW l \in DOMAIN logs'
        PROVE  \/ l \in DOMAIN logs
               \/ l = version.next /\ InLog(l)' = {} /\ (SwitchMemTable \/ OpenLog)
    BY LogBegun
  <2> QED BY <2>1, NumberFacts, StoredFacts
<1>p. /\ up' = "logs" => RecoverManifest \/ UNCHANGED storeVars
      /\ up' = "newlog" => RecoverLogs \/ UNCHANGED storeVars
      /\ up' = "manifest" => OpenLog \/ UNCHANGED storeVars
      /\ up' = "current" => OpenManifest \/ UNCHANGED storeVars
      /\ Running' => Running \/ OpenCurrent
  BY PhaseEntered
<1>0. ASSUME UNCHANGED storeVars PROVE LastLogInv'
  BY <1>0 DEF storeVars, process, disk, LastLogInv, Running
<1>1. current' = 0 => DOMAIN logs' = {}
  <2>1. SUFFICES ASSUME current' = 0 PROVE DOMAIN logs' = {}
    OBVIOUS
  <2>2. current = 0
    <3>1. ~NewDB
      BY <2>1 DEF NewDB
    <3>2. OpenCurrent => current' > 1
      BY <1>t DEF OpenCurrent, NumbersInv, FileNumbers, Opening
    <3>3. ~OpenCurrent => current' = current
      BY <3>1, WriteFrame, BackgroundFrame, OpenFrame, OthersFrame, DiesFrame, StepKinds DEF disk
    <3> QED BY <2>1, <3>2, <3>3
  <2>3. ~SwitchMemTable
    BY <1>t, <2>2, WriteFrame DEF WriteStep, PhasesInv
  <2>4. ~OpenLog
    BY <1>t, <2>2 DEF OpenLog, FilesInv, Opening
  <2>5. DOMAIN logs = {}
    BY <2>2 DEF LastLogInv
  <2> QED BY <1>n, <2>3, <2>4, <2>5
<1>2. ASSUME RecoverManifest, up' = "logs" PROVE version'.log < version'.next
  <2>1. /\ version'.log = Last(Current).log /\ Current # <<>> /\ current # 0
        /\ version'.next = Max({Last(Current).next, Last(Current).log}) + 1
    BY <1>2 DEF RecoverManifest, Current
  <2>2. Last(Current).next \in Nat /\ Last(Current).log \in Nat
    <3>1. Last(Current) \in Edits
      BY <1>t, <2>1, ManifestFacts
    <3> QED BY <3>1 DEF Edits
  <2> DEFINE limit == Last(Current).next + Last(Current).log
             S == {Last(Current).next, Last(Current).log}
  <2>3. S \in SUBSET Nat /\ S # {} /\ limit \in Nat /\ \A h \in S : h <= limit
    BY <2>2
  <2>4. Last(Current).log <= Max(S) /\ Max(S) \in Nat
    <3> HIDE DEF limit
    <3>1. Max(S) \in S /\ \A h \in S : h <= Max(S)
      BY <2>3, MaxOf
    <3> QED BY <2>3, <3>1
  <2> HIDE DEF limit
  <2> QED BY <2>1, <2>2, <2>4
<1>3. ASSUME RecoverLogs PROVE \A l \in DOMAIN logs' : l < version'.next
  <2>1. /\ version' = [version EXCEPT !.next = NextRecovered, !.last = RecoveredLast]
        /\ logs' = logs /\ up = "logs"
    BY <1>3 DEF RecoverLogs, NextRecovered
  <2>2. /\ NextRecovered \in Nat /\ version.next <= NextRecovered
        /\ \A l \in LogsFrom(version.log) : l < NextRecovered
    BY <1>t, RecoveredCounters
  <2>3. version'.next = NextRecovered /\ version.log < version.next
    BY <1>t, <2>1 DEF VersionType, LastLogInv
  <2>4. ASSUME NEW l \in DOMAIN logs PROVE l < NextRecovered
    <3>1. CASE l >= version.log
      BY <2>2, <3>1 DEF LogsFrom
    <3>2. CASE ~(l >= version.log)
      BY <1>n, <2>2, <2>3, <3>2
    <3> QED BY <3>1, <3>2
  <2> QED BY <2>1, <2>3, <2>4
<1> DEFINE Written == version.logfile \in DOMAIN logs /\ \A l \in DOMAIN logs : l <= version.logfile
<1>4. ASSUME SwitchMemTable \/ OpenLog PROVE Written'
  <2>1. /\ logs' = With(logs, version.next, NewLog)
        /\ version' = [version EXCEPT !.logfile = version.next, !.next = @ + 1]
    BY <1>4 DEF SwitchMemTable, OpenLog
  <2>2. version'.logfile = version.next /\ DOMAIN logs' = DOMAIN logs \cup {version.next}
    BY <1>t, <2>1 DEF VersionType, With
  <2>3. ASSUME NEW l \in DOMAIN logs PROVE l <= version.next
    <3>1. CASE OpenLog
      BY <1>n, <3>1 DEF OpenLog, LastLogInv
    <3>2. CASE SwitchMemTable
      <4>1. Running
        BY <3>2, WriteFrame DEF WriteStep
      <4>2. l <= version.logfile /\ version.logfile < version.next
        BY <1>t, <4>1 DEF LastLogInv, NumbersInv, FileNumbers
      <4> QED BY <1>n, <4>2
    <3> QED BY <1>4, <3>1, <3>2
  <2> QED BY <1>n, <2>2, <2>3
<1>5. ASSUME up \in {"manifest", "current"} \/ Running, ~SwitchMemTable, ~OpenLog,
             version'.logfile = version.logfile, ~MachineCrash
      PROVE  Written'
  <2>1. Written
    BY <1>5 DEF LastLogInv
  <2>2. <<"log", version.logfile>> \notin garbage
    <3>1. CASE Running
      <4>1. version.log <= version.logfile
        BY <1>t, <3>1 DEF NumbersInv, LogNumbers
      <4>2. ~(version.logfile < version.log)
        BY <1>n, <4>1
      <4> QED BY <4>2 DEF GarbageInv
    <3>2. CASE ~Running
      BY <1>t, <3>2 DEF PhasesInv
    <3> QED BY <3>1, <3>2
  <2>3. version.logfile \in DOMAIN logs'
    BY <1>5, <2>1, <2>2, LogKept
  <2> QED BY <1>5, <1>n, <2>1, <2>3
<1>6. ASSUME up' \in {"manifest", "current"}, ~UNCHANGED storeVars PROVE Written'
  <2>1. CASE OpenLog
    BY <1>4, <2>1
  <2>2. CASE OpenManifest
    <3>1. up = "manifest" /\ version' = version /\ logs' = logs
      BY <2>2 DEF OpenManifest
    <3> QED BY <3>1 DEF LastLogInv
  <2> QED BY <1>6, <1>p, <2>1, <2>2
<1>7. ASSUME Running' PROVE Written'
  <2>1. CASE OpenCurrent
    <3>1. up = "current" /\ logs' = logs /\ version'.logfile = version.logfile
      BY <1>t, <2>1 DEF OpenCurrent, VersionType
    <3> QED BY <3>1 DEF LastLogInv
  <2>2. CASE SwitchMemTable
    BY <1>4, <2>2
  <2>3. CASE ~OpenCurrent /\ ~SwitchMemTable
    <3>1. Running
      BY <1>7, <1>p, <2>3
    <3>2. ~OpenLog /\ ~MachineCrash
      <4>1. ~OpenLog
        BY <3>1 DEF OpenLog, Running
      <4>2. ~Dies
        BY <1>7, DiesFrame DEF Gone, Running
      <4> QED BY <4>1, <4>2 DEF Dies
    <3>3. version'.logfile = version.logfile
      <4>1. OpenStep => OpenDone
        BY <3>1 DEF OpenStep, NewDB, RecoverManifest, RecoverLogs, OpenLog, OpenManifest,
                    OpenCurrent, Running
      <4>2. OpenDone => version' = version
        BY DEF OpenDone
      <4>3. ~Dies
        BY <1>7, DiesFrame DEF Gone, Running
      <4> QED BY <2>3, <4>1, <4>2, <4>3, WriteFrame, BackgroundFrame, OthersFrame, StepKinds
    <3> QED BY <1>5, <2>3, <3>1, <3>2, <3>3
  <2> QED BY <2>1, <2>2, <2>3
<1> HIDE DEF Written
<1>8. CASE ~UNCHANGED storeVars
  <2>1. up' = "logs" => version'.log < version'.next
    BY <1>2, <1>8, <1>p
  <2>2. up' = "newlog" => \A l \in DOMAIN logs' : l < version'.next
    BY <1>3, <1>8, <1>p
  <2> QED BY <1>1, <1>6, <1>7, <1>8, <2>1, <2>2 DEF LastLogInv, Written
<1> QED BY <1>0, <1>8

\* The manifest that CURRENT names changes only by these steps.
LEMMA ManifestKept ==
    ASSUME StoreIInv, [StoreNext]_storeVars, ~WriteEdit, ~Install, ~NewDB, ~OpenCurrent, ~MachineCrash
    PROVE  /\ current' = current /\ Lengths' = Lengths
           /\ current # 0 => Current' = Current
           /\ \A n \in Lengths : Prefix(n)' = Prefix(n)
<1>t. ManifestTypes /\ NumbersInv /\ PhasesInv
  BY DEF StoreIInv, Types
<1>1. current' = current
  BY WriteFrame, BackgroundFrame, OpenFrame, OthersFrame, DiesFrame, StepKinds DEF disk
<1>2. CASE manifests'[current] = manifests[current]
  BY <1>1, <1>2, ManifestUnchanged
<1>3. CASE current = 0
  BY <1>1, <1>3 DEF Lengths
<1>4. ASSUME current # 0, manifests' # manifests PROVE manifests'[current] = manifests[current]
  <2>1. Clean \/ OpenManifest \/ OpenDone
    <3>1. Dies => manifests' = manifests
      BY DiesFrame DEF Dies
    <3> QED BY <1>4, <3>1, WriteFrame, BackgroundFrame, OpenFrame, OthersFrame, StepKinds DEF disk
  <2>2. CASE Clean \/ OpenDone
    <3>1. Running
      BY <2>2, BackgroundFrame DEF BackgroundStep, OpenDone, Running
    <3>2. \E x \in garbage : RemoveFile(x)
      BY <1>4, <2>2 DEF Clean, OpenDone
    <3> QED BY <3>1, <3>2, RemovalKeepsFiles
  <2>3. CASE OpenManifest
    <3>1. current # version.manifest
      <4>1. version.manifest > current
        BY <1>t, <2>3 DEF NumbersInv, FileNumbers, OpenManifest, Opening
      <4> QED BY <4>1, NumberFacts
    <3>2. current \in DOMAIN manifests
      BY <1>4, <1>t, ManifestFacts
    <3> QED BY <2>3, <3>1, <3>2 DEF OpenManifest, With
  <2> QED BY <2>1, <2>2, <2>3
<1> QED BY <1>2, <1>3, <1>4

LEMMA GarbageStep ==
    ASSUME StoreIInv, StoreIInv', EditInv, GarbageInv, [StoreNext]_storeVars
    PROVE  GarbageInv'
<1>t. VersionType /\ ProcessTypes /\ LogTypes /\ TableTypes /\ ManifestTypes /\ PhasesInv /\ NumbersInv
  BY DEF StoreIInv, Types
<1>0. ASSUME garbage' = {} PROVE GarbageInv'
  BY <1>0 DEF GarbageInv
<1>1. ASSUME garbage' \subseteq garbage, version'.log = version.log,
             ~WriteEdit, ~Install, ~NewDB, ~OpenCurrent, ~MachineCrash
      PROVE  GarbageInv'
  <2>1. /\ Lengths' = Lengths /\ (current # 0 => Current' = Current)
    BY <1>1, ManifestKept
  <2>2. current = 0 => Lengths = {}
    BY DEF Lengths
  <2> QED BY <1>1, <2>1, <2>2 DEF GarbageInv
<1>2. CASE Install
  <2> HIDE <1>2
  <2>1. /\ garbage' = IF bgError THEN {} ELSE Obsolete(version', {merge'.num})
        /\ version' = [version EXCEPT !.tables = Applied(@, bg.edit), !.log = bg.edit.log]
        /\ manifests' = [manifests EXCEPT ![version.manifest].synced =
                                              Len(manifests[version.manifest].edits)]
        /\ current' = current /\ bg.phase = "sync"
    BY <1>2 DEF Install, Busy
  <2>b. CASE behind # "nothing"
    <3>1. garbage' = {}
      BY <1>t, <2>1, <2>b, BusyRuns DEF PhasesInv, Running
    <3> QED BY <1>0, <3>1
  <2>c. ASSUME behind = "nothing" PROVE Last(Current) = bg.edit
    BY <2>1, <2>c DEF EditInv
  <2>2. version'.log = bg.edit.log
    BY <1>t, <2>1 DEF VersionType
  <2>3. current = version.manifest /\ current # 0
    BY <1>t, <2>1, BusyRuns
  <2>4. /\ current \in DOMAIN manifests /\ manifests[current] \in Manifests /\ Len(Current) \in Nat
    BY <1>t, <2>3, ManifestFacts
  <2>5. Current' = Current /\ manifests'[current'].synced = Len(Current)
    BY <2>1, <2>3, <2>4 DEF Current, Manifests
  <2>6. Lengths' = {Len(Current)}
    <3>1. Lengths' = Len(Current) .. Len(Current)
      BY <2>1, <2>3, <2>5 DEF Lengths
    <3> QED BY <2>4, <3>1
  <2>7. ASSUME behind = "nothing" PROVE \A n \in Lengths' \ {0} : Current'[n].log = version'.log
    BY <2>2, <2>5, <2>6, <2>7, <2>c DEF Last
  <2>8. \A x \in Obsolete(version', {merge'.num}) : x[1] = "log" => x[2] < version'.log
    BY <1>t, ObsoleteFacts
  <2> QED BY <2>1, <2>7, <2>8, <2>b DEF GarbageInv
<1>3. CASE OpenCurrent
  <2> DEFINE E == manifests[version.manifest].edits
  <2>1. /\ garbage' = Obsolete(version', {}) /\ up = "current" /\ manifests' = manifests
        /\ current' = version.manifest
        /\ version' = [version EXCEPT !.tables = Applied(@, bg.edit), !.log = version.logfile]
    BY <1>3 DEF OpenCurrent
  <2>2. /\ manifests[version.manifest].synced = 2 /\ version.manifest # 0 /\ Len(E) = 2
        /\ E[2].log = version.logfile
    BY <1>t, <2>1 DEF StoreIInv, AgreeInv, Opened, NumbersInv, OpenedNumbers
  <2>3. Lengths' = {2} /\ Current' = E
    <3>1. 2 .. 2 = {2}
      OBVIOUS
    <3> QED BY <2>1, <2>2, <3>1 DEF Lengths, Current
  <2>4. version'.log = version.logfile
    BY <1>t, <2>1 DEF VersionType
  <2>5. \A x \in Obsolete(version', {}) : x[1] = "log" => x[2] < version'.log
    BY <1>t, ObsoleteFacts
  <2> QED BY <2>1, <2>2, <2>3, <2>4, <2>5 DEF GarbageInv
<1>4. CASE Clean \/ OpenDone
  <2>1. garbage' \subseteq garbage
    BY <1>4 DEF Clean, OpenDone, RemoveFile
  <2>2. version' = version
    BY <1>4 DEF Clean, OpenDone
  <2>3. ~WriteEdit /\ ~Install /\ ~NewDB /\ ~OpenCurrent /\ ~MachineCrash
    <3>1. Clean => bg.phase = "clean" /\ Running
      BY BackgroundFrame DEF Clean, Busy, BackgroundStep
    <3>2. OpenDone => bg.phase = "idle" /\ up = "clean" /\ Running
      BY <1>t DEF OpenDone, PhasesInv, NoWork, Running
    <3>3. WriteEdit \/ Install => bg.phase \in {"write", "sync"}
      BY DEF WriteEdit, Install, Busy
    <3>4. NewDB \/ OpenCurrent => ~Running
      BY DEF NewDB, OpenCurrent, Running
    <3>5. MachineCrash => version' = NoVersion /\ current' = current
      BY DEF MachineCrash, Gone
    <3>6. Running => version.manifest # 0
      BY <1>t DEF PhasesInv
    <3>7. NoVersion.manifest = 0
      BY DEF NoVersion
    <3> QED BY <1>4, <2>2, <3>1, <3>2, <3>3, <3>4, <3>5, <3>6, <3>7
  <2> QED BY <1>1, <2>1, <2>2, <2>3
<1>5. CASE garbage = {} /\ ~Install /\ ~OpenCurrent /\ ~Clean /\ ~OpenDone
  <2>1. OpenStep => garbage' = garbage
    BY <1>5 DEF OpenStep, NewDB, RecoverManifest, RecoverLogs, OpenLog, OpenManifest, process
  <2>2. garbage' = {}
    BY <1>5, <2>1, WriteFrame, BackgroundFrame, OthersFrame, DiesFrame, StepKinds DEF Gone
  <2> QED BY <1>0, <2>2
<1>6. CASE garbage # {} /\ ~Install /\ ~OpenCurrent /\ ~Clean /\ ~OpenDone
  <2>1. Running
    BY <1>t, <1>6 DEF PhasesInv
  <2>2. ~OpenStep
    <3>1. up = "clean" \/ up \in {"up", "closing"}
      BY <2>1 DEF Running
    <3> QED BY <1>6, <3>1 DEF OpenStep, NewDB, RecoverManifest, RecoverLogs, OpenLog, OpenManifest
  <2>3. ~BackgroundStep
    <3>1. bg.phase = "clean" \/ up = "clean"
      BY <1>t, <1>6 DEF PhasesInv
    <3>2. BackgroundStep => bg.phase = "clean"
      BY <3>1, BackgroundFrame
    <3> QED BY <1>6, <3>2 DEF BackgroundStep, BeginNothing, BeginFlush, BeginMerge, Begins, Flush,
                              FlushFails, Flushing, MergeDone, MergeFails, WriteEdit, EditFails, Busy
  <2>4. Dies => garbage' = {}
    BY DiesFrame DEF Gone
  <2>5. WriteStep \/ Others => garbage' = garbage /\ version'.log = version.log
    BY WriteFrame, OthersFrame
  <2>6. ASSUME WriteStep \/ Others PROVE GarbageInv'
    <3>1. ~WriteEdit /\ ~Install /\ ~NewDB /\ ~OpenCurrent
      BY <2>2, <2>3 DEF BackgroundStep, OpenStep
    <3>2. ~MachineCrash
      <4>1. MachineCrash => up' = "down"
        BY DEF MachineCrash, Gone
      <4>2. up \in {"clean", "up", "closing"} /\ up' \in {up, "closing"}
        BY <2>1, <2>6, WriteFrame, OthersFrame DEF Running
      <4> QED BY <4>1, <4>2
    <3> QED BY <1>1, <2>5, <2>6, <3>1, <3>2
  <2> QED BY <1>0, <2>2, <2>3, <2>4, <2>6, StepKinds
<1> QED BY <1>2, <1>3, <1>4, <1>5, <1>6

\* The record of the group is written before the group is inserted.
LEMMA RecordStep ==
    ASSUME StoreIInv, QueueInv, GroupInv, AskedInv, RecordInv, LastLogInv, GarbageInv,
           [StoreNext]_storeVars
    PROVE  RecordInv'
<1>t. WriterTypes /\ VersionType /\ LogTypes /\ PhasesInv /\ NumbersInv
  BY DEF StoreIInv, Types
<1>0. ASSUME lead'.phase \notin {"sync", "insert"} PROVE RecordInv'
  BY <1>0 DEF RecordInv
<1>l. PICK lf : lf = version.logfile
  OBVIOUS
<1>r. ASSUME lead.phase # "none"
      PROVE  /\ up = "up" /\ Running /\ lf \in DOMAIN logs /\ logs[lf] \in LogFiles
             /\ <<"log", lf>> \notin garbage
  <2>0. lf = version.logfile
    BY <1>l
  <2>1. up = "up" /\ Running
    <3>1. queue # <<>>
      BY <1>r, <1>t DEF WriterTypes
    <3> QED BY <3>1 DEF QueueInv, Running
  <2>2. lf \in DOMAIN logs
    BY <2>0, <2>1 DEF LastLogInv
  <2>3. version.log <= lf
    BY <2>0, <1>t, <2>1 DEF NumbersInv, LogNumbers
  <2>4. ~(lf < version.log)
    BY <2>0, <2>3, NumberFacts
  <2> QED BY <1>t, <2>1, <2>2, <2>4 DEF GarbageInv, LogTypes
<1>1. ASSUME lead' = lead, version'.logfile = lf, version'.last = version.last, unread' = unread,
             lead.phase \in {"sync", "insert"},
             queue # <<>> => Head(queue') = Head(queue),
             InLog(lf) \subseteq InLog(lf)', InSynced(lf) \subseteq InSynced(lf)',
             logs'[lf].torn = logs[lf].torn
      PROVE  RecordInv'
  <2>1. Numbered' = Numbered
    BY <1>1 DEF Numbered
  <2>2. Synced' = Synced
    BY <1>1, <1>t DEF Synced, WriterTypes
  <2> QED BY <1>1, <1>l, <2>1, <2>2 DEF RecordInv
<1>2. CASE AddRecord
  <2>1. /\ lead.phase = "log" /\ UNCHANGED <<queue, version>>
        /\ lead' = [lead EXCEPT !.phase = IF Synced THEN "sync" ELSE "insert"]
        /\ IF logs[lf].torn
           THEN logs' = logs /\ unread' = unread \cup Numbered
           ELSE /\ logs' = [logs EXCEPT ![lf].recs = Append(@, Numbered)]
                /\ unread' = unread
    BY <1>l, <1>2 DEF AddRecord
  <2>2. lf \in DOMAIN logs /\ logs[lf] \in LogFiles /\ logs[lf].recs \in Seq(SUBSET Batch)
    BY <1>r, <1>t, <2>1, LogRecords
  <2>3. Numbered' = Numbered /\ Synced' = Synced /\ version'.logfile = lf
    BY <1>l, <1>t, <2>1 DEF Numbered, Synced, WriterTypes
  <2>4. lead'.phase = "insert" => ~Synced
    BY <1>t, <2>1 DEF WriterTypes
  <2>5. CASE logs[lf].torn
    BY <1>l, <2>1, <2>3, <2>5 DEF RecordInv
  <2>6. CASE ~logs[lf].torn
    <3>1. logs'[lf].torn = logs[lf].torn /\ logs'[lf].recs = Append(logs[lf].recs, Numbered)
      BY <2>1, <2>2, <2>6 DEF LogFiles
    <3>2. Numbered \subseteq InLog(lf)'
      <4> DEFINE recs == logs[lf].recs
                 k == Len(recs) + 1
      <4>1. Numbered \in SUBSET Batch
        BY <1>t, NumberedType
      <4>2. k \in DOMAIN Append(recs, Numbered) /\ Append(recs, Numbered)[k] = Numbered
        BY <2>2, <4>1
      <4>3. Numbered \in ToSet(Append(recs, Numbered))
        BY <4>2 DEF ToSet
      <4>4. InLog(lf)' = UNION ToSet(Append(recs, Numbered))
        BY <3>1 DEF InLog
      <4> HIDE DEF recs, k
      <4> QED BY <4>3, <4>4
    <3>3. ASSUME NEW b \in Numbered, b \in unread PROVE FALSE
      <4>1. Writing = {}
        BY <2>1 DEF Writing
      <4>2. pc[b[1]] = "queued"
        BY <1>t, <2>1, <3>3, GroupFacts
      <4> QED BY <3>3, <4>1, <4>2 DEF AskedInv
    <3>4. Numbered \cap unread = {}
      BY <3>3
    <3> QED BY <1>l, <2>1, <2>3, <2>4, <2>6, <3>1, <3>2, <3>4 DEF RecordInv
  <2> QED BY <2>5, <2>6
<1>3. CASE SyncLog
  <2>1. /\ lead.phase = "sync" /\ UNCHANGED <<queue, version, unread>>
        /\ lead' = [lead EXCEPT !.phase = "insert"]
        /\ logs' = [logs EXCEPT ![lf].synced = Len(logs[lf].recs)]
    BY <1>l, <1>3 DEF SyncLog
  <2>2. lf \in DOMAIN logs /\ logs[lf] \in LogFiles /\ logs[lf].recs \in Seq(SUBSET Batch)
    BY <1>r, <1>t, <2>1, LogRecords
  <2>3. Numbered' = Numbered /\ version'.logfile = lf
    BY <1>l, <1>t, <2>1 DEF Numbered, WriterTypes
  <2>4. /\ logs'[lf].torn = logs[lf].torn /\ logs'[lf].recs = logs[lf].recs
        /\ logs'[lf].synced = Len(logs[lf].recs)
    BY <2>1, <2>2 DEF LogFiles
  <2>5. InLog(lf)' = InLog(lf) /\ InSynced(lf)' = InLog(lf)
    <3>1. DOMAIN logs[lf].recs = 1 .. Len(logs[lf].recs)
      BY <2>2
    <3> QED BY <2>4, <3>1 DEF InLog, InSynced, ToSet
  <2> QED BY <1>l, <2>1, <2>3, <2>4, <2>5 DEF RecordInv
<1>4. ASSUME WriteStep, ~AddRecord, ~SyncLog PROVE RecordInv'
  <2>1. AtFront \/ SwitchMemTable => lead'.phase = "room"
    BY <1>t DEF AtFront, SwitchMemTable, Switches, NoLead, WriterTypes
  <2>2. RoomFound => lead' = NoLead \/ lead'.phase = "log"
    BY DEF RoomFound, Return
  <2>3. ~AtFront /\ ~SwitchMemTable /\ ~RoomFound => lead' = NoLead
    BY <1>4 DEF WriteStep, RoomError, SwitchFails, AddRecordFails, SyncLogFails, InsertInto, Return
  <2>4. lead'.phase \notin {"sync", "insert"}
    BY <2>1, <2>2, <2>3 DEF NoLead
  <2> QED BY <1>0, <2>4
<1>5. ASSUME BackgroundStep \/ Others, lead.phase \in {"sync", "insert"} PROVE RecordInv'
  <2>1. /\ lf \in DOMAIN logs /\ <<"log", lf>> \notin garbage /\ Running /\ up = "up"
    BY <1>5, <1>r
  <2>2. ~MachineCrash /\ ~AddRecord
    <3>1. lead' = lead
      BY <1>5, BackgroundFrame, OthersFrame
    <3>2. MachineCrash => lead' = NoLead
      BY DEF MachineCrash, Gone
    <3>3. AddRecord => lead.phase = "log"
      BY DEF AddRecord
    <3> QED BY <1>5, <3>1, <3>2, <3>3 DEF NoLead
  <2>3. /\ InLog(lf) \subseteq InLog(lf)' /\ InSynced(lf) \subseteq InSynced(lf)'
    BY <2>1, <2>2, LogKept
  <2>4. /\ lead' = lead /\ version'.logfile = lf /\ version'.last = version.last /\ unread' = unread
    BY <1>l, <1>5, BackgroundFrame, OthersFrame
  <2>5. queue # <<>> => Head(queue') = Head(queue)
    <3>1. BackgroundStep => queue' = queue
      BY BackgroundFrame
    <3>2. Others => queue' = queue \/ \E w \in Writers : queue' = Append(queue, w)
      BY OthersFrame DEF Enqueue
    <3>3. ASSUME NEW w \in Writers, queue' = Append(queue, w), queue # <<>>
          PROVE  Head(queue') = Head(queue)
      <4>1. queue \in Seq(Writers)
        BY <1>t DEF WriterTypes
      <4> QED BY <3>3, <4>1
    <3> QED BY <1>5, <3>1, <3>2, <3>3
  <2>6. logs'[lf].torn = logs[lf].torn
    <3>1. CASE Clean
      <4>1. ASSUME NEW x \in garbage, RemoveFile(x) PROVE logs'[lf] = logs[lf]
        <5>1. x[1] = "log" => x[2] # lf
          <6>1. x \in {"log", "manifest", "table"} \X Nat
            BY DEF StoreIInv, Types, ProcessTypes
          <6> QED BY <2>1, <6>1
        <5> QED BY <2>1, <4>1, <5>1 DEF RemoveFile, Without
      <4> QED BY <3>1, <4>1 DEF Clean
    <3>2. CASE ~Clean
      BY <1>5, <3>2, BackgroundFrame, OthersFrame DEF disk
    <3> QED BY <3>1, <3>2
  <2> QED BY <1>1, <1>5, <2>3, <2>4, <2>5, <2>6
<1>6. ASSUME BackgroundStep \/ Others, lead.phase \notin {"sync", "insert"} PROVE RecordInv'
  <2>1. lead' = lead
    BY <1>6, BackgroundFrame, OthersFrame
  <2> QED BY <1>0, <1>6, <2>1
<1>7. ASSUME OpenStep \/ Dies PROVE RecordInv'
  <2>1. lead' = NoLead
    <3>1. OpenStep => lead = NoLead /\ lead' = lead
      BY <1>t, OpenFrame DEF PhasesInv
    <3> QED BY <1>7, <3>1, DiesFrame DEF Gone
  <2> QED BY <1>0, <2>1 DEF NoLead
<1> QED BY <1>2, <1>3, <1>4, <1>5, <1>6, <1>7, StepKinds

LEMMA TablesSame ==
    ASSUME StoreIInv, [StoreNext]_storeVars
    PROVE  \A t \in Needed \cap Needed' : tables'[t] = tables[t]
<1>1. Needed' \subseteq DOMAIN tables'
  BY FilesStep DEF StoreIInv, FilesInv
<1> QED BY <1>1, TablesKept

\* What a flush or a merge is about to record is what it has written.
LEMMA EditStep ==
    ASSUME StoreIInv, EditInv, [StoreNext]_storeVars
    PROVE  EditInv'
<1>t. /\ VersionType /\ ProcessTypes /\ ManifestTypes /\ PhasesInv
      /\ \A t \in Needed \cap Needed' : tables'[t] = tables[t]
  BY TablesSame DEF StoreIInv, Types
<1>n. version.next \in Nat /\ version.tables \in SUBSET Nat /\ version.tables \subseteq Needed
      /\ version'.tables \subseteq Needed' /\ bg.edit.add \subseteq Needed
      /\ bg'.edit.add \subseteq Needed'
  BY NumberFacts DEF Needed, ProcessTables
<1> DEFINE MergeEdit == merge # NoMerge => /\ merge.inputs \subseteq version.tables
                                           /\ tables[merge.num] = Contents(merge.inputs)
           FlushOf == /\ bg.of = "flush" /\ imm # NoTable
                      /\ Contents(bg.edit.add) = imm /\ bg.edit.del = {}
                      /\ bg.edit.log = version.logfile
           MergeOf == /\ bg.of = "merge" /\ merge # NoMerge
                      /\ bg.edit.add = {merge.num} /\ bg.edit.del = merge.inputs
                      /\ bg.edit.log = version.log
           InManifest == behind = "nothing" =>
                             bg.edit.add \subseteq TablesOf(Current) /\ Last(Current) = bg.edit
<1>e. /\ MergeEdit
      /\ bg.phase \in {"write", "sync"} => FlushOf \/ MergeOf
      /\ bg.phase = "sync" => InManifest
  BY DEF EditInv
<1>q. ASSUME MergeEdit', bg'.phase \in {"write", "sync"} => (FlushOf \/ MergeOf)',
             bg'.phase = "sync" => InManifest'
      PROVE  EditInv'
  BY <1>q DEF EditInv
<1> HIDE DEF InManifest
<1>1. ASSUME merge' # NoMerge, merge' = merge, version.tables \subseteq version'.tables
      PROVE  MergeEdit'
  <2>1. merge.inputs \subseteq version.tables /\ tables[merge.num] = Contents(merge.inputs)
    BY <1>1, <1>e
  <2>2. merge.num > 0 /\ merge.num \in Nat
    BY <1>1, <1>t DEF PhasesInv, ProcessTypes
  <2>3. merge.num \in Needed /\ merge.num \in Needed'
    BY <1>1, <2>2 DEF Needed, ProcessTables
  <2>4. \A t \in merge.inputs : t \in Needed /\ t \in Needed'
    BY <1>1, <1>n, <2>1
  <2>5. tables'[merge.num] = tables[merge.num] /\ \A t \in merge.inputs : tables'[t] = tables[t]
    BY <1>t, <2>3, <2>4
  <2>6. Contents(merge.inputs)' = Contents(merge.inputs)
    BY <1>1, <2>5 DEF Contents
  <2> QED BY <1>1, <2>1, <2>5, <2>6
<1>2. MergeEdit'
  <2>1. CASE BeginMerge
    <3>1. /\ merge' = [num |-> version.next, inputs |-> version.tables]
          /\ tables' = With(tables, version.next, Contents(version.tables))
          /\ version' = [version EXCEPT !.next = @ + 1]
      BY <2>1 DEF BeginMerge
    <3>2. merge'.inputs = version.tables /\ version'.tables = version.tables /\ merge'.num = version.next
      BY <1>t, <3>1 DEF VersionType
    <3>3. tables'[version.next] = Contents(version.tables)
      BY <3>1 DEF With
    <3>4. Contents(merge.inputs)' = Contents(version.tables)
      <4>1. \A t \in version.tables : tables'[t] = tables[t]
        BY <1>n, <1>t, <3>2
      <4> QED BY <3>2, <4>1 DEF Contents
    <3> QED BY <3>2, <3>3, <3>4
  <2>2. CASE merge' = NoMerge
    BY <2>2
  <2>3. CASE merge' # NoMerge /\ ~BeginMerge
    <3>1. merge' = merge
      <4>1. BackgroundStep => merge' = merge
        BY <2>3 DEF BackgroundStep, BeginNothing, BeginFlush, Flush, FlushFails, MergeDone, MergeFails,
                    WriteEdit, Install, EditFails, Clean
      <4>2. ~Dies
        BY <2>3, DiesFrame DEF Gone
      <4> QED BY <4>1, <4>2, WriteFrame, OpenFrame, OthersFrame, StepKinds
    <3>2. version.tables \subseteq version'.tables
      <4>1. ~OpenStep /\ ~Dies
        <5>1. up \in {"up", "closing"}
          BY <1>t, <2>3, <3>1 DEF PhasesInv
        <5> QED BY <2>3, <5>1, OpenFrame, DiesFrame DEF Gone
      <4>2. ASSUME Install PROVE version.tables \subseteq version'.tables
        <5>1. /\ version' = [version EXCEPT !.tables = Applied(@, bg.edit), !.log = bg.edit.log]
              /\ bg.phase = "sync"
              /\ merge' = IF bg.of = "merge" THEN NoMerge ELSE merge
          BY <4>2 DEF Install, Busy
        <5>2. bg.edit.del = {}
          BY <1>e, <2>3, <5>1
        <5>3. version'.tables = Applied(version.tables, bg.edit)
          BY <1>t, <5>1 DEF VersionType
        <5> QED BY <5>2, <5>3 DEF Applied
      <4> QED BY <4>1, <4>2, WriteFrame, BackgroundFrame, OthersFrame, StepKinds
    <3> HIDE DEF MergeEdit
    <3> QED BY <1>1, <2>3, <3>1, <3>2
  <2> QED BY <2>1, <2>2, <2>3
<1>3. ASSUME WriteStep \/ Others
      PROVE  /\ bg'.phase \in {"write", "sync"} => (FlushOf \/ MergeOf)'
             /\ bg'.phase = "sync" => InManifest'
  <2>1. bg' = bg /\ merge' = merge /\ version'.log = version.log /\ behind' = behind
    BY <1>3, WriteFrame, OthersFrame DEF disk
  <2>2. Contents(bg.edit.add)' = Contents(bg.edit.add)
    <3>1. \A t \in bg.edit.add : tables'[t] = tables[t]
      BY <1>n, <1>t, <2>1
    <3> QED BY <2>1, <3>1 DEF Contents
  <2>3. FlushOf => FlushOf'
    <3>1. ASSUME FlushOf PROVE imm' = imm /\ version'.logfile = version.logfile
      <4>1. ~SwitchMemTable
        BY <3>1 DEF SwitchMemTable, Switches
      <4> QED BY <1>3, <4>1, WriteFrame, OthersFrame
    <3> QED BY <2>1, <2>2, <3>1
  <2>4. MergeOf => MergeOf'
    BY <2>1
  <2>5. bg.phase = "sync" => (InManifest => InManifest')
    <3>1. SUFFICES ASSUME bg.phase = "sync" PROVE InManifest => InManifest'
      OBVIOUS
    <3>2. ~WriteEdit /\ ~Install /\ ~NewDB /\ ~OpenCurrent /\ ~MachineCrash /\ current # 0
      <4>1. current # 0 /\ up \in {"up", "closing"} /\ current = version.manifest
        BY <1>t, <3>1, BusyRuns
      <4>2. WriteEdit \/ Install => bg'.phase # bg.phase
        <5>1. WriteEdit => bg.phase = "write"
          BY DEF WriteEdit, Busy
        <5>2. Install => bg'.phase = "clean"
          BY DEF Install, NoWork
        <5> QED BY <3>1, <5>1, <5>2
      <4>3. ~NewDB /\ ~OpenCurrent
        BY <4>1 DEF NewDB, OpenCurrent
      <4>4. MachineCrash => up' = "down"
        BY DEF MachineCrash, Gone
      <4>5. up' \in {"up", "closing"}
        BY <1>3, <4>1, WriteFrame, OthersFrame
      <4> QED BY <2>1, <4>1, <4>2, <4>3, <4>4, <4>5
    <3>3. Current' = Current
      BY <3>2, ManifestKept
    <3>4. TablesOf(Current)' = TablesOf(Current) /\ Last(Current)' = Last(Current)
      BY <3>3 DEF TablesOf, Last
    <3> QED BY <2>1, <3>4 DEF InManifest
  <2> HIDE DEF FlushOf, MergeOf
  <2>6. bg.phase \in {"write", "sync"} => (FlushOf \/ MergeOf)'
    BY <1>e, <2>3, <2>4
  <2> QED BY <1>e, <2>1, <2>5, <2>6
<1>4. CASE Flush
  <2>1. /\ imm # NoTable /\ imm' = imm /\ bg'.of = "flush" /\ bg'.phase = "write"
        /\ bg'.edit.add = (IF imm = {} THEN {} ELSE {version.next})
        /\ bg'.edit.del = {} /\ bg'.edit.log = version.logfile
        /\ tables' = (IF imm = {} THEN tables ELSE With(tables, version.next, imm))
    BY <1>4 DEF Flush, Flushing, NoEdit
  <2>2. version'.logfile = version.logfile
    BY <1>4, BackgroundFrame DEF BackgroundStep
  <2>3. Contents(bg.edit.add)' = imm
    <3>1. CASE imm = {}
      BY <2>1, <3>1 DEF Contents
    <3>2. CASE imm # {}
      <4>1. tables'[version.next] = imm /\ bg'.edit.add = {version.next}
        BY <2>1, <3>2 DEF With
      <4> QED BY <4>1 DEF Contents
    <3> QED BY <3>1, <3>2
  <2> HIDE DEF MergeEdit
  <2> QED BY <1>2, <1>q, <2>1, <2>2, <2>3
<1>5. CASE MergeDone
  <2>1. /\ bg.phase = "merge" /\ merge' = merge /\ version' = version
        /\ bg'.of = "merge" /\ bg'.phase = "write" /\ bg'.edit.add = {merge.num}
        /\ bg'.edit.del = merge.inputs /\ bg'.edit.log = version.log
    BY <1>5 DEF MergeDone, Busy, NoEdit
  <2>2. merge # NoMerge
    BY <1>t, <2>1 DEF PhasesInv
  <2> HIDE DEF MergeEdit
  <2> QED BY <1>2, <1>q, <2>1, <2>2
<1>6. CASE WriteEdit
  <2> DEFINE e == Complete(bg.edit)
  <2>1. /\ bg.phase = "write" /\ bg' = [bg EXCEPT !.phase = "sync", !.edit = e]
        /\ UNCHANGED <<imm, version, merge, tables, current>>
        /\ IF behind = "nothing"
           THEN manifests' = [manifests EXCEPT ![version.manifest].edits = Append(@, e)]
           ELSE behind' = "record"
    BY <1>6 DEF WriteEdit, Busy
  <2>2. e \in Edits /\ e.add = bg.edit.add /\ e.del = bg.edit.del /\ e.log = bg.edit.log
    BY <1>t DEF Complete, Edits, ProcessTypes, VersionType
  <2> HIDE DEF e
  <2>3. bg'.edit = e /\ bg'.of = bg.of /\ bg'.phase = "sync"
    BY <1>t, <2>1 DEF ProcessTypes
  <2>4. current = version.manifest /\ current # 0
    BY <1>t, <2>1, BusyRuns
  <2>5. current \in DOMAIN manifests /\ manifests[current] \in Manifests /\ Current \in Seq(Edits)
    BY <1>t, <2>4, ManifestFacts
  <2>6. ASSUME behind = "nothing" PROVE Current' = Append(Current, e)
    BY <2>1, <2>4, <2>5, <2>6 DEF Current, Manifests
  <2>7. ASSUME behind = "nothing" PROVE TablesOf(Current)' = Applied(TablesOf(Current), e)
    <3>1. TablesOf(Append(Current, e)) = Applied(TablesOf(Current), e)
      BY <2>2, <2>5, TablesAppend
    <3> QED BY <2>6, <2>7, <3>1 DEF TablesOf
  <2>8. ASSUME behind = "nothing" PROVE Last(Current)' = e
    <3>1. Len(Append(Current, e)) = Len(Current) + 1 /\ Append(Current, e)[Len(Current) + 1] = e
      BY <2>2, <2>5
    <3> QED BY <2>6, <2>8, <3>1 DEF Last
  <2>9. InManifest'
    <3>1. CASE behind = "nothing"
      BY <2>2, <2>3, <2>7, <2>8, <3>1 DEF InManifest, Applied
    <3>2. CASE behind # "nothing"
      BY <2>1, <3>2 DEF InManifest
    <3> QED BY <3>1, <3>2
  <2>10. Contents(bg.edit.add)' = Contents(bg.edit.add)
    BY <2>1, <2>2, <2>3 DEF Contents
  <2>11. (FlushOf \/ MergeOf)'
    BY <1>e, <2>1, <2>2, <2>3, <2>10
  <2> HIDE DEF MergeEdit, FlushOf, MergeOf
  <2> QED BY <1>2, <1>q, <2>9, <2>11
<1>7. ASSUME bg'.phase \notin {"write", "sync"} PROVE EditInv'
  <2> HIDE DEF MergeEdit, FlushOf, MergeOf
  <2> QED BY <1>2, <1>7, <1>q
<1>8. ASSUME BackgroundStep, ~Flush, ~MergeDone, ~WriteEdit PROVE bg'.phase \notin {"write", "sync"}
  <2>1. \/ bg' \in {NoWork, [NoWork EXCEPT !.phase = "merge"], [NoWork EXCEPT !.phase = "flush"],
                    [NoWork EXCEPT !.phase = "clean"]}
        \/ bg' = bg /\ bg.phase = "clean"
    BY <1>8 DEF BackgroundStep, BeginNothing, BeginFlush, BeginMerge, FlushFails, MergeFails,
                Install, EditFails, Clean, GoOn, BackgroundDone, Busy
  <2> QED BY <2>1 DEF NoWork
<1>9. ASSUME OpenStep \/ Dies PROVE bg'.phase \notin {"write", "sync"}
  <2>1. OpenStep => bg.phase \in {"idle", "open"}
    <3>1. OpenStep => up \notin {"up", "closing"}
      BY OpenFrame
    <3>2. bg.phase \notin {"idle", "open"} => up \in {"up", "closing"}
      BY <1>t, BusyRuns
    <3> QED BY <3>1, <3>2
  <2>2. OpenStep => bg' = bg \/ bg'.phase = "open" \/ bg' = NoWork
    BY DEF OpenStep, NewDB, RecoverManifest, RecoverLogs, OpenLog, OpenManifest, OpenCurrent,
           OpenDone, process
  <2>3. Dies => bg' = NoWork
    BY DiesFrame DEF Gone
  <2> QED BY <1>9, <2>1, <2>2, <2>3 DEF NoWork
<1>10. CASE WriteStep \/ Others
  <2> HIDE DEF MergeEdit, FlushOf, MergeOf
  <2> QED BY <1>2, <1>3, <1>10, <1>q
<1> QED BY <1>4, <1>5, <1>6, <1>7, <1>8, <1>9, <1>10, StepKinds

\* An opening installs what it has found.
LEMMA OpeningInvStep ==
    ASSUME StoreIInv, SequenceInv, LastLogInv, GarbageInv, OpeningInv, [StoreNext]_storeVars
    PROVE  OpeningInv'
<1>t. /\ VersionType /\ ProcessTypes /\ LogTypes /\ LogsBounded /\ ManifestTypes /\ PhasesInv
      /\ FilesInv /\ AgreeInv /\ NumbersInv /\ OpenedSequences
  BY DEF StoreIInv, Types, SequenceInv
<1>p. /\ up' = "newlog" => RecoverLogs \/ UNCHANGED storeVars
      /\ up' = "manifest" => OpenLog \/ UNCHANGED storeVars
      /\ up' = "current" => OpenManifest \/ UNCHANGED storeVars
      /\ up' = "clean" => OpenCurrent \/ OpenDone \/ UNCHANGED storeVars
  BY PhaseEntered
<1> DEFINE Found0 == /\ version.tables = TablesOf(Current)
                     /\ Contents(bg.edit.add) = UNION {InLog(l) : l \in LogsFrom(Last(Current).log)}
<1>k. ASSUME RecoverLogs \/ OpenLog \/ OpenManifest
      PROVE  /\ Current' = Current /\ TablesOf(Current)' = TablesOf(Current)
             /\ Last(Current)' = Last(Current)
  <2>1. current # 0 /\ Opening
    BY <1>k, <1>t DEF RecoverLogs, OpenLog, OpenManifest, Opening, FilesInv
  <2>2. ~WriteEdit /\ ~Install /\ ~NewDB /\ ~OpenCurrent /\ ~MachineCrash
    <3>1. up' \in {"newlog", "manifest", "current"}
      BY <1>k DEF RecoverLogs, OpenLog, OpenManifest
    <3>2. ~BackgroundStep /\ ~Dies
      BY <3>1, BackgroundFrame, DiesFrame DEF Gone
    <3>3. ~NewDB /\ ~OpenCurrent
      BY <3>1 DEF NewDB, OpenCurrent, process
    <3> QED BY <3>2, <3>3 DEF BackgroundStep, Dies
  <2>3. Current' = Current
    BY <2>1, <2>2, ManifestKept
  <2> QED BY <2>3 DEF TablesOf, Last
<1>0. ASSUME UNCHANGED storeVars PROVE OpeningInv'
  <2>1. UNCHANGED <<up, version, bg, logs, tables, manifests, current>>
    BY <1>0 DEF storeVars, process, disk
  <2>2. /\ Current' = Current /\ \A l : InLog(l)' = InLog(l)
        /\ \A n : LogsFrom(n)' = LogsFrom(n)
    BY <2>1 DEF Current, InLog, LogsFrom
  <2>3. /\ TablesOf(Current)' = TablesOf(Current) /\ Last(Current)' = Last(Current)
        /\ Contents(bg.edit.add)' = Contents(bg.edit.add)
        /\ InLog(version.logfile)' = InLog(version.logfile)
        /\ logs'[version'.logfile] = logs[version.logfile]
        /\ (UNION {InLog(l) : l \in LogsFrom(Last(Current).log)})' =
              UNION {InLog(l) : l \in LogsFrom(Last(Current).log)}
    BY <2>1, <2>2 DEF TablesOf, Last, Contents, InLog, LogsFrom
  <2> QED BY <2>1, <2>3 DEF OpeningInv
<1>1. ASSUME RecoverLogs PROVE Found0'
  <2>1. /\ up = "logs" /\ logs' = logs
        /\ tables' = [t \in DOMAIN tables \cup RecoveredTables |->
                         IF t \in RecoveredTables THEN InLog(LogOf(t)) ELSE tables[t]]
        /\ bg' = [phase |-> "open", of |-> "open", edit |-> [NoEdit EXCEPT !.add = RecoveredTables]]
        /\ version' = [version EXCEPT !.next = NextRecovered, !.last = RecoveredLast]
    BY <1>1 DEF RecoverLogs, NextRecovered
  <2>2. /\ version.tables = TablesOf(Current) /\ version.log = Last(Current).log
        /\ version'.tables = version.tables
    BY <1>t, <2>1 DEF OpenedSequences, VersionType
  <2>3. bg'.edit.add = RecoveredTables
    BY <2>1 DEF NoEdit
  <2>4. \A l \in LogsWithData : LogOf(RecoveredTable(l)) = l
    BY <1>t, RecoveredNumbers
  <2>5. \A t \in RecoveredTables : tables'[t] = InLog(LogOf(t))
    BY <2>1
  <2>6. Contents(bg.edit.add)' = UNION {InLog(l) : l \in LogsWithData}
    BY <2>3, <2>4, <2>5 DEF Contents, RecoveredTables
  <2>7. UNION {InLog(l) : l \in LogsWithData} = UNION {InLog(l) : l \in LogsFrom(version.log)}
    BY DEF LogsWithData
  <2>8. (UNION {InLog(l) : l \in LogsFrom(Last(Current).log)})' =
            UNION {InLog(l) : l \in LogsFrom(Last(Current).log)}
    BY <1>1, <1>k, <2>1 DEF InLog, LogsFrom
  <2> QED BY <1>1, <1>k, <2>2, <2>6, <2>7, <2>8
<1> DEFINE NewLog0 == InLog(version.logfile) = {} /\ ~logs[version.logfile].torn
<1>2. ASSUME OpenLog PROVE Found0' /\ NewLog0'
  <2>1. /\ up = "newlog" /\ logs' = With(logs, version.next, NewLog) /\ UNCHANGED <<tables, bg>>
        /\ version' = [version EXCEPT !.logfile = version.next, !.next = @ + 1]
    BY <1>2 DEF OpenLog
  <2>2. version'.tables = version.tables /\ version'.logfile = version.next
    BY <1>t, <2>1 DEF VersionType
  <2>3. /\ DOMAIN logs' = DOMAIN logs \cup {version.next} /\ logs'[version.next] = NewLog
        /\ version.next \notin DOMAIN logs
        /\ \A l \in DOMAIN logs : logs'[l] = logs[l]
    <3>1. version.next \notin DOMAIN logs
      <4>1. ~(version.next < version.next)
        BY NumberFacts
      <4> QED BY <2>1, <4>1 DEF LastLogInv
    <3> QED BY <2>1, <3>1 DEF With
  <2>4. PICK nx : nx = version.next
    OBVIOUS
  <2>5. InLog(nx)' = {} /\ \A l \in DOMAIN logs : InLog(l)' = InLog(l)
    BY <2>3, <2>4 DEF InLog, ToSet, NewLog
  <2>6. InLog(version.logfile)' = {} /\ ~logs'[version'.logfile].torn
    BY <2>2, <2>3, <2>4, <2>5 DEF NewLog
  <2>7. (UNION {InLog(l) : l \in LogsFrom(Last(Current).log)})' =
            UNION {InLog(l) : l \in LogsFrom(Last(Current).log)}
    <3>1. PICK k : k = Last(Current).log
      OBVIOUS
    <3>2. Last(Current)'.log = k
      BY <1>2, <1>k, <3>1
    <3>3. \A l : l \in LogsFrom(k)' <=> l \in LogsFrom(k) \/ (l = nx /\ nx >= k)
      BY <2>3, <2>4 DEF LogsFrom
    <3>4. \A l \in LogsFrom(k) : InLog(l)' = InLog(l)
      BY <2>5 DEF LogsFrom
    <3>5. UNION {InLog(l)' : l \in LogsFrom(k)'} = UNION {InLog(l) : l \in LogsFrom(k)}
      BY <2>5, <3>3, <3>4
    <3> QED BY <3>1, <3>2, <3>5
  <2>8. Contents(bg.edit.add)' = Contents(bg.edit.add)
    BY <2>1 DEF Contents
  <2>9. Found0
    BY <2>1 DEF OpeningInv
  <2> QED BY <1>2, <1>k, <2>2, <2>6, <2>7, <2>8, <2>9
<1>3. ASSUME OpenManifest PROVE Found0' /\ NewLog0'
  <2>1. up = "manifest" /\ UNCHANGED <<logs, tables, bg, version>>
    BY <1>3 DEF OpenManifest
  <2>2. InLog(version.logfile)' = InLog(version.logfile)
    BY <2>1 DEF InLog
  <2>3. (UNION {InLog(l) : l \in LogsFrom(Last(Current).log)})' =
            UNION {InLog(l) : l \in LogsFrom(Last(Current).log)}
    BY <1>3, <1>k, <2>1 DEF InLog, LogsFrom
  <2>4. Contents(bg.edit.add)' = Contents(bg.edit.add)
    BY <2>1 DEF Contents
  <2>5. Found0 /\ NewLog0
    BY <2>1 DEF OpeningInv
  <2> QED BY <1>3, <1>k, <2>1, <2>2, <2>3, <2>4, <2>5
<1>4. ASSUME OpenCurrent PROVE NewLog0' /\ Last(Current)'.log = version'.logfile
  <2> DEFINE E == manifests[version.manifest].edits
  <2>1. /\ up = "current" /\ logs' = logs /\ manifests' = manifests /\ current' = version.manifest
        /\ version' = [version EXCEPT !.tables = Applied(@, bg.edit), !.log = version.logfile]
    BY <1>4 DEF OpenCurrent
  <2>2. version'.logfile = version.logfile
    BY <1>t, <2>1 DEF VersionType
  <2>3. Len(E) = 2 /\ E[2].log = version.logfile
    BY <1>t, <2>1 DEF AgreeInv, Opened, NumbersInv, OpenedNumbers
  <2>4. Last(Current)' = E[2]
    BY <2>1, <2>3 DEF Current, Last
  <2>5. InLog(version.logfile)' = InLog(version.logfile)
    BY <2>1, <2>2 DEF InLog
  <2>6. NewLog0
    BY <2>1 DEF OpeningInv
  <2> QED BY <2>1, <2>2, <2>3, <2>4, <2>5, <2>6
<1>5. ASSUME OpenDone, up' = "clean"
      PROVE  NewLog0' /\ Last(Current)'.log = version'.logfile
  <2>1. up = "clean" /\ version' = version /\ Running
    BY <1>5 DEF OpenDone, Running
  <2>2. PICK lf : lf = version.logfile
    OBVIOUS
  <2>3. /\ InLog(lf) = {} /\ ~logs[lf].torn
        /\ Last(Current).log = version.logfile /\ lf \in DOMAIN logs
    BY <2>1, <2>2 DEF OpeningInv, LastLogInv
  <2>4. <<"log", lf>> \notin garbage
    <3>1. version.log <= lf
      BY <1>t, <2>1, <2>2 DEF NumbersInv, LogNumbers
    <3>2. ~(lf < version.log)
      BY <2>2, <3>1, NumberFacts
    <3> QED BY <3>2 DEF GarbageInv
  <2>5. ~WriteStep /\ ~BackgroundStep /\ ~Dies
    BY <1>5, <2>1, WriteFrame, BackgroundFrame, DiesFrame DEF Gone
  <2>6. ~MachineCrash /\ ~AddRecord /\ ~WriteEdit /\ ~Install /\ ~NewDB /\ ~OpenCurrent
    BY <2>1, <2>5 DEF Dies, WriteStep, BackgroundStep, NewDB, OpenCurrent
  <2>7. InLog(lf)' = InLog(lf)
    BY <2>3, <2>4, <2>6, LogKept
  <2>8. Current' = Current
    <3>1. current # 0
      BY <1>t, <2>1 DEF PhasesInv
    <3> QED BY <2>6, <3>1, ManifestKept
  <2>9. Last(Current)' = Last(Current)
    BY <2>8 DEF Last
  <2>10. logs'[lf] = logs[lf]
    <3>1. PICK x \in garbage : RemoveFile(x)
      BY <1>5, <2>1 DEF OpenDone
    <3>2. x \in {"log", "manifest", "table"} \X Nat
      BY <3>1 DEF StoreIInv, Types, ProcessTypes
    <3>3. x[1] = "log" => x[2] # lf
      BY <2>4, <3>1, <3>2
    <3> QED BY <2>3, <3>1, <3>3 DEF RemoveFile, Without
  <2>11. NewLog0'
    BY <2>1, <2>2, <2>3, <2>7, <2>10
  <2> QED BY <2>1, <2>3, <2>9, <2>11
<1> HIDE DEF Found0
<1>6. ASSUME ~UNCHANGED storeVars PROVE OpeningInv'
  <2>1. up' \in {"newlog", "manifest", "current"} => Found0'
    BY <1>1, <1>2, <1>3, <1>6, <1>p
  <2>2. up' \in {"manifest", "current", "clean"} => NewLog0'
    <3> HIDE DEF NewLog0
    <3> QED BY <1>2, <1>3, <1>4, <1>5, <1>6, <1>p
  <2>3. up' = "clean" => Last(Current)'.log = version'.logfile
    BY <1>4, <1>5, <1>6, <1>p
  <2> QED BY <2>1, <2>2, <2>3 DEF OpeningInv, Found0
<1> QED BY <1>0, <1>6

-----------------------------------------------------------------------------
(* What is visible, and what an open would find.                               *)

\* The end of the manifest that a recovery reads now.
LEMMA Newest ==
    ASSUME StoreIInv
    PROVE  /\ current \notin {0, 1} \/ Opening \/ Running => current # 0 /\ Current # <<>>
           /\ current # 0 /\ Current # <<>> =>
                 /\ Len(Current) \in Lengths \ {0} /\ Last(Current) = Current[Len(Current)]
                 /\ TablesOf(Prefix(Len(Current))) = TablesOf(Current)
                 /\ Recoverable = Contents(TablesOf(Current))
                                  \cup UNION {InLog(l) : l \in LogsFrom(Last(Current).log)}
           /\ current = 0 \/ Current = <<>> => Recoverable = {}
<1>t. ManifestTypes /\ FilesInv /\ NumbersInv /\ PhasesInv
  BY DEF StoreIInv, Types
<1>1. ASSUME NEW n \in Lengths, n # 0 PROVE Current # <<>>
  <2>1. n \in 1 .. Len(Current)
    BY <1>1, NumberFacts
  <2>2. Current = <<>> => Len(Current) = 0
    OBVIOUS
  <2> QED BY <2>1, <2>2
<1>2. ASSUME current \notin {0, 1} PROVE current # 0 /\ Current # <<>>
  <2>1. /\ Len(Current) \in Lengths /\ Len(Current) \in Nat /\ manifests[current].synced \in Nat
        /\ manifests[current].synced <= Len(Current) /\ manifests[current].synced > 0
    BY <1>2, <1>t, ManifestFacts DEF FilesInv
  <2>2. Len(Current) # 0
    BY <2>1
  <2> QED BY <1>1, <1>2, <2>1, <2>2
<1>3. ASSUME Opening \/ Running PROVE current # 0 /\ Current # <<>>
  <2>1. Lengths \ {0} # {}
    BY <1>3, <1>t DEF NumbersInv, VersionNumbers
  <2>2. current # 0
    BY <1>3, <1>t DEF FilesInv, PhasesInv
  <2> QED BY <1>1, <2>1, <2>2
<1>4. ASSUME current # 0, Current # <<>>
      PROVE  /\ Len(Current) \in Lengths \ {0} /\ Last(Current) = Current[Len(Current)]
             /\ TablesOf(Prefix(Len(Current))) = TablesOf(Current)
             /\ Recoverable = Contents(TablesOf(Current))
                              \cup UNION {InLog(l) : l \in LogsFrom(Last(Current).log)}
  <2>1. /\ Len(Current) \in Lengths /\ Len(Current) > 0 /\ Last(Current) = Current[Len(Current)]
        /\ Len(Current) \in Nat
    BY <1>4, <1>t, ManifestFacts
  <2>2. Prefix(Len(Current)) = Current
    BY <1>4, NumberFacts
  <2>3. Recoverable = Contents(TablesOf(Current))
                      \cup UNION {InLog(l) : l \in LogsFrom(Last(Current).log)}
    BY <1>4 DEF Recoverable, Current
  <2> QED BY <2>1, <2>2, <2>3
<1>5. current = 0 \/ Current = <<>> => Recoverable = {}
  BY DEF Recoverable, Current
<1> QED BY <1>2, <1>3, <1>4, <1>5

LEMMA VisibleStored ==
    ASSUME StoreIInv
    PROVE  /\ Recoverable \subseteq Stored /\ Visible \subseteq Stored
           /\ up \in {"up", "closing"} => Visible \subseteq InMemory \cup Contents(Needed)
<1>1. Recoverable \subseteq Stored
  <2>1. CASE current = 0 \/ Current = <<>>
    BY <2>1, Newest
  <2>2. CASE current # 0 /\ Current # <<>>
    <3>1. /\ Len(Current) \in Lengths /\ TablesOf(Prefix(Len(Current))) = TablesOf(Current)
          /\ Recoverable = Contents(TablesOf(Current))
                           \cup UNION {InLog(l) : l \in LogsFrom(Last(Current).log)}
      BY <2>2, Newest
    <3>2. TablesOf(Current) \subseteq Needed
      BY <3>1 DEF Needed, ManifestTables
    <3>3. Contents(TablesOf(Current)) \subseteq Contents(Needed)
      BY <3>2 DEF Contents
    <3>4. UNION {InLog(l) : l \in LogsFrom(Last(Current).log)} \subseteq InLogs
      BY DEF InLogs, LogsFrom
    <3> QED BY <3>1, <3>3, <3>4 DEF Stored
  <2> QED BY <2>1, <2>2
<1>2. Contents(version.tables) \subseteq Contents(Needed)
  BY DEF Contents, Needed, ProcessTables
<1> QED BY <1>1, <1>2 DEF Visible, InMemory, Stored

\* Where the manifest stays as it is and no record is written, an open would find the same.
LEMMA RecoverableSame ==
    ASSUME StoreIInv, LastLogInv, GarbageInv, [StoreNext]_storeVars, current # 0, Current # <<>>,
           ~WriteEdit, ~Install, ~NewDB, ~OpenCurrent, ~MachineCrash, ~AddRecord
    PROVE  Recoverable' = Recoverable
<1>i. StoreIInv'
  BY FilesStep
<1>1. /\ current' = current /\ Lengths' = Lengths /\ Current' = Current
      /\ \A n \in Lengths : Prefix(n)' = Prefix(n)
  BY ManifestKept
<1>2. /\ Len(Current) \in Lengths \ {0} /\ Last(Current) = Current[Len(Current)]
      /\ TablesOf(Prefix(Len(Current))) = TablesOf(Current)
      /\ Recoverable = Contents(TablesOf(Current))
                       \cup UNION {InLog(l) : l \in LogsFrom(Last(Current).log)}
  BY Newest
<1>k. PICK k : k = Last(Current).log
  OBVIOUS
<1>3. TablesOf(Current)' = TablesOf(Current) /\ Last(Current)' = Last(Current)
  BY <1>1 DEF TablesOf, Last
<1>4. Recoverable' = Contents(TablesOf(Current))' \cup UNION {InLog(l)' : l \in LogsFrom(k)'}
  <2>1. Recoverable' = Contents(TablesOf(Current))'
                       \cup (UNION {InLog(l) : l \in LogsFrom(Last(Current).log)})'
    BY <1>1 DEF Recoverable, Current, Contents, InLog, LogsFrom
  <2> QED BY <1>3, <1>k, <2>1 DEF LogsFrom
<1>5. Contents(TablesOf(Current))' = Contents(TablesOf(Current))
  <2>1. TablesOf(Current) \subseteq Needed
    BY <1>2 DEF Needed, ManifestTables
  <2>2. ManifestTables' = ManifestTables
    BY <1>1 DEF ManifestTables, TablesOf
  <2>3. TablesOf(Current) \subseteq Needed'
    BY <1>2, <2>2 DEF Needed, ManifestTables
  <2>4. \A t \in TablesOf(Current) : tables'[t] = tables[t]
    BY <2>1, <2>3, TablesSame
  <2> QED BY <1>3, <2>4 DEF Contents
<1>6. ASSUME NEW l \in LogsFrom(k) PROVE l \in LogsFrom(k)' /\ InLog(l)' = InLog(l)
  <2>1. l \in DOMAIN logs /\ l >= k
    BY DEF LogsFrom
  <2>2. <<"log", l>> \notin garbage
    <3>1. <<"log", l>> \in garbage => l < k
      BY <1>2, <1>k DEF GarbageInv
    <3>2. l \in Nat /\ k \in Nat
      BY <1>2, <1>k, <2>1, NumberFacts, StoredFacts DEF Edits
    <3> QED BY <2>1, <3>1, <3>2
  <2>3. l \in DOMAIN logs' /\ InLog(l)' = InLog(l)
    BY <2>1, <2>2, LogKept
  <2> QED BY <2>1, <2>3 DEF LogsFrom
<1>7. ASSUME NEW l \in LogsFrom(k)' PROVE l \in LogsFrom(k) \/ InLog(l)' = {}
  <2>1. l \in DOMAIN logs' /\ l >= k
    BY DEF LogsFrom
  <2>2. l \notin DOMAIN logs => InLog(l)' = {}
    BY <2>1, LogBegun
  <2> QED BY <2>1, <2>2 DEF LogsFrom
<1>8. UNION {InLog(l)' : l \in LogsFrom(k)'} = UNION {InLog(l) : l \in LogsFrom(k)}
  BY <1>6, <1>7
<1> QED BY <1>2, <1>k, <1>4, <1>5, <1>8

\* OpenCurrent: the new manifest has the tables that were found, and no log but an empty one.
LEMMA InstalledByOpening ==
    ASSUME StoreIInv, LastLogInv, OpeningInv, OpenCurrent
    PROVE  /\ version'.tables = version.tables \cup bg.edit.add
           /\ version'.logfile = version.logfile /\ version'.log = version.logfile
           /\ Lengths' = {2} /\ Current'[2].log = version.logfile
           /\ TablesOf(Prefix(2))' = version'.tables /\ TablesOf(Current)' = version'.tables
           /\ Visible = Contents(version'.tables) /\ Visible' = Contents(version'.tables)
<1>t. /\ VersionType /\ PhasesInv /\ AgreeInv /\ NumbersInv /\ ManifestTypes /\ LogTypes
  BY DEF StoreIInv, Types
<1> DEFINE E == manifests[version.manifest].edits
<1>1. /\ up = "current" /\ up' = "clean" /\ current' = version.manifest
      /\ UNCHANGED <<logs, manifests, tables>>
      /\ version' = [version EXCEPT !.tables = Applied(@, bg.edit), !.log = version.logfile]
  BY DEF OpenCurrent
<1>2. bg.edit.del = {}
  BY <1>t, <1>1 DEF PhasesInv
<1>3. /\ version'.tables = version.tables \cup bg.edit.add
      /\ version'.logfile = version.logfile /\ version'.log = version.logfile
  BY <1>t, <1>1, <1>2 DEF VersionType, Applied
<1>4. /\ version.manifest \in DOMAIN manifests /\ version.manifest # 0
      /\ manifests[version.manifest].synced = 2 /\ Opened(E) /\ E[2].log = version.logfile
  BY <1>t, <1>1 DEF AgreeInv, NumbersInv, OpenedNumbers
<1>5. E \in Seq(Edits) /\ Len(E) = 2
  BY <1>t, <1>4 DEF ManifestTypes, Manifests, Opened
<1>6. Current' = E
  BY <1>1 DEF Current
<1> HIDE DEF E
<1>7. Lengths' = {2}
  <2>1. 2 .. 2 = {2}
    OBVIOUS
  <2> QED BY <1>1, <1>4, <1>5, <1>6, <2>1 DEF Lengths
<1>8. TablesOf(E) = version'.tables
  <2>1. TablesOf(E) = E[1].add \cup E[2].add
    BY <1>4, <1>5, TablesOfTwo DEF Opened
  <2>2. E[1].add = version.tables /\ E[2].add = bg.edit.add
    BY <1>4 DEF Opened, NoEdit
  <2> QED BY <1>3, <2>1, <2>2
<1>9. TablesOf(Prefix(2))' = version'.tables
  <2>1. SubSeq(E, 1, 2) = E
    BY <1>5, PrefixFacts
  <2> QED BY <1>6, <1>8, <2>1 DEF Prefix, TablesOf
<1>10. TablesOf(Current)' = version'.tables
  BY <1>6, <1>8 DEF TablesOf
<1>11. Visible = Contents(version'.tables)
  <2>1. Opening
    BY <1>1 DEF Opening
  <2>2. /\ Recoverable = Contents(TablesOf(Current))
                         \cup UNION {InLog(l) : l \in LogsFrom(Last(Current).log)}
    BY <2>1, Newest
  <2>3. /\ version.tables = TablesOf(Current)
        /\ Contents(bg.edit.add) = UNION {InLog(l) : l \in LogsFrom(Last(Current).log)}
    BY <1>1 DEF OpeningInv
  <2>4. Contents(version'.tables) = Contents(version.tables) \cup Contents(bg.edit.add)
    BY <1>3 DEF Contents
  <2> QED BY <1>1, <2>2, <2>3, <2>4 DEF Visible
<1>12. Visible' = Contents(version'.tables)
  <2>1. PICK lf : lf = version.logfile
    OBVIOUS
  <2>2. InLog(lf) = {} /\ \A l \in DOMAIN logs : l <= lf
    BY <1>1, <2>1 DEF OpeningInv, LastLogInv
  <2>3. ASSUME NEW l \in LogsFrom(lf) PROVE l = lf
    <3>1. l \in DOMAIN logs /\ l >= lf /\ l \in Nat /\ lf \in Nat
      BY <2>1, NumberFacts, StoredFacts DEF LogsFrom
    <3>2. l <= lf
      BY <2>2, <3>1
    <3> QED BY <3>1, <3>2
  <2>4. UNION {InLog(l) : l \in LogsFrom(lf)} = {}
    BY <2>2, <2>3
  <2>5. Last(E).log = lf /\ E # <<>>
    <3>1. Last(E) = E[2]
      BY <1>5 DEF Last
    <3>2. E = <<>> => Len(E) = 0
      OBVIOUS
    <3> QED BY <1>4, <1>5, <2>1, <3>1, <3>2
  <2>6. Recoverable' = Contents(TablesOf(E)) \cup UNION {InLog(l) : l \in LogsFrom(lf)}
    BY <1>1, <1>4, <2>5 DEF Recoverable, E, Contents, InLog, LogsFrom
  <2> QED BY <1>1, <1>8, <2>4, <2>6 DEF Visible
<1> QED BY <1>3, <1>4, <1>6, <1>7, <1>9, <1>10, <1>11, <1>12

\* A flush puts the memtable into a table, a merge the tables it read into one.
LEMMA EditContents ==
    ASSUME StoreIInv, EditInv, bg.phase \in {"write", "sync"}, NEW T
    PROVE  /\ Contents(T) \subseteq Contents(Applied(T, bg.edit))
           /\ bg.of = "flush" => /\ imm # NoTable /\ bg.edit.log = version.logfile
                                 /\ Contents(Applied(T, bg.edit)) = Contents(T) \cup imm
                                 /\ imm = Contents(bg.edit.add)
           /\ bg.of # "flush" => /\ bg.of = "merge" /\ bg.edit.log = version.log
                                 /\ version.tables \subseteq T =>
                                        Contents(Applied(T, bg.edit)) = Contents(T)
<1>1. CASE /\ bg.of = "flush" /\ imm # NoTable
           /\ Contents(bg.edit.add) = imm /\ bg.edit.del = {}
           /\ bg.edit.log = version.logfile
  <2>1. Applied(T, bg.edit) = T \cup bg.edit.add
    BY <1>1 DEF Applied
  <2>2. Contents(Applied(T, bg.edit)) = Contents(T) \cup imm
    BY <1>1, <2>1 DEF Contents
  <2> QED BY <1>1, <2>2
<1>2. CASE /\ bg.of = "merge" /\ merge # NoMerge
           /\ bg.edit.add = {merge.num} /\ bg.edit.del = merge.inputs
           /\ bg.edit.log = version.log
  <2>1. Applied(T, bg.edit) = (T \ merge.inputs) \cup {merge.num}
    BY <1>2 DEF Applied
  <2>2. merge.inputs \subseteq version.tables /\ tables[merge.num] = Contents(merge.inputs)
    BY <1>2 DEF EditInv
  <2>3. Contents(Applied(T, bg.edit)) = Contents(T \ merge.inputs) \cup Contents(merge.inputs)
    BY <2>1, <2>2 DEF Contents
  <2>4. Contents(T) \subseteq Contents(Applied(T, bg.edit))
    BY <2>3 DEF Contents
  <2>5. version.tables \subseteq T => Contents(Applied(T, bg.edit)) = Contents(T)
    BY <2>2, <2>3 DEF Contents
  <2> QED BY <1>2, <2>4, <2>5
<1> QED BY <1>1, <1>2 DEF EditInv

\* No step but an insertion changes what readers see while the process lives.
LEMMA VisibleStep ==
    ASSUME StoreIInv, LastLogInv, GarbageInv, EditInv, OpeningInv, [StoreNext]_storeVars,
           ~InsertInto, ~Dies
    PROVE  Visible' = Visible
<1>t. /\ VersionType /\ ProcessTypes /\ LogTypes /\ ManifestTypes /\ PhasesInv /\ FilesInv
      /\ AgreeInv /\ NumbersInv
  BY DEF StoreIInv, Types
<1>n. /\ NoTable \cap Batch = {} /\ mem \subseteq Batch
      /\ version.tables \subseteq Needed /\ version'.tables \subseteq Needed'
  BY <1>t, Constants DEF ProcessTypes, Needed, ProcessTables
<1>1. ASSUME up \in {"up", "closing"}, up' \in {"up", "closing"},
             version'.tables = version.tables, mem' = mem, imm' = imm
      PROVE  Visible' = Visible
  <2>1. \A t \in version.tables : tables'[t] = tables[t]
    BY <1>1, <1>n, TablesSame
  <2>2. Contents(version.tables)' = Contents(version.tables)
    BY <1>1, <2>1 DEF Contents
  <2> QED BY <1>1, <2>2 DEF Visible
<1>2. CASE WriteStep
  <2>1. up \in {"up", "closing"} /\ up' = up /\ version'.tables = version.tables /\ tables' = tables
    BY <1>2, WriteFrame
  <2>2. CASE SwitchMemTable
    <3>1. imm = NoTable /\ imm' = mem /\ mem' = {}
      BY <2>2 DEF SwitchMemTable, Switches
    <3>2. mem \ NoTable = mem
      BY <1>n
    <3>3. Contents(version.tables)' = Contents(version.tables)
      BY <2>1 DEF Contents
    <3> QED BY <2>1, <3>1, <3>2, <3>3 DEF Visible
  <2>3. CASE ~SwitchMemTable
    BY <1>1, <1>2, <2>1, <2>3, WriteFrame
  <2> QED BY <2>2, <2>3
<1>3. CASE BackgroundStep
  <2>1. up \in {"up", "closing"} /\ up' = up /\ mem' = mem
    BY <1>3, BackgroundFrame
  <2>2. CASE Install
    <3>1. /\ bg.phase = "sync" /\ tables' = tables
          /\ version' = [version EXCEPT !.tables = Applied(@, bg.edit), !.log = bg.edit.log]
          /\ imm' = IF bg.of = "flush" THEN NoTable ELSE imm
      BY <2>2 DEF Install, Busy
    <3>2. version'.tables = Applied(version.tables, bg.edit)
      BY <1>t, <3>1 DEF VersionType
    <3>3. Contents(version.tables)' = Contents(Applied(version.tables, bg.edit))
      BY <3>1, <3>2 DEF Contents
    <3>4. CASE bg.of = "flush"
      <4>1. Contents(Applied(version.tables, bg.edit)) = Contents(version.tables) \cup imm /\ imm # NoTable
        BY <3>1, <3>4, EditContents
      <4>2. imm \ NoTable = imm
        BY <1>n, <1>t, <4>1 DEF ProcessTypes
      <4> QED BY <2>1, <3>1, <3>3, <3>4, <4>1, <4>2 DEF Visible
    <3>5. CASE bg.of # "flush"
      <4>1. Contents(Applied(version.tables, bg.edit)) = Contents(version.tables)
        BY <3>1, <3>5, EditContents
      <4> QED BY <2>1, <3>1, <3>3, <3>5, <4>1 DEF Visible
    <3> QED BY <3>4, <3>5
  <2>3. CASE ~Install
    BY <1>1, <1>3, <2>1, <2>3, BackgroundFrame
  <2> QED BY <2>2, <2>3
<1>4. CASE Others
  <2>1. /\ UNCHANGED <<version, mem, imm, disk>>
        /\ up' = up \/ (up = "up" /\ up' = "closing")
    BY <1>4, OthersFrame
  <2>2. CASE up \in {"up", "closing"}
    BY <1>1, <2>1, <2>2
  <2>3. CASE up \notin {"up", "closing"}
    <3>1. Recoverable' = Recoverable
      BY <2>1 DEF disk, Recoverable, Contents, InLog, LogsFrom
    <3> QED BY <2>1, <2>3, <3>1 DEF Visible
  <2> QED BY <2>2, <2>3
<1>5. ASSUME OpenStep, ~NewDB, ~OpenCurrent PROVE Recoverable' = Recoverable
  <2>1. current # 0
    <3>1. RecoverManifest => current # 0
      BY DEF RecoverManifest
    <3>2. RecoverLogs \/ OpenLog \/ OpenManifest \/ OpenDone => Opening \/ Running
      BY DEF RecoverLogs, OpenLog, OpenManifest, OpenDone, Opening, Running
    <3> QED BY <1>5, <3>1, <3>2, Newest DEF OpenStep
  <2>2. ~WriteStep /\ ~BackgroundStep
    BY <1>5, OpenFrame, WriteFrame, BackgroundFrame
  <2>3. CASE Current # <<>>
    BY <1>5, <2>1, <2>2, <2>3, RecoverableSame DEF WriteStep, BackgroundStep, Dies
  <2>4. CASE Current = <<>>
    <3>1. Current' = Current /\ current' = current
      BY <1>5, <2>1, <2>2, ManifestKept DEF BackgroundStep, Dies
    <3> QED BY <2>1, <2>4, <3>1 DEF Recoverable, Current
  <2> QED BY <2>3, <2>4
<1>6. CASE OpenStep /\ ~NewDB /\ ~OpenCurrent /\ up' # "up"
  <2>1. up \notin {"up", "closing"} /\ up' \notin {"up", "closing"}
    <3>1. up' # "closing"
      BY <1>6, OpenFrame DEF OpenStep, RecoverManifest, RecoverLogs, OpenLog, OpenManifest, OpenDone
    <3> QED BY <1>6, <3>1, OpenFrame
  <2> QED BY <1>5, <1>6, <2>1 DEF Visible
<1>7. CASE OpenStep /\ ~NewDB /\ ~OpenCurrent /\ up' = "up"
  <2>1. OpenDone
    BY <1>7, OpenFrame DEF OpenStep, RecoverManifest, RecoverLogs, OpenLog, OpenManifest
  <2>2. up = "clean" /\ version' = version /\ tables' = tables /\ mem' = mem /\ imm' = imm /\ Running
    BY <1>7, <2>1 DEF OpenDone, Running
  <2>3. mem = {} /\ imm = NoTable /\ ~bgError /\ bg.phase = "idle"
    BY <1>t, <2>2 DEF PhasesInv, NoWork
  <2>4. TablesOf(Current) = version.tables
    BY <1>t, <2>2, <2>3 DEF AgreeInv
  <2>5. PICK lf : lf = version.logfile
    OBVIOUS
  <2>6. Last(Current).log = lf /\ InLog(lf) = {} /\ \A l \in DOMAIN logs : l <= lf
    BY <2>2, <2>5 DEF OpeningInv, LastLogInv
  <2>7. ASSUME NEW l \in LogsFrom(lf) PROVE l = lf
    <3>1. l \in DOMAIN logs /\ l >= lf /\ l \in Nat /\ lf \in Nat
      BY <2>5, NumberFacts, StoredFacts DEF LogsFrom
    <3>2. l <= lf
      BY <2>6, <3>1
    <3> QED BY <3>1, <3>2
  <2>8. UNION {InLog(l) : l \in LogsFrom(lf)} = {}
    BY <2>6, <2>7
  <2>9. Recoverable = Contents(version.tables)
    BY <2>2, <2>4, <2>6, <2>8, Newest
  <2>10. Contents(version.tables)' = Contents(version.tables)
    BY <2>2 DEF Contents
  <2> QED BY <1>7, <2>2, <2>3, <2>9, <2>10 DEF Visible
<1>8. CASE NewDB
  <2>1. /\ up = "down" /\ up' = up /\ current = 0 /\ current' = 1 /\ logs' = logs
        /\ manifests' = With(manifests, 1, [edits |-> <<[NoEdit EXCEPT !.next = 2]>>, synced |-> 0])
    BY <1>8 DEF NewDB, process
  <2>2. DOMAIN logs = {}
    BY <2>1 DEF LastLogInv
  <2> DEFINE e == [NoEdit EXCEPT !.next = 2]
  <2>3. e \in Edits /\ e.add = {}
    BY Constants DEF NoEdit, Edits
  <2> HIDE DEF e
  <2>4. manifests'[1].edits = <<e>>
    BY <2>1 DEF With, e
  <2>5. TablesOf(<<e>>) = {}
    <3>1. <<e>> \in Seq(Edits) /\ Len(<<e>>) = 1 /\ <<e>>[1] = e
      BY <2>3
    <3> QED BY <2>3, <3>1, TablesOfOne
  <2>6. Recoverable' = {}
    BY <2>1, <2>2, <2>4, <2>5 DEF Recoverable, Contents, LogsFrom
  <2>7. Recoverable = {}
    BY <2>1 DEF Recoverable
  <2> QED BY <2>1, <2>6, <2>7 DEF Visible
<1>9. CASE OpenCurrent
  <2>1. Visible = Contents(version'.tables)
    BY <1>9, InstalledByOpening
  <2>2. Visible' = Contents(version'.tables)
    BY <1>9, InstalledByOpening
  <2> QED BY <2>1, <2>2
<1> QED BY <1>2, <1>3, <1>4, <1>6, <1>7, <1>8, <1>9, StepKinds

-----------------------------------------------------------------------------
(* What was acknowledged is kept.                                              *)

\* Nothing that was acknowledged before is written anew.
LEMMA AckedBefore ==
    ASSUME StoreIInv, QueueInv, GroupInv, [StoreNext]_storeVars
    PROVE  /\ \A b \in Stored' : b[1] \in Acknowledged => b \in Stored
           /\ \A l \in DOMAIN logs' : \A b \in InLog(l)' :
                 b[1] \in Acknowledged => l \in DOMAIN logs /\ b \in InLog(l)
<1>t. WriterTypes /\ VersionType /\ LogTypes
  BY DEF StoreIInv, Types
<1>1. ASSUME AddRecord \/ InsertInto, NEW b \in Numbered PROVE b[1] \notin Acknowledged
  <2>1. lead.phase \in {"log", "insert"}
    BY <1>1 DEF AddRecord, InsertInto
  <2>2. result[b[1]] = "none"
    BY <1>1, <1>t, <2>1, GroupFacts
  <2> QED BY <2>2 DEF Acknowledged
<1>2. ASSUME NEW b \in Stored', b[1] \in Acknowledged PROVE b \in Stored
  BY <1>1, <1>2, StoredStep
<1>3. ASSUME NEW l \in DOMAIN logs', NEW b \in InLog(l)', b[1] \in Acknowledged
      PROVE  l \in DOMAIN logs /\ b \in InLog(l)
  BY <1>1, <1>3, <1>t, LogStep
<1> QED BY <1>2, <1>3

\* With an end of the manifest that stays the same is found.
LEMMA FoundKept ==
    ASSUME StoreIInv, LastLogInv, GarbageInv, [StoreNext]_storeVars, ~MachineCrash,
           NEW n \in (Lengths \cap Lengths') \ {0}, Current'[n] = Current[n], Prefix(n)' = Prefix(n)
    PROVE  FoundTables(n)' = FoundTables(n) /\ Found(n) \subseteq Found(n)'
<1>1. FoundTables(n)' = FoundTables(n)
  <2>1. TablesOf(Prefix(n))' = TablesOf(Prefix(n))
    BY DEF TablesOf
  <2>2. TablesOf(Prefix(n)) \subseteq Needed
    BY DEF Needed, ManifestTables
  <2>3. TablesOf(Prefix(n))' \subseteq Needed'
    BY DEF Needed, ManifestTables
  <2>4. \A t \in TablesOf(Prefix(n)) : tables'[t] = tables[t]
    BY <2>1, <2>2, <2>3, TablesSame
  <2> QED BY <2>1, <2>4 DEF FoundTables, Contents
<1>k. PICK k : k = Current[n].log
  OBVIOUS
<1>2. ASSUME NEW l \in LogsFrom(k) PROVE l \in LogsFrom(k)' /\ Secured(l) \subseteq Secured(l)'
  <2>1. l \in DOMAIN logs /\ l >= k
    BY DEF LogsFrom
  <2>2. <<"log", l>> \notin garbage
    <3>1. <<"log", l>> \in garbage => l < k
      BY <1>k DEF GarbageInv
    <3>2. l \in Nat /\ k \in Nat
      BY <1>k, <2>1, NumberFacts, StoredFacts DEF Edits
    <3> QED BY <2>1, <3>1, <3>2
  <2>3. l \in DOMAIN logs' /\ Secured(l) \subseteq Secured(l)'
    BY <2>1, <2>2, LogKept
  <2> QED BY <2>1, <2>3 DEF LogsFrom
<1>3. Found(n) = FoundTables(n) \cup UNION {Secured(l) : l \in LogsFrom(k)}
  BY <1>k DEF Found
<1>4. Found(n)' = FoundTables(n)' \cup UNION {Secured(l)' : l \in LogsFrom(k)'}
  BY <1>k DEF Found
<1> QED BY <1>1, <1>2, <1>3, <1>4

\* What holds of the end n of the manifest.
EndKept(n) ==
    /\ Acked(Visible) \subseteq Found(n)
    /\ \A l \in DOMAIN logs : l < Current[n].log => Acked(InLog(l)) \subseteq FoundTables(n)

LEMMA EndStep ==
    ASSUME StoreIInv, QueueInv, GroupInv, LastLogInv, GarbageInv, KeptInv, [StoreNext]_storeVars,
           ~MachineCrash, Acknowledged' = Acknowledged,
           \A b \in Visible' : b[1] \in Acknowledged => b \in Visible,
           NEW n \in (Lengths \cap Lengths') \ {0}, Current'[n] = Current[n], Prefix(n)' = Prefix(n)
    PROVE  EndKept(n)'
<1>1. FoundTables(n)' = FoundTables(n) /\ Found(n) \subseteq Found(n)'
  BY FoundKept
<1>2. EndKept(n)
  BY DEF KeptInv, EndKept
<1>3. Acked(Visible)' \subseteq Found(n)'
  BY <1>1, <1>2 DEF Acked, EndKept
<1>4. ASSUME NEW l \in DOMAIN logs', l < Current'[n].log
      PROVE  Acked(InLog(l))' \subseteq FoundTables(n)'
  <2>1. \A b \in InLog(l)' : b[1] \in Acknowledged => l \in DOMAIN logs /\ b \in InLog(l)
    BY AckedBefore
  <2>2. l \in DOMAIN logs => Acked(InLog(l)) \subseteq FoundTables(n)
    BY <1>2, <1>4 DEF EndKept
  <2> QED BY <1>1, <2>1, <2>2 DEF Acked
<1> QED BY <1>3, <1>4 DEF EndKept

\* What was acknowledged is found with the newest end of the manifest.
LEMMA AckedRecoverable ==
    ASSUME StoreIInv, QueueInv, FirstInv, KeptInv
    PROVE  \A b \in Stored : b[1] \in Acknowledged => b \in Visible /\ b \in Recoverable
<1>1. ASSUME NEW b \in Stored, b[1] \in Acknowledged PROVE b \in Visible /\ b \in Recoverable
  <2>1. b \in Visible
    BY <1>1 DEF KeptInv, Acked
  <2>2. current \notin {0, 1}
    BY <1>1 DEF FirstInv
  <2>3. /\ Len(Current) \in Lengths \ {0} /\ Last(Current) = Current[Len(Current)]
        /\ TablesOf(Prefix(Len(Current))) = TablesOf(Current)
        /\ Recoverable = Contents(TablesOf(Current))
                         \cup UNION {InLog(l) : l \in LogsFrom(Last(Current).log)}
    BY <2>2, Newest
  <2>4. b \in Found(Len(Current))
    BY <1>1, <2>1, <2>3 DEF KeptInv, Acked
  <2>5. Found(Len(Current)) \subseteq Recoverable
    BY <2>3 DEF Found, FoundTables, Secured
  <2> QED BY <2>1, <2>4, <2>5
<1> QED BY <1>1

\* Nothing is acknowledged before the first opening is done.
LEMMA NothingAcked ==
    ASSUME StoreIInv, QueueInv, FirstInv, current \in {0, 1}
    PROVE  Acknowledged = {} /\ Stored = {} /\ Visible = {}
<1>1. Stored = {} /\ \A w \in Writers : pc[w] = "idle"
  BY DEF FirstInv
<1>2. ASSUME NEW w \in Acknowledged PROVE FALSE
  BY <1>1, AcknowledgedFacts DEF StoreIInv, Types
<1> QED BY <1>1, <1>2, VisibleStored

\* WriteEdit: the manifest has one more end, unless it cannot be continued, ...
LEMMA EditWritten ==
    ASSUME StoreIInv, WriteEdit, behind = "nothing"
    PROVE  /\ bg.phase = "write" /\ Running /\ up \in {"up", "closing"}
           /\ UNCHANGED <<up, mem, imm, version, logs, tables, current>>
           /\ Lengths' = Lengths \cup {Len(Current) + 1} /\ Len(Current) + 1 \in Nat
           /\ \A n \in Lengths \ {0} : Current'[n] = Current[n] /\ Prefix(n)' = Prefix(n)
           /\ Current'[Len(Current) + 1].log = bg.edit.log
           /\ \A n : n = Len(Current) + 1 =>
                 TablesOf(Prefix(n))' = Applied(TablesOf(Current), bg.edit)
           /\ TablesOf(Current)' = Applied(TablesOf(Current), bg.edit)
<1> DEFINE e == Complete(bg.edit)
           m == Len(Current) + 1
<1>t. VersionType /\ ProcessTypes /\ PhasesInv /\ ManifestTypes
  BY DEF StoreIInv, Types
<1>1. /\ bg.phase = "write" /\ UNCHANGED <<up, mem, imm, version, logs, tables, current>>
      /\ manifests' = [manifests EXCEPT ![version.manifest].edits = Append(@, e)]
  BY DEF WriteEdit, Busy
<1>2. e \in Edits /\ e.add = bg.edit.add /\ e.del = bg.edit.del /\ e.log = bg.edit.log
  BY <1>t DEF Complete, Edits, ProcessTypes, VersionType
<1> HIDE DEF e
<1>3. current = version.manifest /\ current # 0 /\ up \in {"up", "closing"} /\ Running
  BY <1>t, <1>1, BusyRuns DEF Running
<1>4. /\ current \in DOMAIN manifests /\ manifests[current] \in Manifests
      /\ Current \in Seq(Edits) /\ Len(Current) \in Nat
      /\ manifests[current].synced \in Nat /\ manifests[current].synced <= Len(Current)
      /\ Lengths = manifests[current].synced .. Len(Current)
  BY <1>t, <1>3, ManifestFacts
<1>5. Current' = Append(Current, e) /\ manifests'[current'].synced = manifests[current].synced
  BY <1>1, <1>3, <1>4 DEF Current, Manifests
<1>6. /\ Append(Current, e) \in Seq(Edits) /\ Len(Append(Current, e)) = m
      /\ Append(Current, e)[m] = e /\ m \in Nat
      /\ \A i \in 1 .. Len(Current) : Append(Current, e)[i] = Current[i]
  BY <1>2, <1>4
<1>7. Lengths' = Lengths \cup {m}
  <2> DEFINE s == manifests[current].synced
             k == Len(Current)
  <2>1. Lengths' = s .. k + 1
    BY <1>1, <1>3, <1>5, <1>6 DEF Lengths
  <2>2. s .. k + 1 = (s .. k) \cup {k + 1}
    BY <1>4
  <2> QED BY <1>4, <2>1, <2>2
<1>8. ASSUME NEW n \in Lengths \ {0} PROVE Current'[n] = Current[n] /\ Prefix(n)' = Prefix(n)
  <2>1. n \in 1 .. Len(Current) /\ n \in 0 .. Len(Current)
    BY NumberFacts
  <2>2. SubSeq(Append(Current, e), 1, n) = SubSeq(Current, 1, n)
    BY <1>2, <1>4, <2>1, PrefixFacts
  <2> QED BY <1>5, <1>6, <2>1, <2>2 DEF Prefix
<1>9. TablesOf(Append(Current, e)) = Applied(TablesOf(Current), bg.edit)
  <2>1. TablesOf(Append(Current, e)) = Applied(TablesOf(Current), e)
    BY <1>2, <1>4, TablesAppend
  <2> QED BY <1>2, <2>1 DEF Applied
<1>10. ASSUME NEW n, n = m PROVE TablesOf(Prefix(n))' = Applied(TablesOf(Current), bg.edit)
  <2>1. m \in 0 .. m
    BY <1>6
  <2>2. SubSeq(Append(Current, e), 1, m) = Append(Current, e)
    BY <1>6, <2>1, PrefixFacts
  <2> QED BY <1>5, <1>9, <1>10, <2>2, ZenonT(60) DEF Prefix, TablesOf
<1>11. TablesOf(Current)' = Applied(TablesOf(Current), bg.edit)
  BY <1>5, <1>9 DEF TablesOf
<1> QED BY <1>1, <1>2, <1>3, <1>5, <1>6, <1>7, <1>8, <1>10, <1>11

\* ... and after Install only the newest.
LEMMA EditInstalled ==
    ASSUME StoreIInv, Install
    PROVE  /\ bg.phase = "sync" /\ Running /\ up \in {"up", "closing"} /\ Current # <<>>
           /\ UNCHANGED <<up, mem, logs, tables, current>>
           /\ version'.tables = Applied(version.tables, bg.edit)
           /\ version'.log = bg.edit.log /\ version'.logfile = version.logfile
           /\ imm' = (IF bg.of = "flush" THEN NoTable ELSE imm)
           /\ Current' = Current /\ Lengths' = {Len(Current)} /\ Len(Current) \in Lengths \ {0}
           /\ \A n : Prefix(n)' = Prefix(n)
<1>t. VersionType /\ ProcessTypes /\ PhasesInv /\ ManifestTypes
  BY DEF StoreIInv, Types
<1>1. /\ bg.phase = "sync" /\ UNCHANGED <<up, mem, logs, tables, current>>
      /\ manifests' = [manifests EXCEPT ![version.manifest].synced =
                                            Len(manifests[version.manifest].edits)]
      /\ version' = [version EXCEPT !.tables = Applied(@, bg.edit), !.log = bg.edit.log]
      /\ imm' = (IF bg.of = "flush" THEN NoTable ELSE imm)
  BY DEF Install, Busy
<1>2. /\ version'.tables = Applied(version.tables, bg.edit)
      /\ version'.log = bg.edit.log /\ version'.logfile = version.logfile
  BY <1>t, <1>1 DEF VersionType
<1>3. current = version.manifest /\ current # 0 /\ up \in {"up", "closing"} /\ Running
  BY <1>t, <1>1, BusyRuns DEF Running
<1>4. Current # <<>> /\ Len(Current) \in Lengths \ {0}
  BY <1>3, Newest
<1>5. /\ current \in DOMAIN manifests /\ manifests[current] \in Manifests /\ Len(Current) \in Nat
  BY <1>t, <1>3, ManifestFacts
<1>6. Current' = Current /\ manifests'[current'].synced = Len(Current)
  BY <1>1, <1>3, <1>5 DEF Current, Manifests
<1>7. Lengths' = {Len(Current)}
  <2>1. Lengths' = Len(Current) .. Len(Current)
    BY <1>1, <1>3, <1>6 DEF Lengths
  <2> QED BY <1>5, <2>1
<1>8. \A n : Prefix(n)' = Prefix(n)
  BY <1>6 DEF Prefix
<1> QED BY <1>1, <1>2, <1>3, <1>4, <1>6, <1>7, <1>8

LEMMA KeptQuiet ==
    ASSUME StoreIInv, PromiseInv, [StoreNext]_storeVars, ~InsertInto, ~Dies
    PROVE  KeptInv'
<1>p. /\ QueueInv /\ GroupInv /\ AskedInv /\ RecordInv /\ LastLogInv /\ FirstInv
      /\ OpeningInv /\ EditInv /\ GarbageInv /\ PlacesInv /\ KeptInv
  BY DEF PromiseInv
<1>a. Acknowledged' = Acknowledged /\ Visible' = Visible
  BY <1>p, AcknowledgedStep, VisibleStep
<1>b. /\ \A b \in Stored' : b[1] \in Acknowledged => b \in Stored
      /\ \A l \in DOMAIN logs' : \A b \in InLog(l)' :
            b[1] \in Acknowledged => l \in DOMAIN logs /\ b \in InLog(l)
  BY <1>p, AckedBefore
<1>m. ~MachineCrash
  BY DEF Dies
<1>e. ASSUME NEW n \in (Lengths \cap Lengths') \ {0}, Current'[n] = Current[n],
             Prefix(n)' = Prefix(n)
      PROVE  EndKept(n)'
  BY <1>a, <1>e, <1>m, <1>p, EndStep
<1>1. Acked(Stored)' \subseteq Visible'
  BY <1>a, <1>b, <1>p DEF KeptInv, Acked
<1>2. ASSUME NEW n \in Lengths' \ {0} PROVE EndKept(n)'
  <2>1. CASE NewDB
    <3>1. Acknowledged = {}
      BY <1>p, <2>1, NothingAcked DEF NewDB
    <3> QED BY <1>a, <3>1 DEF EndKept, Acked
  <2>2. CASE OpenCurrent
    <3>1. /\ n = 2 /\ TablesOf(Prefix(n))' = version'.tables
          /\ Visible = Contents(version'.tables)
      BY <1>2, <1>p, <2>2, InstalledByOpening
    <3>2. tables' = tables
      BY <2>2 DEF OpenCurrent
    <3>3. FoundTables(n)' = Visible
      BY <3>1, <3>2 DEF FoundTables, Contents
    <3>4. Acked(Visible)' \subseteq Found(n)'
      BY <1>a, <3>3 DEF Acked, Found
    <3>5. ASSUME NEW l \in DOMAIN logs' PROVE Acked(InLog(l))' \subseteq FoundTables(n)'
      <4>1. ASSUME NEW b \in InLog(l)', b[1] \in Acknowledged PROVE b \in Visible
        <5>1. l \in DOMAIN logs /\ b \in InLog(l)
          BY <1>b, <4>1
        <5>2. b \in Stored
          BY <5>1 DEF Stored, InLogs
        <5> QED BY <1>p, <4>1, <5>2 DEF KeptInv, Acked
      <4> QED BY <1>a, <3>3, <4>1 DEF Acked
    <3> QED BY <3>4, <3>5 DEF EndKept
  <2>w. CASE WriteEdit /\ behind # "nothing"
    <3>1. manifests' = manifests /\ current' = current
      BY <2>w DEF WriteEdit
    <3>2. Current' = Current /\ Lengths' = Lengths /\ Prefix(n)' = Prefix(n)
      BY <3>1 DEF Current, Lengths, Prefix
    <3> QED BY <1>2, <1>e, <3>2
  <2>3. CASE WriteEdit /\ behind = "nothing"
    <3> DEFINE T == TablesOf(Current)
    <3>1. /\ bg.phase = "write" /\ Running /\ up \in {"up", "closing"}
          /\ UNCHANGED <<mem, imm, version, logs, tables>>
          /\ Lengths' = Lengths \cup {Len(Current) + 1}
          /\ \A i \in Lengths \ {0} : Current'[i] = Current[i] /\ Prefix(i)' = Prefix(i)
          /\ Current'[Len(Current) + 1].log = bg.edit.log
          /\ \A i : i = Len(Current) + 1 => TablesOf(Prefix(i))' = Applied(T, bg.edit)
      BY <2>3, EditWritten
    <3> HIDE DEF T
    <3>2. CASE n \in Lengths
      BY <1>2, <1>e, <3>1, <3>2
    <3>3. CASE n \notin Lengths
      <4>1. n = Len(Current) + 1 /\ Current'[n].log = bg.edit.log
        BY <1>2, <3>1, <3>3
      <4>2. FoundTables(n)' = Contents(Applied(T, bg.edit))
        BY <3>1, <4>1 DEF FoundTables, Contents
      <4>3. PICK k : k = bg.edit.log
        OBVIOUS
      <4>l. /\ \A l : InLog(l)' = InLog(l) /\ Secured(l)' = Secured(l)
            /\ LogsFrom(k)' = LogsFrom(k)
        BY <3>1 DEF InLog, Secured, InSynced, LogsFrom
      <4>4. Found(n)' = Contents(Applied(T, bg.edit)) \cup UNION {Secured(l) : l \in LogsFrom(k)}
        <5>1. Found(n)' = FoundTables(n)' \cup UNION {Secured(l)' : l \in LogsFrom(k)'}
          BY <4>1, <4>3 DEF Found
        <5> QED BY <4>2, <4>l, <5>1
      <4>5. /\ Acked(mem) \subseteq Secured(version.logfile)
            /\ Acked(imm \ NoTable) \subseteq UNION {Secured(l) : l \in LogsFrom(version.log)}
            /\ \A l \in DOMAIN logs : l < version.logfile =>
                  Acked(InLog(l)) \subseteq (imm \ NoTable) \cup Contents(version.tables)
            /\ \A l \in DOMAIN logs : l < version.log =>
                  Acked(InLog(l)) \subseteq Contents(version.tables)
            /\ Contents(version.tables) \subseteq Contents(T)
            /\ version.logfile \in DOMAIN logs
        BY <1>p, <2>3, <3>1 DEF PlacesInv, LastLogInv, T
      <4>6. Visible = mem \cup (imm \ NoTable) \cup Contents(version.tables)
        BY <3>1 DEF Visible
      <4>7. /\ Contents(T) \subseteq Contents(Applied(T, bg.edit))
            /\ bg.of = "flush" => /\ bg.edit.log = version.logfile
                                  /\ Contents(Applied(T, bg.edit)) = Contents(T) \cup imm
            /\ bg.of # "flush" => bg.edit.log = version.log
        BY <1>p, <3>1, EditContents
      <4>8. version.logfile \in LogsFrom(k)
        <5>1. version.log <= version.logfile /\ version.logfile \in Nat /\ version.log \in Nat
          BY <3>1, NumberFacts DEF StoreIInv, NumbersInv, LogNumbers
        <5> QED BY <4>3, <4>5, <4>7, <5>1 DEF LogsFrom
      <4>9. Acked(Visible) \subseteq Contents(Applied(T, bg.edit))
                                    \cup UNION {Secured(l) : l \in LogsFrom(k)}
        <5>1. CASE bg.of = "flush"
          BY <4>5, <4>6, <4>7, <4>8, <5>1 DEF Acked
        <5>2. CASE bg.of # "flush"
          BY <4>3, <4>5, <4>6, <4>7, <4>8, <5>2 DEF Acked
        <5> QED BY <5>1, <5>2
      <4>10. ASSUME NEW l \in DOMAIN logs, l < k
             PROVE  Acked(InLog(l)) \subseteq Contents(Applied(T, bg.edit))
        <5>1. CASE bg.of = "flush"
          BY <4>3, <4>5, <4>7, <4>10, <5>1
        <5>2. CASE bg.of # "flush"
          BY <4>3, <4>5, <4>7, <4>10, <5>2
        <5> QED BY <5>1, <5>2
      <4>11. Acked(Visible)' \subseteq Found(n)'
        BY <1>a, <4>4, <4>9 DEF Acked
      <4>12. ASSUME NEW l \in DOMAIN logs', l < Current'[n].log
             PROVE  Acked(InLog(l))' \subseteq FoundTables(n)'
        <5>1. l \in DOMAIN logs /\ l < k
          BY <3>1, <4>1, <4>3, <4>12
        <5>2. Acked(InLog(l))' = Acked(InLog(l))
          BY <1>a, <4>l DEF Acked
        <5> QED BY <4>2, <4>10, <5>1, <5>2
      <4> QED BY <4>11, <4>12 DEF EndKept
    <3> QED BY <3>2, <3>3
  <2>4. CASE Install
    BY <1>2, <1>e, <2>4, EditInstalled
  <2>5. CASE ~NewDB /\ ~OpenCurrent /\ ~WriteEdit /\ ~Install
    <3>1. current' = current /\ Lengths' = Lengths /\ (current # 0 => Current' = Current)
          /\ \A i \in Lengths : Prefix(i)' = Prefix(i)
      BY <1>m, <2>5, ManifestKept
    <3>2. current # 0
      BY <1>2, <3>1 DEF Lengths
    <3> QED BY <1>2, <1>e, <3>1, <3>2
  <2> QED BY <2>1, <2>2, <2>3, <2>4, <2>5, <2>w
<1>3. WritersOf(Visible)' = WritersOf(Visible)
  BY <1>a DEF WritersOf
<1>4. lost' = lost
  BY WriteFrame, BackgroundFrame, OpenFrame, OthersFrame, StepKinds
<1> QED BY <1>1, <1>2, <1>3, <1>4, <1>a, <1>p DEF KeptInv, EndKept

\* InsertInto: the group is visible and acknowledged, from a log that has it, and nothing
\* older becomes acknowledged with it.
LEMMA InsertFacts ==
    ASSUME StoreIInv, SequenceInv, PromiseInv, InsertInto
    PROVE  /\ up = "up" /\ Running /\ lead.phase = "insert" /\ mem' = mem \cup Numbered
           /\ UNCHANGED <<up, imm, logs, tables, manifests, current>>
           /\ version'.tables = version.tables /\ version'.log = version.log
           /\ version'.logfile = version.logfile
           /\ Visible' = Visible \cup Numbered /\ Acknowledged \subseteq Acknowledged'
           /\ \A b \in Numbered : b[1] \notin Acknowledged
           /\ \A b \in InMemory \cup Contents(Needed) :
                 b[1] \in Acknowledged' => b[1] \in Acknowledged
           /\ \A b \in Stored : b[1] \in Acknowledged' => b[1] \in Acknowledged \/ b \in Numbered
           /\ \A b \in Numbered : b[1] \in Acknowledged' => b \in Secured(version.logfile)
           /\ \A l \in DOMAIN logs : l # version.logfile =>
                 \A b \in InLog(l) : b[1] \in Acknowledged' => b[1] \in Acknowledged
<1>p. /\ QueueInv /\ GroupInv /\ AskedInv /\ RecordInv /\ LastLogInv /\ FirstInv
      /\ OpeningInv /\ EditInv /\ GarbageInv /\ PlacesInv /\ KeptInv
  BY DEF PromiseInv
<1>t. WriterTypes /\ VersionType /\ PhasesInv /\ ProcessTypes
  BY DEF StoreIInv, Types
<1>1. /\ lead.phase = "insert" /\ mem' = mem \cup Numbered
      /\ UNCHANGED <<up, imm, logs, tables, manifests, current>>
      /\ version' = [version EXCEPT !.last = @ + GroupCount]
  BY DEF InsertInto, disk
<1>2. up = "up" /\ Running
  <2>1. queue # <<>>
    BY <1>t, <1>1 DEF WriterTypes
  <2> QED BY <1>p, <2>1 DEF QueueInv, Running
<1>3. /\ version'.tables = version.tables /\ version'.log = version.log
      /\ version'.logfile = version.logfile
  BY <1>t, <1>1 DEF VersionType
<1>4. Visible' = Visible \cup Numbered
  <2>1. Contents(version.tables)' = Contents(version.tables)
    BY <1>1, <1>3 DEF Contents
  <2> QED BY <1>1, <1>2, <2>1 DEF Visible
<1>5. \A b \in Numbered : /\ b \in Batch /\ b[1] \in Writers /\ pc[b[1]] = "queued"
                          /\ result[b[1]] = "none"
                          /\ b[1] \in SyncWriters => Synced
  BY <1>1, <1>p, <1>t, GroupFacts
<1>6. \A b \in Numbered : b[1] \notin Acknowledged
  BY <1>5 DEF Acknowledged
<1>7. /\ logs[version.logfile].torn => Acknowledged' = Acknowledged
      /\ ~logs[version.logfile].torn => Acknowledged' = Acknowledged \cup WritersOf(Numbered)
  <2>1. StoreNext
    BY DEF StoreNext, WriteStep
  <2> QED BY <1>p, <2>1, AcknowledgedStep
<1>8. ASSUME NEW w \in Acknowledged', w \notin Acknowledged
      PROVE  pc[w] = "queued" /\ ~logs[version.logfile].torn
  <2>1. w \in WritersOf(Numbered) /\ ~logs[version.logfile].torn
    BY <1>7, <1>8
  <2> QED BY <1>5, <2>1 DEF WritersOf
<1>9. ASSUME NEW b \in InMemory \cup Contents(Needed), b[1] \in Acknowledged'
      PROVE  b[1] \in Acknowledged
  <2>1. pc[b[1]] \in {"done", "gone"}
    BY <1>9, <1>p DEF AskedInv
  <2> QED BY <1>8, <1>9, <2>1
<1>10. ASSUME NEW b \in Stored, b[1] \in Acknowledged', b[1] \notin Acknowledged
       PROVE  b \in Numbered
  <2>1. pc[b[1]] = "queued"
    BY <1>8, <1>10
  <2>2. b \in Writing
    BY <1>p, <1>10, <2>1 DEF AskedInv
  <2> QED BY <1>1, <2>2 DEF Writing
<1>11. ASSUME NEW b \in Numbered, b[1] \in Acknowledged' PROVE b \in Secured(version.logfile)
  <2>1. ~logs[version.logfile].torn
    BY <1>6, <1>8, <1>11
  <2>2. /\ Numbered \subseteq InLog(version.logfile)
        /\ Synced => Numbered \subseteq InSynced(version.logfile)
    BY <1>1, <1>p, <2>1 DEF RecordInv
  <2> QED BY <1>5, <2>2 DEF Secured
<1>12. ASSUME NEW l \in DOMAIN logs, l # version.logfile, NEW b \in InLog(l),
              b[1] \in Acknowledged', b[1] \notin Acknowledged
       PROVE  FALSE
  <2>1. b \in Stored
    BY <1>12 DEF Stored, InLogs
  <2>2. b \in Numbered
    BY <1>10, <1>12, <2>1
  <2>3. b[2] <= version.last
    BY <1>2, <1>12 DEF SequenceInv, VersionSequences, Counting
  <2>4. version.last < b[2] /\ b[2] \in Nat /\ version.last \in Nat
    BY <1>t, <2>2, NumberedType DEF VersionType
  <2> QED BY <2>3, <2>4
<1> QED BY <1>1, <1>2, <1>3, <1>4, <1>6, <1>7, <1>9, <1>10, <1>11, <1>12

LEMMA KeptInsert ==
    ASSUME StoreIInv, SequenceInv, PromiseInv, InsertInto
    PROVE  KeptInv'
<1>p. QueueInv /\ GroupInv /\ LastLogInv /\ KeptInv
  BY DEF PromiseInv
<1>i. /\ up = "up" /\ Running
      /\ UNCHANGED <<up, imm, logs, tables, manifests, current>>
      /\ version'.logfile = version.logfile
      /\ Visible' = Visible \cup Numbered /\ Acknowledged \subseteq Acknowledged'
      /\ \A b \in Numbered : b[1] \notin Acknowledged
      /\ \A b \in InMemory \cup Contents(Needed) :
            b[1] \in Acknowledged' => b[1] \in Acknowledged
      /\ \A b \in Stored : b[1] \in Acknowledged' => b[1] \in Acknowledged \/ b \in Numbered
      /\ \A b \in Numbered : b[1] \in Acknowledged' => b \in Secured(version.logfile)
      /\ \A l \in DOMAIN logs : l # version.logfile =>
            \A b \in InLog(l) : b[1] \in Acknowledged' => b[1] \in Acknowledged
  BY InsertFacts
<1>l. version.logfile \in DOMAIN logs /\ version.logfile \in Nat
      /\ \A n \in Lengths \ {0} : Current[n].log <= version.logfile /\ Current[n].log \in Nat
  <2>1. version.logfile \in DOMAIN logs
    BY <1>i, <1>p DEF LastLogInv
  <2>2. \A n \in Lengths \ {0} : Current[n].log <= version.logfile
    BY <1>i DEF StoreIInv, NumbersInv, LogNumbers
  <2>3. \A n \in Lengths \ {0} : Current[n].log \in Nat
    BY NumberFacts DEF Edits
  <2> QED BY <2>1, <2>2, <2>3, NumberFacts
<1>1. ASSUME NEW b \in Stored', b[1] \in Acknowledged' PROVE b \in Visible'
  <2>1. StoreNext
    BY DEF StoreNext, WriteStep
  <2>2. b \in Stored \/ b \in Numbered
    BY <1>1, <2>1, StoredStep
  <2>3. CASE b \in Numbered
    BY <1>i, <2>3
  <2>4. CASE b \in Stored /\ b[1] \in Acknowledged
    BY <1>i, <1>p, <2>4 DEF KeptInv, Acked
  <2> QED BY <1>i, <1>1, <2>2, <2>3, <2>4
<1>2. /\ Lengths' = Lengths /\ Current' = Current
      /\ \A n : Found(n)' = Found(n) /\ FoundTables(n)' = FoundTables(n)
      /\ \A l : InLog(l)' = InLog(l)
  <2>1. Lengths' = Lengths /\ Current' = Current
    BY <1>i DEF Lengths, Current
  <2>2. \A n : FoundTables(n)' = FoundTables(n)
    BY <1>i, <2>1 DEF FoundTables, Contents, Prefix, TablesOf
  <2>3. \A l : InLog(l)' = InLog(l) /\ Secured(l)' = Secured(l)
    BY <1>i DEF InLog, Secured, InSynced
  <2>4. \A n : Found(n)' = Found(n)
    <3>1. ASSUME NEW n PROVE Found(n)' = Found(n)
      <4>1. PICK k : k = Current[n].log
        OBVIOUS
      <4>2. Found(n) = FoundTables(n) \cup UNION {Secured(l) : l \in LogsFrom(k)}
        BY <4>1 DEF Found
      <4>3. Found(n)' = FoundTables(n)' \cup UNION {Secured(l)' : l \in LogsFrom(k)'}
        BY <2>1, <4>1 DEF Found
      <4>4. LogsFrom(k)' = LogsFrom(k)
        BY <1>i DEF LogsFrom
      <4> QED BY <2>2, <2>3, <4>2, <4>3, <4>4
    <3> QED BY <3>1
  <2> QED BY <2>1, <2>2, <2>3, <2>4
<1>3. ASSUME NEW n \in Lengths \ {0}, NEW b \in Visible', b[1] \in Acknowledged'
      PROVE  b \in Found(n)
  <2>1. CASE b \in Numbered
    <3>1. version.logfile \in LogsFrom(Current[n].log)
      BY <1>l DEF LogsFrom
    <3> QED BY <1>3, <1>i, <2>1, <3>1 DEF Found
  <2>2. CASE b \in Visible
    <3>1. b[1] \in Acknowledged
      BY <1>3, <1>i, <2>2, VisibleStored
    <3> QED BY <1>p, <2>2, <3>1 DEF KeptInv, Acked
  <2> QED BY <1>3, <1>i, <2>1, <2>2
<1>4. ASSUME NEW n \in Lengths \ {0}, NEW l \in DOMAIN logs, l < Current[n].log,
             NEW b \in InLog(l), b[1] \in Acknowledged'
      PROVE  b \in FoundTables(n)
  <2>1. l # version.logfile
    <3>1. l \in Nat
      BY StoredFacts
    <3> QED BY <1>4, <1>l, <3>1
  <2>2. b[1] \in Acknowledged
    BY <1>4, <1>i, <2>1
  <2> QED BY <1>4, <1>p, <2>2 DEF KeptInv, Acked
<1>5. ASSUME NEW w \in Acknowledged', w \in SyncWriters \/ w \notin lost
      PROVE  w \in WritersOf(Visible')
  <2>1. CASE w \in Acknowledged
    BY <1>5, <1>i, <1>p, <2>1 DEF KeptInv, WritersOf
  <2>2. CASE w \notin Acknowledged
    <3>1. StoreNext
      BY DEF StoreNext, WriteStep
    <3>2. w \in WritersOf(Numbered)
      BY <1>5, <1>p, <2>2, <3>1, AcknowledgedStep DEF PromiseInv
    <3> QED BY <1>i, <3>2 DEF WritersOf
  <2> QED BY <2>1, <2>2
<1>6. WritersOf(Visible)' = WritersOf(Visible')
  BY DEF WritersOf
<1>7. Acked(Stored)' \subseteq Visible'
  BY <1>1 DEF Acked
<1>8. ASSUME NEW n \in Lengths' \ {0}
      PROVE  /\ Acked(Visible)' \subseteq Found(n)'
             /\ \A l \in DOMAIN logs' : l < Current'[n].log =>
                   Acked(InLog(l))' \subseteq FoundTables(n)'
  <2>1. n \in Lengths \ {0}
    BY <1>2
  <2>2. Acked(Visible)' \subseteq Found(n)'
    BY <1>2, <1>3, <2>1 DEF Acked
  <2>3. \A l \in DOMAIN logs' : l < Current'[n].log =>
                   Acked(InLog(l))' \subseteq FoundTables(n)'
    BY <1>2, <1>4, <1>i, <2>1 DEF Acked
  <2> QED BY <2>2, <2>3
<1>9. /\ (Acknowledged \cap SyncWriters)' \subseteq WritersOf(Visible)'
      /\ Acknowledged' \ lost' \subseteq WritersOf(Visible)'
  <2>1. lost' = lost
    BY DEF InsertInto
  <2> QED BY <1>5, <1>6, <2>1
<1> QED BY <1>7, <1>8, <1>9 DEF KeptInv

\* After the death of the process readers see what an open finds.
LEMMA DeathFacts ==
    ASSUME StoreIInv, Dies
    PROVE  /\ Visible' = Recoverable' /\ up' = "down" /\ Acknowledged' = Acknowledged
           /\ ~MachineCrash => Recoverable' = Recoverable
           /\ StoreNext
<1>1. /\ Gone /\ UNCHANGED <<result, tables, current, unread>>
      /\ ~MachineCrash => UNCHANGED <<logs, manifests>>
  BY DiesFrame
<1>2. up' = "down"
  BY <1>1 DEF Gone
<1>3. Visible' = Recoverable'
  BY <1>2 DEF Visible
<1>4. Acknowledged' = Acknowledged
  BY <1>1 DEF Acknowledged
<1>5. ~MachineCrash => Recoverable' = Recoverable
  BY <1>1 DEF Recoverable, Contents, InLog, LogsFrom
<1> QED BY <1>2, <1>3, <1>4, <1>5 DEF Dies, StoreNext

LEMMA KeptCrash ==
    ASSUME StoreIInv, PromiseInv, Dies, ~MachineCrash
    PROVE  KeptInv'
<1>p. QueueInv /\ GroupInv /\ FirstInv /\ LastLogInv /\ GarbageInv /\ KeptInv
  BY DEF PromiseInv
<1>d. /\ Visible' = Recoverable /\ Acknowledged' = Acknowledged /\ StoreNext
  BY DeathFacts
<1>1. \A b \in Stored : b[1] \in Acknowledged => b \in Visible /\ b \in Recoverable
  BY <1>p, AckedRecoverable
<1>2. \A b \in Stored' : b[1] \in Acknowledged => b \in Stored
  BY <1>d, <1>p, AckedBefore
<1>3. Recoverable \subseteq Stored /\ Visible \subseteq Stored
  BY VisibleStored
<1>4. Acked(Stored)' \subseteq Visible'
  BY <1>1, <1>2, <1>d DEF Acked
<1>5. ASSUME NEW n \in Lengths' \ {0} PROVE EndKept(n)'
  <2>1. UNCHANGED <<manifests, current>>
    BY DiesFrame
  <2>2. n \in (Lengths \cap Lengths') \ {0} /\ Current'[n] = Current[n] /\ Prefix(n)' = Prefix(n)
    BY <1>5, <2>1 DEF Lengths, Current, Prefix
  <2>3. \A b \in Visible' : b[1] \in Acknowledged => b \in Visible
    BY <1>1, <1>3, <1>d
  <2> QED BY <1>d, <1>p, <2>2, <2>3, EndStep
<1>6. ASSUME NEW w \in Acknowledged', w \in SyncWriters \/ w \notin lost
      PROVE  w \in WritersOf(Visible)'
  <2>1. PICK b \in Visible : b[1] = w
    BY <1>6, <1>d, <1>p DEF KeptInv, WritersOf
  <2>2. b \in Recoverable
    BY <1>1, <1>3, <1>6, <1>d, <2>1
  <2> QED BY <1>d, <2>1, <2>2 DEF WritersOf
<1>7. lost' = lost
  BY DiesFrame
<1> QED BY <1>4, <1>5, <1>6, <1>7 DEF KeptInv, EndKept

\* A crash of the machine leaves of each log what was synced, and of the manifest one of its
\* ends.
LEMMA MachineCrashFacts ==
    ASSUME StoreIInv, MachineCrash
    PROVE  /\ DOMAIN logs' = DOMAIN logs /\ UNCHANGED <<tables, current>>
           /\ \A l \in DOMAIN logs : /\ InLog(l)' \subseteq InLog(l) /\ InSynced(l) \subseteq InLog(l)'
                                     /\ Secured(l)' = InLog(l)'
           /\ current # 0 => \E n \in Lengths :
                 /\ Current' = Prefix(n) /\ Lengths' = {n} /\ Prefix(n)' = Prefix(n)
                 /\ n # 0 => Current'[n] = Current[n] /\ Current' # <<>> /\ Last(Current)' = Current[n]
<1>1. current' = current /\ tables' = tables
  BY DEF MachineCrash
<1>2. PICK cut :
        /\ \A l \in DOMAIN logs : cut[l] \in Cuts(logs[l], logs[l].recs)
        /\ logs' = [l \in DOMAIN logs |->
              [logs[l] EXCEPT !.recs = SubSeq(@, 1, cut[l]), !.synced = cut[l]]]
  BY DEF MachineCrash
<1>3. ASSUME NEW l \in DOMAIN logs
      PROVE  /\ InLog(l)' \subseteq InLog(l) /\ InSynced(l) \subseteq InLog(l)'
             /\ Secured(l)' = InLog(l)'
  <2> DEFINE recs == logs[l].recs
             c == cut[l]
             new == SubSeq(recs, 1, c)
  <2>1. /\ logs[l] \in LogFiles /\ recs \in Seq(SUBSET Batch) /\ Len(recs) \in Nat
        /\ logs[l].synced \in Nat
    BY LogRecords DEF StoreIInv, Types
  <2>2. c \in Nat /\ c <= Len(recs) /\ logs[l].synced <= c
    <3>1. c \in Cuts(logs[l], recs)
      BY <1>2
    <3> HIDE DEF c, recs
    <3>2. c \in 0 .. Len(recs) /\ c >= logs[l].synced
      BY <3>1 DEF Cuts
    <3> QED BY <2>1, <3>2 DEF recs
  <2>3. logs'[l].recs = new /\ logs'[l].synced = c
    BY <1>2, <2>1 DEF LogFiles
  <2>4. Len(new) = c /\ \A i \in 1 .. c : new[i] = recs[i]
    BY <2>1, <2>2
  <2>5. DOMAIN new = 1 .. c /\ DOMAIN recs = 1 .. Len(recs)
    BY <2>1, <2>2
  <2>6. /\ \A i \in 1 .. c : i \in 1 .. Len(recs)
        /\ \A i \in 1 .. logs[l].synced : i \in 1 .. c
    BY <2>1, <2>2
  <2> HIDE DEF new, recs, c
  <2>7. InLog(l)' = UNION {new[i] : i \in 1 .. c} /\ InSynced(l)' = UNION {new[i] : i \in 1 .. c}
    BY <2>3, <2>5 DEF InLog, InSynced, ToSet
  <2>8. InLog(l) = UNION {recs[i] : i \in 1 .. Len(recs)}
        /\ InSynced(l) = UNION {recs[i] : i \in 1 .. logs[l].synced}
    BY <2>5 DEF InLog, InSynced, ToSet, recs
  <2>9. InLog(l)' \subseteq InLog(l) /\ InSynced(l) \subseteq InLog(l)'
    BY <2>4, <2>6, <2>7, <2>8
  <2> QED BY <2>7, <2>9 DEF Secured
<1>4. ASSUME current # 0
      PROVE  \E n \in Lengths :
                 /\ Current' = Prefix(n) /\ Lengths' = {n} /\ Prefix(n)' = Prefix(n)
                 /\ n # 0 => Current'[n] = Current[n] /\ Current' # <<>> /\ Last(Current)' = Current[n]
  <2>1. /\ current \in DOMAIN manifests /\ Current \in Seq(Edits) /\ Len(Current) \in Nat
        /\ manifests[current].synced \in Nat
        /\ Lengths = manifests[current].synced .. Len(Current)
    BY <1>4, ManifestFacts DEF StoreIInv, Types
  <2>2. PICK n \in Lengths : manifests'[current] = [edits |-> Prefix(n), synced |-> n]
    <3>1. PICK end : /\ \A m \in DOMAIN manifests : end[m] \in Cuts(manifests[m], manifests[m].edits)
                     /\ manifests' = [m \in DOMAIN manifests |->
                           [edits |-> SubSeq(manifests[m].edits, 1, end[m]), synced |-> end[m]]]
      BY DEF MachineCrash
    <3>2. end[current] \in Cuts(manifests[current], Current)
      BY <2>1, <3>1 DEF Current
    <3>3. end[current] \in Lengths
      BY <2>1, <3>2 DEF Cuts
    <3> QED BY <2>1, <3>1, <3>3 DEF Prefix, Current
  <2>3. /\ Current' = Prefix(n) /\ n \in 0 .. Len(Current) /\ Len(Prefix(n)) = n
        /\ \A i \in 1 .. n : Prefix(n)[i] = Current[i]
        /\ Prefix(n) \in Seq(Edits)
    BY <1>1, <2>1, <2>2, PrefixFacts DEF Current, Prefix
  <2>4. Lengths' = {n}
    <3>1. n .. n = {n}
      BY <2>3
    <3> QED BY <1>1, <1>4, <2>2, <2>3, <3>1 DEF Lengths
  <2>5. Prefix(n)' = Prefix(n)
    <3>1. SubSeq(Prefix(n), 1, n) = Prefix(n)
      BY <2>3, PrefixFacts
    <3> QED BY <2>3, <3>1 DEF Prefix
  <2>6. n # 0 => Current'[n] = Current[n] /\ Current' # <<>> /\ Last(Current)' = Current[n]
    <3>1. SUFFICES ASSUME n # 0
                   PROVE  Current'[n] = Current[n] /\ Current' # <<>> /\ Last(Current)' = Current[n]
      OBVIOUS
    <3>2. n \in 1 .. n
      BY <2>3, <3>1
    <3>3. Current'[n] = Current[n] /\ Len(Current') = n
      BY <2>3, <3>2
    <3>4. Len(<<>>) = 0
      OBVIOUS
    <3> QED BY <3>1, <3>3, <3>4 DEF Last
  <2> QED BY <2>2, <2>3, <2>4, <2>5, <2>6
<1>5. DOMAIN logs' = DOMAIN logs
  BY <1>2
<1> QED BY <1>1, <1>3, <1>4, <1>5

LEMMA KeptMachineCrash ==
    ASSUME StoreIInv, PromiseInv, MachineCrash
    PROVE  KeptInv'
<1>p. QueueInv /\ GroupInv /\ FirstInv /\ LastLogInv /\ GarbageInv /\ KeptInv
  BY DEF PromiseInv
<1>d. /\ Visible' = Recoverable' /\ Acknowledged' = Acknowledged /\ StoreNext
  BY DeathFacts DEF Dies
<1>f. /\ DOMAIN logs' = DOMAIN logs /\ UNCHANGED <<tables, current>>
      /\ \A l \in DOMAIN logs : /\ InLog(l)' \subseteq InLog(l) /\ InSynced(l) \subseteq InLog(l)'
                                /\ Secured(l)' = InLog(l)'
  BY MachineCrashFacts
<1>1. CASE current \in {0, 1}
  <2>1. Acknowledged = {}
    BY <1>1, <1>p, NothingAcked
  <2> QED BY <1>d, <2>1 DEF KeptInv, Acked
<1>2. CASE current \notin {0, 1}
  <2>1. PICK n \in Lengths :
           /\ Current' = Prefix(n) /\ Lengths' = {n} /\ Prefix(n)' = Prefix(n)
           /\ n # 0 => Current'[n] = Current[n] /\ Current' # <<>> /\ Last(Current)' = Current[n]
    BY <1>2, MachineCrashFacts
  <2>2. n # 0
    <3>1. /\ manifests[current].synced > 0 /\ manifests[current].synced \in Nat
          /\ Lengths = manifests[current].synced .. Len(Current) /\ Len(Current) \in Nat
      BY <1>2, ManifestFacts DEF StoreIInv, Types, FilesInv
    <3> QED BY <3>1
  <2>3. PICK k : k = Current[n].log
    OBVIOUS
  <2>4. TablesOf(Prefix(n))' = TablesOf(Prefix(n)) /\ TablesOf(Current)' = TablesOf(Prefix(n))
    BY <2>1 DEF TablesOf
  <2>5. FoundTables(n)' = FoundTables(n) /\ Contents(TablesOf(Current))' = FoundTables(n)
    BY <1>f, <2>4 DEF FoundTables, Contents
  <2>6. LogsFrom(k)' = LogsFrom(k) /\ LogsFrom(k) \subseteq DOMAIN logs
    BY <1>f DEF LogsFrom
  <2>7. Visible' = FoundTables(n) \cup UNION {InLog(l)' : l \in LogsFrom(k)}
    <3>1. Recoverable' = Contents(TablesOf(Current))'
                         \cup (UNION {InLog(l) : l \in LogsFrom(Last(Current).log)})'
      BY <1>2, <1>f, <2>1, <2>2 DEF Recoverable, Current, Contents, InLog, LogsFrom
    <3>2. (UNION {InLog(l) : l \in LogsFrom(Last(Current).log)})'
              = UNION {InLog(l)' : l \in LogsFrom(k)'}
      BY <2>1, <2>2, <2>3 DEF LogsFrom
    <3> QED BY <1>d, <2>5, <2>6, <3>1, <3>2
  <2>8. Found(n)' = Visible'
    <3>1. Found(n)' = FoundTables(n)' \cup UNION {Secured(l)' : l \in LogsFrom(k)'}
      BY <2>1, <2>2, <2>3 DEF Found
    <3>2. UNION {Secured(l)' : l \in LogsFrom(k)'} = UNION {InLog(l)' : l \in LogsFrom(k)}
      BY <1>f, <2>6
    <3> QED BY <2>5, <2>7, <3>1, <3>2
  <2>9. ASSUME NEW l \in DOMAIN logs', l < k, NEW b \in InLog(l)', b[1] \in Acknowledged
        PROVE  b \in FoundTables(n)
    <3>1. l \in DOMAIN logs /\ b \in InLog(l)
      BY <1>f, <2>9
    <3> QED BY <1>p, <2>2, <2>3, <2>9, <3>1 DEF KeptInv, Acked
  <2>10. ASSUME NEW b \in Stored', b[1] \in Acknowledged PROVE b \in Visible'
    <3>1. CASE b \in Contents(Needed)'
      <4>1. Needed' = TablesOf(Prefix(n))
        <5>1. Gone
          BY DEF MachineCrash
        <5>2. ProcessTables' = {}
          BY <5>1 DEF ProcessTables, Gone, NoVersion, NoMerge, NoWork, NoEdit
        <5>3. ManifestTables' = TablesOf(Prefix(n))'
          BY <2>1 DEF ManifestTables
        <5> QED BY <2>4, <5>2, <5>3 DEF Needed
      <4>2. Contents(Needed)' = FoundTables(n)
        BY <1>f, <4>1 DEF FoundTables, Contents
      <4> QED BY <2>7, <3>1, <4>2
    <3>2. CASE b \in InLogs'
      <4>1. PICK l \in DOMAIN logs' : b \in InLog(l)'
        BY <3>2 DEF InLogs
      <4>2. CASE l \in LogsFrom(k)
        BY <2>7, <4>1, <4>2
      <4>3. CASE l \notin LogsFrom(k)
        <5>1. l \in DOMAIN logs /\ ~(l >= k)
          BY <1>f, <4>3 DEF LogsFrom
        <5>2. l \in Nat /\ k \in Nat
          BY <2>2, <2>3, <5>1, NumberFacts, StoredFacts DEF Edits
        <5>3. b \in FoundTables(n)
          BY <2>9, <2>10, <4>1, <5>1, <5>2
        <5> QED BY <2>7, <5>3
      <4> QED BY <4>2, <4>3
    <3>3. InMemory' = {}
      BY DEF MachineCrash, Gone, InMemory
    <3> QED BY <2>10, <3>1, <3>2, <3>3 DEF Stored
  <2>11. Acked(Stored)' \subseteq Visible'
    BY <1>d, <2>10 DEF Acked
  <2>12. EndKept(n)'
    <3>1. Acked(Visible)' \subseteq Found(n)'
      BY <2>8 DEF Acked
    <3>2. \A l \in DOMAIN logs' : l < Current'[n].log => Acked(InLog(l))' \subseteq FoundTables(n)'
      BY <1>d, <2>1, <2>2, <2>3, <2>5, <2>9 DEF Acked
    <3> QED BY <3>1, <3>2 DEF EndKept
  <2>13. ASSUME NEW w \in Acknowledged', w \in SyncWriters PROVE w \in WritersOf(Visible)'
    <3>1. PICK b \in Visible : b[1] = w
      BY <1>d, <1>p, <2>13 DEF KeptInv, WritersOf
    <3>2. b \in Found(n)
      BY <1>d, <1>p, <2>2, <2>13, <3>1 DEF KeptInv, Acked
    <3>3. b \in Visible'
      <4>1. CASE b \in FoundTables(n)
        BY <2>7, <4>1
      <4>2. CASE b \notin FoundTables(n)
        <5>1. PICK l \in LogsFrom(k) : b \in Secured(l)
          BY <2>3, <3>2, <4>2 DEF Found
        <5>2. b \in InSynced(l)
          BY <2>13, <3>1, <5>1 DEF Secured
        <5>3. b \in InLog(l)'
          BY <1>f, <2>6, <5>1, <5>2
        <5> QED BY <2>7, <5>1, <5>3
      <4> QED BY <4>1, <4>2
    <3> QED BY <3>1, <3>3 DEF WritersOf
  <2>14. Lengths' \ {0} = {n}
    BY <2>1, <2>2
  <2>15. Acknowledged' \ lost' \subseteq WritersOf(Visible)'
    <3>1. lost' = lost \cup (Acknowledged \ WritersOf(Visible'))
      BY DEF MachineCrash
    <3>2. WritersOf(Visible') = WritersOf(Visible)'
      BY DEF WritersOf
    <3> QED BY <1>d, <3>1, <3>2
  <2> QED BY <2>11, <2>12, <2>13, <2>14, <2>15 DEF KeptInv, EndKept
<1> QED BY <1>1, <1>2

-----------------------------------------------------------------------------
(* Where the process has it.                                                   *)

\* The parts of PlacesInv after a step, batch by batch.
LEMMA PlacesFrom ==
    ASSUME NEW k, NEW lf, k = version'.log, lf = version'.logfile,
           \A b \in mem' : b[1] \in Acknowledged' => b \in Secured(lf)',
           \A b \in imm' \ NoTable :
              b[1] \in Acknowledged' => \E l \in LogsFrom(k)' : b \in Secured(l)',
           \A l \in DOMAIN logs' : l < lf => \A b \in InLog(l)' :
              b[1] \in Acknowledged' => b \in (imm' \ NoTable) \cup Contents(version.tables)',
           \A l \in DOMAIN logs' : l < k => \A b \in InLog(l)' :
              b[1] \in Acknowledged' => b \in Contents(version.tables)',
           behind' = "nothing" => Contents(version.tables)' \subseteq Contents(TablesOf(Current))'
    PROVE  PlacesInv'
<1>1. Acked(mem)' \subseteq Secured(version.logfile)'
  <2>1. Secured(version.logfile)' = Secured(lf)'
    BY DEF Secured, InLog, InSynced
  <2> QED BY <2>1 DEF Acked
<1>2. Acked(imm \ NoTable)' \subseteq (UNION {Secured(l) : l \in LogsFrom(version.log)})'
  <2>1. (UNION {Secured(l) : l \in LogsFrom(version.log)})' = UNION {Secured(l)' : l \in LogsFrom(k)'}
    BY DEF LogsFrom
  <2>2. Acked(imm \ NoTable)' = {b \in imm' \ NoTable : b[1] \in Acknowledged'}
    BY DEF Acked, NoTable
  <2> QED BY <2>1, <2>2
<1>3. \A l \in DOMAIN logs' : l < version'.logfile =>
          Acked(InLog(l))' \subseteq (imm \ NoTable)' \cup Contents(version.tables)'
  BY DEF Acked, NoTable
<1>4. \A l \in DOMAIN logs' : l < version'.log => Acked(InLog(l))' \subseteq Contents(version.tables)'
  BY DEF Acked
<1> QED BY <1>1, <1>2, <1>3, <1>4 DEF PlacesInv

LEMMA ContentsSame ==
    ASSUME StoreIInv, [StoreNext]_storeVars
    PROVE  /\ version'.tables = version.tables => Contents(version.tables)' = Contents(version.tables)
           /\ current # 0 /\ Current # <<>> /\ Lengths' = Lengths /\ Current' = Current =>
                 Contents(TablesOf(Current))' = Contents(TablesOf(Current))
<1>s. \A t \in Needed \cap Needed' : tables'[t] = tables[t]
  BY TablesSame
<1>1. ASSUME version'.tables = version.tables
      PROVE  Contents(version.tables)' = Contents(version.tables)
  <2>1. \A t \in version.tables : t \in Needed \cap Needed'
    BY <1>1 DEF Needed, ProcessTables
  <2> QED BY <1>1, <1>s, <2>1 DEF Contents
<1>2. ASSUME current # 0, Current # <<>>, Lengths' = Lengths, Current' = Current
      PROVE  Contents(TablesOf(Current))' = Contents(TablesOf(Current))
  <2>1. Len(Current) \in Lengths /\ TablesOf(Prefix(Len(Current))) = TablesOf(Current)
    BY <1>2, Newest
  <2>2. ManifestTables' = ManifestTables
    BY <1>2 DEF ManifestTables, Prefix, TablesOf
  <2>3. TablesOf(Current) \subseteq ManifestTables
    BY <2>1 DEF ManifestTables
  <2>4. \A t \in TablesOf(Current) : t \in Needed \cap Needed'
    BY <2>2, <2>3 DEF Needed
  <2>5. TablesOf(Current)' = TablesOf(Current)
    BY <1>2 DEF TablesOf
  <2> QED BY <1>s, <2>4, <2>5 DEF Contents
<1> QED BY <1>1, <1>2

\* The logs a running store still needs stay.
LEMMA NeededLogs ==
    ASSUME StoreIInv, LastLogInv, GarbageInv, [StoreNext]_storeVars, ~MachineCrash, Running,
           NEW k, NEW lf, k = version.log, lf = version.logfile
    PROVE  /\ \A l \in LogsFrom(k) : l \in LogsFrom(k)' /\ Secured(l) \subseteq Secured(l)'
           /\ lf \in LogsFrom(k)
           /\ version'.logfile \in Nat /\ version'.log \in Nat
<1>n. k \in Nat /\ lf \in Nat /\ \A l \in DOMAIN logs : l \in Nat
  BY NumberFacts, StoredFacts
<1>1. ASSUME NEW l \in LogsFrom(k) PROVE l \in LogsFrom(k)' /\ Secured(l) \subseteq Secured(l)'
  <2>1. l \in DOMAIN logs /\ l >= k /\ l \in Nat
    BY <1>n DEF LogsFrom
  <2>2. <<"log", l>> \notin garbage
    <3>1. <<"log", l>> \in garbage => l < k
      BY DEF GarbageInv
    <3> QED BY <1>n, <2>1, <3>1
  <2>3. l \in DOMAIN logs' /\ Secured(l) \subseteq Secured(l)'
    BY <2>1, <2>2, LogKept
  <2> QED BY <2>1, <2>3 DEF LogsFrom
<1>2. lf \in LogsFrom(k)
  <2>1. lf \in DOMAIN logs
    BY DEF LastLogInv
  <2>2. k <= lf
    BY DEF StoreIInv, NumbersInv, LogNumbers
  <2> QED BY <1>n, <2>1, <2>2 DEF LogsFrom
<1>3. version'.logfile \in Nat /\ version'.log \in Nat
  <2>1. StoreIInv'
    BY FilesStep
  <2> QED BY <2>1 DEF StoreIInv, Types, VersionType
<1> QED BY <1>1, <1>2, <1>3

\* Steps that keep memtables, version and manifest, and SwitchMemTable.
LEMMA PlacesQuiet ==
    ASSUME StoreIInv, PromiseInv, [StoreNext]_storeVars, Running, Running',
           ~InsertInto, ~Install, ~WriteEdit
    PROVE  PlacesInv'
<1>p. /\ QueueInv /\ GroupInv /\ AskedInv /\ RecordInv /\ LastLogInv /\ FirstInv
      /\ OpeningInv /\ EditInv /\ GarbageInv /\ PlacesInv /\ KeptInv
  BY DEF PromiseInv
<1>d. ~Dies /\ ~MachineCrash
  BY DiesFrame DEF Gone, Running, Dies
<1>o. ~NewDB /\ ~OpenCurrent /\ (OpenStep => OpenDone)
  BY DEF OpenStep, NewDB, RecoverManifest, RecoverLogs, OpenLog, OpenManifest, OpenCurrent, Running
<1>a. Acknowledged' = Acknowledged
  BY <1>p, AcknowledgedStep
<1>b. /\ \A b \in Stored' : b[1] \in Acknowledged => b \in Stored
      /\ \A l \in DOMAIN logs' : \A b \in InLog(l)' :
            b[1] \in Acknowledged => l \in DOMAIN logs /\ b \in InLog(l)
  BY <1>p, AckedBefore
<1>v. /\ version'.tables = version.tables /\ version'.log = version.log
      /\ ~SwitchMemTable => version'.logfile = version.logfile /\ mem' = mem /\ imm' = imm
  <2>1. OpenDone => version' = version /\ mem' = mem /\ imm' = imm
    BY DEF OpenDone
  <2> QED BY <1>d, <1>o, <2>1, WriteFrame, BackgroundFrame, OthersFrame, StepKinds
<1>c. current # 0 /\ Current # <<>> /\ Current' = Current /\ Lengths' = Lengths
  BY <1>d, <1>o, ManifestKept, Newest
<1>t. /\ Contents(version.tables)' = Contents(version.tables)
      /\ Contents(TablesOf(Current))' = Contents(TablesOf(Current))
  BY <1>c, <1>v, ContentsSame
<1>k. PICK k, lf : k = version.log /\ lf = version.logfile
  OBVIOUS
<1>l. /\ \A l \in LogsFrom(k) : l \in LogsFrom(k)' /\ Secured(l) \subseteq Secured(l)'
      /\ lf \in LogsFrom(k)
  BY <1>d, <1>k, <1>p, NeededLogs
<1>r. /\ \A b \in mem : b[1] \in Acknowledged => b \in Secured(lf)
      /\ \A b \in imm \ NoTable : b[1] \in Acknowledged => \E l \in LogsFrom(k) : b \in Secured(l)
      /\ \A l \in DOMAIN logs : l < lf => \A b \in InLog(l) :
            b[1] \in Acknowledged => b \in (imm \ NoTable) \cup Contents(version.tables)
      /\ \A l \in DOMAIN logs : l < k => \A b \in InLog(l) :
            b[1] \in Acknowledged => b \in Contents(version.tables)
      /\ behind = "nothing" => Contents(version.tables) \subseteq Contents(TablesOf(Current))
  BY <1>k, <1>p DEF PlacesInv, Acked
<1>4. \A l \in DOMAIN logs' : l < k => \A b \in InLog(l)' :
         b[1] \in Acknowledged' => b \in Contents(version.tables)'
  BY <1>a, <1>b, <1>r, <1>t
<1>5. behind' = "nothing" => Contents(version.tables)' \subseteq Contents(TablesOf(Current))'
  <2>1. EditFails => behind' \in PartOfRecord \cup {behind}
    BY DEF EditFails
  <2>2. ~EditFails => behind' = behind
    BY <1>d, <1>o, WriteFrame, BackgroundFrame, OpenFrame, OthersFrame, StepKinds DEF disk
  <2>3. behind' = "nothing" => behind = "nothing"
    BY <2>1, <2>2 DEF PartOfRecord
  <2> QED BY <1>r, <1>t, <2>3
<1>6. CASE ~SwitchMemTable
  <2>1. \A b \in mem' : b[1] \in Acknowledged' => b \in Secured(lf)'
    BY <1>6, <1>a, <1>l, <1>r, <1>v
  <2>2. \A b \in imm' \ NoTable :
           b[1] \in Acknowledged' => \E l \in LogsFrom(k)' : b \in Secured(l)'
    <3>1. ASSUME NEW b \in imm' \ NoTable, b[1] \in Acknowledged'
          PROVE  \E l \in LogsFrom(k)' : b \in Secured(l)'
      <4>1. b \in imm \ NoTable
        BY <1>6, <1>v, <3>1
      <4>2. PICK l \in LogsFrom(k) : b \in Secured(l)
        BY <1>a, <1>r, <3>1, <4>1
      <4> QED BY <1>l, <4>2
    <3> QED BY <3>1
  <2>3. \A l \in DOMAIN logs' : l < lf => \A b \in InLog(l)' :
           b[1] \in Acknowledged' => b \in (imm' \ NoTable) \cup Contents(version.tables)'
    BY <1>6, <1>a, <1>b, <1>r, <1>t, <1>v
  <2> QED BY <1>4, <1>5, <1>6, <1>k, <1>v, <2>1, <2>2, <2>3, PlacesFrom
<1>7. CASE SwitchMemTable
  <2>1. imm = NoTable /\ imm' = mem /\ mem' = {} /\ up \in {"up", "closing"}
    <3>1. up \in {"up", "closing"}
      BY <1>7, WriteFrame DEF WriteStep
    <3> QED BY <1>7, <3>1 DEF SwitchMemTable, Switches
  <2>2. PICK new : new = version'.logfile
    OBVIOUS
  <2>3. \A b \in mem' : b[1] \in Acknowledged' => b \in Secured(new)'
    BY <2>1
  <2>4. \A b \in imm' \ NoTable :
           b[1] \in Acknowledged' => \E l \in LogsFrom(k)' : b \in Secured(l)'
    BY <1>a, <1>l, <1>r, <2>1
  <2>5. mem \ NoTable = mem
    BY Constants DEF StoreIInv, Types, ProcessTypes
  <2>6. Visible = mem \cup Contents(version.tables)
    BY <2>1 DEF Visible
  <2>7. ASSUME NEW l \in DOMAIN logs', NEW b \in InLog(l)', b[1] \in Acknowledged'
        PROVE  b \in (imm' \ NoTable) \cup Contents(version.tables)'
    <3>1. l \in DOMAIN logs /\ b \in InLog(l)
      BY <1>a, <1>b, <2>7
    <3>2. b \in Stored
      BY <3>1 DEF Stored, InLogs
    <3>3. b \in Visible
      BY <1>a, <1>p, <2>7, <3>2 DEF KeptInv, Acked
    <3> QED BY <1>t, <2>1, <2>5, <2>6, <3>3
  <2> QED BY <1>4, <1>5, <1>k, <1>v, <2>2, <2>3, <2>4, <2>7, PlacesFrom
<1> QED BY <1>6, <1>7

LEMMA PlacesStep ==
    ASSUME StoreIInv, SequenceInv, PromiseInv, [StoreNext]_storeVars
    PROVE  PlacesInv'
<1>p. /\ QueueInv /\ GroupInv /\ AskedInv /\ RecordInv /\ LastLogInv /\ FirstInv
      /\ OpeningInv /\ EditInv /\ GarbageInv /\ PlacesInv /\ KeptInv
  BY DEF PromiseInv
<1>0. SUFFICES ASSUME Running' PROVE PlacesInv'
  BY DEF PlacesInv
<1>1. CASE OpenCurrent
  <2>1. /\ version'.logfile = version.logfile /\ version'.log = version.logfile
        /\ TablesOf(Current)' = version'.tables /\ Visible = Contents(version'.tables)
    BY <1>1, <1>p, InstalledByOpening
  <2>2. tables' = tables /\ mem' = mem /\ imm' = imm /\ up = "current"
    BY <1>1 DEF OpenCurrent
  <2>3. mem' = {} /\ imm' = NoTable
    BY <2>2 DEF StoreIInv, PhasesInv
  <2>4. Contents(version.tables)' = Visible /\ Contents(TablesOf(Current))' = Visible
    BY <2>1, <2>2 DEF Contents
  <2>5. Acknowledged' = Acknowledged
    <3>1. ~InsertInto
      BY <1>1 DEF InsertInto, OpenCurrent, StoreIInv, PhasesInv, NoLead
    <3> QED BY <1>p, <3>1, AcknowledgedStep
  <2>6. ASSUME NEW l \in DOMAIN logs', NEW b \in InLog(l)', b[1] \in Acknowledged'
        PROVE  b \in Contents(version.tables)'
    <3>1. l \in DOMAIN logs /\ b \in InLog(l)
      BY <1>p, <2>5, <2>6, AckedBefore
    <3>2. b \in Stored
      BY <3>1 DEF Stored, InLogs
    <3> QED BY <1>p, <2>4, <2>5, <2>6, <3>2 DEF KeptInv, Acked
  <2>7. PICK k, lf : k = version'.log /\ lf = version'.logfile
    OBVIOUS
  <2>8. imm' \ NoTable = {}
    BY <2>3
  <2> QED BY <2>3, <2>4, <2>6, <2>7, <2>8, PlacesFrom
<1>2. CASE ~OpenCurrent
  <2>0. Running
    BY <1>0, <1>2, PhaseEntered
  <2>k. PICK k, lf : k = version.log /\ lf = version.logfile
    OBVIOUS
  <2>r. /\ \A b \in mem : b[1] \in Acknowledged => b \in Secured(lf)
        /\ \A b \in imm \ NoTable : b[1] \in Acknowledged => \E l \in LogsFrom(k) : b \in Secured(l)
        /\ \A l \in DOMAIN logs : l < lf => \A b \in InLog(l) :
              b[1] \in Acknowledged => b \in (imm \ NoTable) \cup Contents(version.tables)
        /\ \A l \in DOMAIN logs : l < k => \A b \in InLog(l) :
              b[1] \in Acknowledged => b \in Contents(version.tables)
        /\ behind = "nothing" => Contents(version.tables) \subseteq Contents(TablesOf(Current))
        /\ lf \in DOMAIN logs /\ lf \in LogsFrom(k)
    <3>1. lf \in DOMAIN logs
      BY <1>p, <2>0, <2>k DEF LastLogInv
    <3>2. lf >= k
      <4>1. version.log <= version.logfile /\ version.log \in Nat /\ version.logfile \in Nat
        BY <2>0, NumberFacts DEF StoreIInv, NumbersInv, LogNumbers
      <4> QED BY <2>k, <4>1
    <3> QED BY <1>p, <2>0, <2>k, <3>1, <3>2 DEF PlacesInv, Acked, LogsFrom
  <2>1. CASE InsertInto
    <3>1. /\ mem' = mem \cup Numbered
          /\ UNCHANGED <<imm, logs, tables, manifests, current>>
          /\ version'.tables = version.tables /\ version'.log = k /\ version'.logfile = lf
          /\ \A b \in InMemory \cup Contents(Needed) :
                b[1] \in Acknowledged' => b[1] \in Acknowledged
          /\ \A b \in Numbered : b[1] \in Acknowledged' => b \in Secured(lf)
          /\ \A l \in DOMAIN logs : l # lf =>
                \A b \in InLog(l) : b[1] \in Acknowledged' => b[1] \in Acknowledged
      BY <2>1, <2>k, InsertFacts
    <3>b. behind' = behind
      BY <2>1 DEF InsertInto, disk
    <3>2. /\ Contents(version.tables)' = Contents(version.tables)
          /\ Contents(TablesOf(Current))' = Contents(TablesOf(Current))
      BY <3>1 DEF Contents, Current, TablesOf
    <3>3. /\ \A l : InLog(l)' = InLog(l) /\ Secured(l)' = Secured(l)
          /\ LogsFrom(k)' = LogsFrom(k)
      BY <3>1 DEF InLog, Secured, InSynced, LogsFrom
    <3>4. \A b \in mem' : b[1] \in Acknowledged' => b \in Secured(lf)'
      BY <2>r, <3>1, <3>3 DEF InMemory
    <3>5. \A b \in imm' \ NoTable :
             b[1] \in Acknowledged' => \E l \in LogsFrom(k)' : b \in Secured(l)'
      BY <2>r, <3>1, <3>3 DEF InMemory
    <3>n. lf \in Nat /\ k \in Nat /\ k <= lf /\ \A l \in DOMAIN logs : l \in Nat
      <4>1. version.log <= version.logfile
        BY <2>0 DEF StoreIInv, NumbersInv, LogNumbers
      <4> QED BY <2>k, <4>1, NumberFacts, StoredFacts
    <3>6. \A l \in DOMAIN logs' : l < lf => \A b \in InLog(l)' :
             b[1] \in Acknowledged' => b \in (imm' \ NoTable) \cup Contents(version.tables)'
      <4>1. \A l \in DOMAIN logs : l < lf => l # lf
        BY <3>n
      <4> QED BY <2>r, <3>1, <3>2, <3>3, <4>1
    <3>7. \A l \in DOMAIN logs' : l < k => \A b \in InLog(l)' :
             b[1] \in Acknowledged' => b \in Contents(version.tables)'
      <4>1. \A l \in DOMAIN logs : l < k => l # lf
        BY <3>n
      <4> QED BY <2>r, <3>1, <3>2, <3>3, <4>1
    <3> QED BY <2>r, <3>1, <3>2, <3>4, <3>5, <3>6, <3>7, <3>b, PlacesFrom
  <2>2. CASE WriteEdit
    <3>1. /\ bg.phase = "write" /\ UNCHANGED <<mem, imm, version, logs, tables>>
          /\ behind' = "nothing" => behind = "nothing"
      BY <2>2 DEF WriteEdit, Busy
    <3>2. Acknowledged' = Acknowledged
      <4>1. ~InsertInto
        <5>1. bg'.phase = "sync"
          BY <2>2 DEF WriteEdit, StoreIInv, Types, ProcessTypes
        <5>2. InsertInto => bg' = bg
          BY DEF InsertInto
        <5> QED BY <3>1, <5>1, <5>2
      <4> QED BY <1>p, <4>1, AcknowledgedStep
    <3>3. Contents(TablesOf(Current)) \subseteq Contents(Applied(TablesOf(Current), bg.edit))
      BY <1>p, <3>1, EditContents
    <3>4. Contents(version.tables)' = Contents(version.tables)
      BY <3>1 DEF Contents
    <3>5. /\ \A l : InLog(l)' = InLog(l) /\ Secured(l)' = Secured(l)
          /\ LogsFrom(k)' = LogsFrom(k)
      BY <3>1 DEF InLog, Secured, InSynced, LogsFrom
    <3>6. ASSUME behind' = "nothing"
          PROVE  Contents(version.tables)' \subseteq Contents(TablesOf(Current))'
      <4>1. TablesOf(Current)' = Applied(TablesOf(Current), bg.edit)
        BY <2>2, <3>1, <3>6, EditWritten
      <4>2. Contents(TablesOf(Current))' = Contents(Applied(TablesOf(Current), bg.edit))
        BY <3>1, <4>1 DEF Contents
      <4> QED BY <2>r, <3>1, <3>3, <3>4, <3>6, <4>2
    <3> QED BY <2>k, <2>r, <3>1, <3>2, <3>4, <3>5, <3>6, PlacesFrom
  <2>3. CASE Install
    <3>1. /\ bg.phase = "sync" /\ UNCHANGED <<mem, logs, tables>>
          /\ version'.tables = Applied(version.tables, bg.edit)
          /\ version'.log = bg.edit.log /\ version'.logfile = lf
          /\ imm' = (IF bg.of = "flush" THEN NoTable ELSE imm) /\ Current' = Current
      BY <2>3, <2>k, EditInstalled
    <3>2. Acknowledged' = Acknowledged
      <4>1. ~InsertInto
        <5>1. bg'.phase = "clean"
          BY <2>3 DEF Install, NoWork
        <5>2. InsertInto => bg' = bg
          BY DEF InsertInto
        <5> QED BY <3>1, <5>1, <5>2
      <4> QED BY <1>p, <4>1, AcknowledgedStep
    <3>3. /\ Contents(version.tables)' = Contents(Applied(version.tables, bg.edit))
          /\ Contents(TablesOf(Current))' = Contents(TablesOf(Current))
      BY <3>1 DEF Contents, TablesOf
    <3>4. /\ Contents(version.tables) \subseteq Contents(Applied(version.tables, bg.edit))
          /\ bg.of = "flush" => /\ imm # NoTable /\ bg.edit.log = lf
                                /\ Contents(Applied(version.tables, bg.edit)) =
                                      Contents(version.tables) \cup imm
                                /\ imm = Contents(bg.edit.add)
          /\ bg.of # "flush" => /\ bg.edit.log = k
                                /\ Contents(Applied(version.tables, bg.edit)) =
                                      Contents(version.tables)
      BY <1>p, <2>k, <3>1, EditContents
    <3>5. /\ \A l : InLog(l)' = InLog(l) /\ Secured(l)' = Secured(l)
          /\ \A n : LogsFrom(n)' = LogsFrom(n)
      BY <3>1 DEF InLog, Secured, InSynced, LogsFrom
    <3>6. \A b \in mem' : b[1] \in Acknowledged' => b \in Secured(lf)'
      BY <2>r, <3>1, <3>2, <3>5
    <3>7. ASSUME behind' = "nothing"
          PROVE  Contents(version.tables)' \subseteq Contents(TablesOf(Current))'
      <4>1. behind = "nothing"
        BY <2>3, <3>7 DEF Install
      <4>2. Contents(bg.edit.add) \subseteq Contents(TablesOf(Current))
        BY <1>p, <3>1, <4>1 DEF EditInv, Contents
      <4> QED BY <2>r, <3>3, <3>4, <4>1, <4>2
    <3>8. CASE bg.of = "flush"
      <4>1. imm' \ NoTable = {} /\ version'.log = lf
        BY <3>1, <3>4, <3>8
      <4>2. \A l \in DOMAIN logs' : l < lf => \A b \in InLog(l)' :
               b[1] \in Acknowledged' => b \in Contents(version.tables)'
        BY <2>r, <3>1, <3>2, <3>3, <3>4, <3>5, <3>8
      <4> QED BY <3>1, <3>6, <3>7, <4>1, <4>2, PlacesFrom
    <3>9. CASE bg.of # "flush"
      <4>1. imm' = imm /\ version'.log = k
        BY <3>1, <3>4, <3>9
      <4>2. \A b \in imm' \ NoTable :
               b[1] \in Acknowledged' => \E l \in LogsFrom(k)' : b \in Secured(l)'
        BY <2>r, <3>2, <3>5, <4>1
      <4>3. \A l \in DOMAIN logs' : l < lf => \A b \in InLog(l)' :
               b[1] \in Acknowledged' => b \in (imm' \ NoTable) \cup Contents(version.tables)'
        BY <2>r, <3>1, <3>2, <3>3, <3>4, <3>5, <4>1
      <4>4. \A l \in DOMAIN logs' : l < k => \A b \in InLog(l)' :
               b[1] \in Acknowledged' => b \in Contents(version.tables)'
        BY <2>r, <3>1, <3>2, <3>3, <3>4, <3>5
      <4> QED BY <3>1, <3>6, <3>7, <4>1, <4>2, <4>3, <4>4, PlacesFrom
    <3> QED BY <3>8, <3>9
  <2>4. CASE ~InsertInto /\ ~WriteEdit /\ ~Install
    BY <1>0, <2>0, <2>4, PlacesQuiet
  <2> QED BY <2>1, <2>2, <2>3, <2>4
<1> QED BY <1>1, <1>2

-----------------------------------------------------------------------------
(* The invariant.                                                              *)

LEMMA PromiseInit ==
    ASSUME StoreInit
    PROVE  PromiseInv
<1>1. /\ queue = <<>> /\ lead = NoLead /\ up = "down" /\ current = 0 /\ unread = {}
      /\ pc = [w \in Writers |-> "idle"] /\ result = [w \in Writers |-> "none"]
      /\ mem = {} /\ imm = NoTable /\ version = NoVersion /\ bg = NoWork /\ merge = NoMerge
      /\ garbage = {} /\ logs = <<>> /\ DOMAIN logs = {} /\ Len(queue) = 0
  <2>1. Len(<<>>) = 0 /\ DOMAIN <<>> = {}
    OBVIOUS
  <2> QED BY <2>1 DEF StoreInit
<1>2. lead.phase = "none" /\ bg.phase = "idle" /\ Lengths = {} /\ ~Running
  BY <1>1 DEF NoLead, NoWork, Lengths, Running
<1>3. Needed = {} /\ Stored = {} /\ InMemory = {} /\ Acknowledged = {}
  <2>1. Needed = {}
    BY <1>1, <1>2 DEF Needed, ManifestTables, ProcessTables, NoVersion, NoMerge, NoWork, NoEdit,
                      StoreInit
  <2>2. InMemory = {}
    BY <1>1 DEF InMemory
  <2>3. Acknowledged = {}
    BY <1>1 DEF Acknowledged
  <2> QED BY <1>1, <2>1, <2>2, <2>3 DEF Stored, Contents, InLogs
<1>4. QueueInv /\ GroupInv /\ AskedInv /\ RecordInv
  BY <1>1, <1>2, <1>3 DEF QueueInv, GroupInv, AskedInv, RecordInv, Contents
<1>5. LastLogInv /\ FirstInv /\ OpeningInv /\ EditInv /\ GarbageInv /\ PlacesInv
  BY <1>1, <1>2, <1>3 DEF LastLogInv, FirstInv, OpeningInv, EditInv, GarbageInv, PlacesInv
<1>6. KeptInv
  BY <1>2, <1>3 DEF KeptInv, Acked
<1> QED BY <1>4, <1>5, <1>6 DEF PromiseInv

LEMMA PromiseStep ==
    ASSUME StoreIInv, SequenceInv, PromiseInv, [StoreNext]_storeVars
    PROVE  PromiseInv'
<1>p. /\ QueueInv /\ GroupInv /\ AskedInv /\ RecordInv /\ LastLogInv /\ FirstInv
      /\ OpeningInv /\ EditInv /\ GarbageInv
  BY DEF PromiseInv
<1>1. StoreIInv'
  BY FilesStep
<1>2. QueueInv' /\ GroupInv' /\ AskedInv'
  BY <1>p, QueueStep, GroupStep, AskedStep
<1>3. RecordInv' /\ LastLogInv' /\ FirstInv'
  BY <1>p, RecordStep, LastLogStep, FirstStep
<1>4. OpeningInv' /\ EditInv' /\ GarbageInv'
  BY <1>p, <1>1, OpeningInvStep, EditStep, GarbageStep
<1>5. PlacesInv'
  BY PlacesStep
<1>6. KeptInv'
  <2>1. CASE InsertInto
    BY <2>1, KeptInsert
  <2>2. CASE Dies /\ ~MachineCrash
    BY <2>2, KeptCrash
  <2>3. CASE MachineCrash
    BY <2>3, KeptMachineCrash
  <2>4. CASE ~InsertInto /\ ~Dies
    BY <2>4, KeptQuiet
  <2> QED BY <2>1, <2>2, <2>3, <2>4
<1> QED BY <1>2, <1>3, <1>4, <1>5, <1>6 DEF PromiseInv

LEMMA PromiseInvariant == StoreSpec => [](StoreIInv /\ SequenceInv /\ PromiseInv)
<1> DEFINE IInv == StoreIInv /\ SequenceInv /\ PromiseInv
<1>1. StoreInit => IInv
  BY FilesInit, SequencesInit, PromiseInit
<1>2. IInv /\ [StoreNext]_storeVars => IInv'
  <2> SUFFICES ASSUME StoreIInv, SequenceInv, PromiseInv, [StoreNext]_storeVars PROVE IInv'
    OBVIOUS
  <2>1. StoreIInv'
    BY FilesStep
  <2>2. SequenceInv'
    BY NumbersUsedOnceStep, EditSequencesStep, OpenedSequencesStep, VersionSequencesStep
       DEF SequenceInv
  <2>3. PromiseInv'
    BY PromiseStep
  <2> QED BY <2>1, <2>2, <2>3
<1> HIDE DEF IInv
<1>3. StoreSpec => []IInv
  BY <1>1, <1>2, PTL DEF StoreSpec
<1> QED BY <1>3 DEF IInv

-----------------------------------------------------------------------------
(* The refinement: each step as a step of DurableStore.                        *)

Torn == up = "up" /\ logs[version.logfile].torn

\* Only a call of Write makes an idle writer something else.
LEMMA IdleStep ==
    ASSUME StoreIInv, QueueInv, GroupInv, [StoreNext]_storeVars, NEW w \in Writers
    PROVE  pc'[w] # "idle" <=> pc[w] # "idle" \/ Enqueue(w)
<1>t. WriterTypes
  BY DEF StoreIInv, Types
<1>0. Enqueue(w) => pc'[w] # "idle"
  BY <1>t DEF Enqueue, WriterTypes
<1>1. ASSUME NEW n \in 0 .. Len(queue), NEW status \in {"ok", "error"}, Return(n, status)
      PROVE  pc'[w] # "idle" <=> pc[w] # "idle"
  <2>1. /\ \A i \in 1 .. n : pc[queue[i]] = "queued" /\ pc'[queue[i]] = "done"
        /\ (\A i \in 1 .. n : w # queue[i]) => pc'[w] = pc[w]
    BY <1>1, <1>t, ReturnFacts
  <2> QED BY <2>1
<1>2. ASSUME WriteStep PROVE pc'[w] # "idle" <=> pc[w] # "idle"
  <2>1. CASE pc' = pc
    BY <2>1
  <2>2. CASE RoomError \/ SwitchFails \/ (RoomFound /\ pc' # pc)
    <3>1. lead.phase = "room" /\ (Return(1, "error") \/ Return(1, "ok"))
      BY <2>2 DEF RoomError, SwitchFails, Switches, RoomFound
    <3> QED BY <1>1, <1>t, <3>1, QueueFacts
  <2>3. CASE AddRecordFails \/ SyncLogFails \/ InsertInto
    <3>1. Return(Len(lead.group), "error") \/ Return(Len(lead.group), "ok")
      BY <2>3 DEF AddRecordFails, SyncLogFails, InsertInto
    <3> QED BY <1>1, <1>t, <3>1, QueueFacts
  <2>4. AtFront \/ SwitchMemTable \/ AddRecord \/ SyncLog => pc' = pc
    BY DEF AtFront, SwitchMemTable, AddRecord, SyncLog
  <2> QED BY <1>2, <2>1, <2>2, <2>3, <2>4 DEF WriteStep
<1>3. ASSUME ~WriteStep, \A v \in Writers : ~Enqueue(v)
      PROVE  pc'[w] # "idle" <=> pc[w] # "idle"
  <2>1. pc' = pc \/ pc' = [v \in Writers |-> IF pc[v] = "queued" THEN "gone" ELSE pc[v]]
    BY <1>3, BackgroundFrame, OpenFrame, OthersFrame, DiesFrame, StepKinds DEF Gone
  <2> QED BY <2>1
<1>4. ASSUME NEW v \in Writers, Enqueue(v)
      PROVE  pc'[w] # "idle" <=> pc[w] # "idle" \/ Enqueue(w)
  <2>1. v # w => pc'[w] = pc[w]
    BY <1>4, <1>t DEF Enqueue, WriterTypes
  <2> QED BY <1>0, <1>4, <2>1
<1>5. Enqueue(w) => (pc'[w] # "idle" <=> pc[w] # "idle" \/ Enqueue(w))
  BY <1>0
<1> QED BY <1>0, <1>2, <1>3, <1>4

\* The state of DurableStore.
Asked == {w \in Writers : pc[w] # "idle"}

LEMMA PromiseState ==
    ASSUME StoreIInv, PromiseInv
    PROVE  Torn \in BOOLEAN
<1>1. CASE up = "up"
  <2>1. version.logfile \in DOMAIN logs
    BY <1>1 DEF PromiseInv, LastLogInv, Running
  <2>2. logs[version.logfile].torn \in BOOLEAN
    BY <2>1 DEF StoreIInv, Types, LogTypes, LogFiles
  <2> QED BY <2>2 DEF Torn
<1>2. CASE up # "up"
  BY <1>2 DEF Torn
<1> QED BY <1>1, <1>2

LEMMA PromiseStateNext ==
    ASSUME StoreIInv, PromiseInv', [StoreNext]_storeVars
    PROVE  Torn' \in BOOLEAN
<1>1. StoreIInv'
  BY FilesStep
<1>2. up' = "up" => version'.logfile \in DOMAIN logs'
  BY DEF PromiseInv, LastLogInv, Running
<1>3. up' = "up" => logs'[version'.logfile].torn \in BOOLEAN
  BY <1>1, <1>2 DEF StoreIInv, Types, LogTypes, LogFiles
<1> QED BY <1>3 DEF Torn

\* What a step neither of a reader's view nor of the record of tables does.
LEMMA TearPromise ==
    ASSUME StoreIInv, PromiseInv, PromiseInv', [StoreNext]_storeVars,
           Asked' = Asked, WritersOf(Visible)' = WritersOf(Visible),
           Acknowledged' = Acknowledged, lost' = lost, Broken' = Broken,
           Condition = "open", Condition' = "open"
    PROVE  [Promise!Next]_Promise!vars
<1>1. Torn \in BOOLEAN /\ Torn' \in BOOLEAN
  BY PromiseState, PromiseStateNext
<1>2. CASE Torn' = Torn
  BY <1>2 DEF Promise!vars, Asked, Torn
<1>3. CASE Torn' = ~Torn
  <2>1. Promise!Tear
    BY <1>3 DEF Promise!Tear, Asked, Torn
  <2> QED BY <2>1 DEF Promise!Next
<1> QED BY <1>1, <1>2, <1>3

\* The record of the tables breaks, and is not mended before the next open.
LEMMA BrokenStep ==
    ASSUME StoreIInv, BackgroundStep
    PROVE  Broken' = Broken \/ (Broken' = TRUE /\ Torn' = Torn)
<1>1. CASE ~WriteEdit /\ ~Install /\ ~EditFails
  BY <1>1, BackgroundFrame DEF Broken
<1>2. CASE WriteEdit \/ Install \/ EditFails
  <2>1. ~Clean
    <3>1. Clean => bg.phase = "clean"
      BY DEF Clean, Busy
    <3>2. bg.phase \in {"write", "sync"}
      BY <1>2 DEF WriteEdit, Install, EditFails, Busy
    <3> QED BY <3>1, <3>2
  <2>2. Torn' = Torn
    BY <2>1, BackgroundFrame DEF Torn
  <2>3. behind' \in {behind, "part", "record", "synced"} /\ (behind' = "part" => behind # "record" /\ behind # "synced")
    BY <1>2 DEF WriteEdit, Install, EditFails, PartOfRecord, Busy
  <2>4. Broken' = Broken \/ Broken' = TRUE
    BY <2>3 DEF Broken
  <2> QED BY <2>2, <2>4
<1> QED BY <1>1, <1>2

\* An open is refused only if the record of the tables broke or the store is empty: no
\* table is missing.
LEMMA RefusedPromise ==
    ASSUME StoreIInv, RecoverManifest, up' = "corrupt"
    PROVE  Broken \/ WritersOf(Visible) = {}
<1>1. up = "down" /\ current # 0
  BY DEF RecoverManifest
<1>2. Current = <<>> \/ MissingTables(TablesOf(Current)) # {} \/ Broken
  BY DEF RecoverManifest, Current
<1>3. CASE Current = <<>>
  <2>1. Visible = {}
    BY <1>1, <1>3 DEF Visible, Recoverable, Current
  <2> QED BY <2>1 DEF WritersOf
<1>4. CASE Current # <<>>
  <2>1. Len(Current) \in Lengths /\ TablesOf(Prefix(Len(Current))) = TablesOf(Current)
    BY <1>1, <1>4, Newest
  <2>2. TablesOf(Current) \subseteq Needed
    BY <2>1 DEF Needed, ManifestTables
  <2>3. MissingTables(TablesOf(Current)) = {}
    BY <2>2 DEF MissingTables, StoreIInv, FilesInv
  <2> QED BY <1>2, <1>4, <2>3
<1> QED BY <1>3, <1>4

\* A step that neither inserts a group nor ends the process.
LEMMA QuietPromise ==
    ASSUME StoreIInv, PromiseInv, PromiseInv', [StoreNext]_storeVars, ~InsertInto, ~Dies
    PROVE  [Promise!Next]_Promise!vars
<1>p. /\ QueueInv /\ GroupInv /\ AskedInv /\ RecordInv /\ LastLogInv
      /\ OpeningInv /\ EditInv /\ GarbageInv
  BY DEF PromiseInv
<1>1. Acknowledged' = Acknowledged /\ Visible' = Visible
  BY <1>p, AcknowledgedStep, VisibleStep
<1>2. WritersOf(Visible)' = WritersOf(Visible) /\ lost' = lost
  BY <1>1, WriteFrame, BackgroundFrame, OpenFrame, OthersFrame, StepKinds DEF WritersOf
<1>3. ASSUME NEW w \in Writers, Enqueue(w) PROVE [Promise!Next]_Promise!vars
  <2>1. Asked' = Asked \cup {w}
    <3>1. WriterTypes
      BY DEF StoreIInv, Types
    <3> QED BY <1>3, <3>1 DEF Asked, Enqueue, WriterTypes
  <2>2. Torn' = Torn /\ Broken' = Broken /\ Condition = "open" /\ Condition' = "open"
    BY <1>3 DEF Torn, Broken, Condition, Enqueue, disk
  <2>3. Promise!Ask(w)
    BY <1>1, <1>2, <2>1, <2>2 DEF Promise!Ask, Asked, Torn
  <2> QED BY <2>3 DEF Promise!Next
<1>a. ASSUME \A w \in Writers : ~Enqueue(w) PROVE Asked' = Asked
  <2>1. \A w \in Writers : pc'[w] # "idle" <=> pc[w] # "idle"
    BY <1>a, <1>p, IdleStep
  <2> QED BY <2>1 DEF Asked
<1>4. CASE WriteStep /\ \A w \in Writers : ~Enqueue(w)
  <2>1. Condition = "open" /\ Condition' = "open" /\ Broken' = Broken
    BY <1>4, WriteFrame DEF Condition, Broken
  <2>2. Asked' = Asked
    BY <1>4, <1>a
  <2> QED BY <1>1, <1>2, <2>1, <2>2, TearPromise
<1>5. CASE BackgroundStep
  <2>1. Condition = "open" /\ Condition' = "open" /\ pc' = pc
    BY <1>5, BackgroundFrame DEF Condition
  <2>2. Asked' = Asked
    BY <2>1 DEF Asked
  <2>3. CASE Broken' = Broken
    BY <1>1, <1>2, <2>1, <2>2, <2>3, TearPromise
  <2>4. CASE Broken' = TRUE /\ Torn' = Torn
    <3>1. Promise!Break
      BY <1>1, <1>2, <2>1, <2>2, <2>4 DEF Promise!Break, Asked, Torn
    <3> QED BY <3>1 DEF Promise!Next
  <2> QED BY <1>5, <2>3, <2>4, BrokenStep
<1>6. CASE OpenStep
  <2>1. /\ up \notin {"up", "closing"} /\ pc' = pc /\ (~OpenCurrent => behind' = behind)
    BY <1>6, OpenFrame
  <2>2. Asked' = Asked /\ Torn = FALSE
    BY <2>1 DEF Asked, Torn
  <2>3. up' = "up" => OpenDone /\ up = "clean" /\ version' = version /\ logs' = logs
    BY <1>6, <2>1 DEF OpenStep, NewDB, RecoverManifest, RecoverLogs, OpenLog, OpenManifest,
                      OpenCurrent, OpenDone, process
  <2>4. Torn' = FALSE
    <3>1. up' = "up" => ~logs'[version'.logfile].torn
      BY <1>p, <2>3 DEF OpeningInv
    <3> QED BY <3>1 DEF Torn
  <2>5. CASE OpenCurrent
    <3>1. Condition = "closed" /\ Condition' = "closed" /\ Broken' = FALSE
      BY <2>5 DEF OpenCurrent, Condition, Broken
    <3>2. Promise!Renew
      BY <1>1, <1>2, <2>2, <2>4, <3>1 DEF Promise!Renew, Asked, Torn
    <3> QED BY <3>2 DEF Promise!Next
  <2>6. CASE OpenDone /\ up' = "up"
    <3>1. Condition = "closed" /\ Condition' = "open" /\ Broken' = Broken
      BY <2>1, <2>3, <2>6 DEF Condition, Broken, OpenDone
    <3>2. Promise!Open
      BY <1>1, <1>2, <2>2, <2>4, <3>1 DEF Promise!Open, Asked, Torn
    <3> QED BY <3>2 DEF Promise!Next
  <2>7. CASE RecoverManifest /\ up' = "corrupt"
    <3>1. Condition = "closed" /\ Condition' = "refused" /\ Broken' = Broken
      BY <2>7 DEF Condition, Broken, RecoverManifest, disk
    <3>2. Broken \/ WritersOf(Visible) = {}
      BY <2>7, RefusedPromise
    <3>3. Promise!Refuse
      BY <1>1, <1>2, <2>2, <2>4, <3>1, <3>2 DEF Promise!Refuse, Asked, Torn
    <3> QED BY <3>3 DEF Promise!Next
  <2>8. CASE ~OpenCurrent /\ up' # "up" /\ up' # "corrupt"
    <3>1. up # "corrupt" /\ up' \notin {"up", "closing"}
      BY <1>6, <2>1, <2>8 DEF OpenStep, NewDB, RecoverManifest, RecoverLogs, OpenLog, OpenManifest,
                              OpenDone, process
    <3>2. Condition = "closed" /\ Condition' = "closed" /\ Broken' = Broken
      BY <2>1, <2>8, <3>1 DEF Condition, Broken
    <3> QED BY <1>1, <1>2, <2>2, <2>4, <3>2 DEF Promise!vars, Asked, Torn
  <2>9. up' = "corrupt" => RecoverManifest
    BY <1>6, <2>1 DEF OpenStep, NewDB, RecoverManifest, RecoverLogs, OpenLog, OpenManifest,
                      OpenCurrent, OpenDone, process
  <2> QED BY <2>3, <2>5, <2>6, <2>7, <2>8, <2>9
<1>7. CASE Others /\ \A w \in Writers : ~Enqueue(w)
  <2>1. /\ UNCHANGED <<version, logs, behind, pc>>
        /\ up' = up \/ (up = "up" /\ up' = "closing")
    BY <1>7, OthersFrame DEF disk
  <2>2. Asked' = Asked /\ Broken' = Broken /\ Condition' = Condition
    BY <2>1 DEF Asked, Broken, Condition
  <2>3. CASE up' = up
    <3>1. Torn' = Torn
      BY <2>1, <2>3 DEF Torn
    <3> QED BY <1>1, <1>2, <2>2, <3>1 DEF Promise!vars, Asked, Torn
  <2>4. CASE up' # up
    <3>1. Condition = "open" /\ Condition' = "open"
      BY <2>1, <2>4 DEF Condition
    <3> QED BY <1>1, <1>2, <2>2, <3>1, TearPromise
  <2> QED BY <2>3, <2>4
<1> QED BY <1>3, <1>4, <1>5, <1>6, <1>7, StepKinds

\* The insertion of a group is the write of its batches.
LEMMA InsertPromise ==
    ASSUME StoreIInv, SequenceInv, PromiseInv, InsertInto
    PROVE  [Promise!Next]_Promise!vars
<1> DEFINE S == WritersOf(Numbered)
<1>p. QueueInv /\ GroupInv /\ AskedInv /\ RecordInv
  BY DEF PromiseInv
<1>t. WriterTypes /\ VersionType
  BY DEF StoreIInv, Types
<1>n. StoreNext
  BY DEF StoreNext, WriteStep
<1>1. /\ up = "up" /\ up' = up /\ logs' = logs /\ version'.logfile = version.logfile
      /\ lead.phase = "insert" /\ Visible' = Visible \cup Numbered
  BY InsertFacts
<1>2. \A b \in Numbered : b[1] \in Writers /\ pc[b[1]] = "queued"
  BY <1>1, <1>p, <1>t, GroupFacts
<1>3. S \subseteq Asked
  BY <1>2 DEF WritersOf, Asked
<1>4. S \cap WritersOf(Visible) = {}
  <2>1. \A b \in Visible : pc[b[1]] \in {"done", "gone"}
    BY <1>1, <1>p, VisibleStored DEF AskedInv
  <2> QED BY <1>2, <2>1 DEF WritersOf
<1>5. WritersOf(Visible)' = WritersOf(Visible) \cup S
  BY <1>1 DEF WritersOf
<1>6. Torn' = Torn /\ Broken' = Broken /\ lost' = lost /\ Condition = "open" /\ Condition' = "open"
  <2>1. behind' = behind /\ lost' = lost
    BY DEF InsertInto, disk
  <2> QED BY <1>1, <2>1 DEF Torn, Broken, Condition
<1>7. Asked' = Asked
  <2>1. \A w \in Writers : ~Enqueue(w)
    <3>1. lead' = NoLead /\ lead # NoLead
      BY <1>1 DEF InsertInto, Return, NoLead
    <3> QED BY <3>1 DEF Enqueue
  <2>2. \A w \in Writers : pc'[w] # "idle" <=> pc[w] # "idle"
    BY <1>n, <1>p, <2>1, IdleStep
  <2> QED BY <2>2 DEF Asked
<1>8. Acknowledged' = IF Torn THEN Acknowledged ELSE Acknowledged \cup S
  <2>1. Torn <=> logs[version.logfile].torn
    BY <1>1 DEF Torn
  <2> QED BY <1>n, <1>p, <2>1, AcknowledgedStep
<1> HIDE DEF S
<1>9. S \in SUBSET Writers
  BY <1>3 DEF Asked
<1>10. Promise!Write(S)
  BY <1>3, <1>4, <1>5, <1>6, <1>7, <1>8 DEF Promise!Write, Asked, Torn
<1> QED BY <1>9, <1>10 DEF Promise!Next

VisibleIsStored == Visible \subseteq Stored

LEMMA NothingUnstored == StoreIInv => VisibleIsStored
BY VisibleStored DEF VisibleIsStored

LEMMA NothingUnstoredNext == StoreIInv' => VisibleIsStored'
BY NothingUnstored, PTL

\* The end of the process, and the crash of the machine.
LEMMA DeathPromise ==
    ASSUME StoreIInv, PromiseInv, PromiseInv', Dies
    PROVE  [Promise!Next]_Promise!vars
<1> DEFINE V == WritersOf(Visible')
<1>p. QueueInv /\ GroupInv /\ AskedInv /\ RecordInv /\ FirstInv /\ KeptInv
  BY DEF PromiseInv
<1>t. WriterTypes /\ VersionType
  BY DEF StoreIInv, Types
<1>1. /\ Visible' = Recoverable' /\ up' = "down" /\ Acknowledged' = Acknowledged
      /\ ~MachineCrash => Recoverable' = Recoverable
      /\ StoreNext
  BY DeathFacts
<1>2. WritersOf(Visible)' = V
  BY DEF WritersOf
<1>3. Torn' = FALSE /\ Condition' = "closed"
  BY <1>1 DEF Torn, Condition
<1>4. Asked' = Asked
  <2>1. \A w \in Writers : ~Enqueue(w)
    <3>1. \A w \in Writers : Enqueue(w) => up' = "up"
      BY DEF Enqueue
    <3> QED BY <1>1, <3>1
  <2>2. \A w \in Writers : pc'[w] # "idle" <=> pc[w] # "idle"
    BY <1>1, <1>p, <2>1, IdleStep
  <2> QED BY <2>2 DEF Asked
<1>5. \A b \in Visible' : b \in Stored'
  <2>1. StoreIInv'
    BY <1>1, FilesStep
  <2> QED BY <2>1, NothingUnstoredNext DEF VisibleIsStored
<1>6. ASSUME NEW b \in Visible' PROVE b \in Stored
  <2>1. ~AddRecord /\ ~InsertInto
    <3>1. AddRecord \/ InsertInto => up' = up /\ crashes' = crashes
      BY DEF AddRecord, InsertInto
    <3>2. up' # up
      BY <1>1 DEF Dies, Crash, MachineCrash, Closed
    <3> QED BY <3>1, <3>2
  <2> QED BY <1>1, <1>5, <1>6, <2>1, StoredStep
<1>7. V \subseteq Asked
  <2>1. ASSUME NEW b \in Visible' PROVE b[1] \in Asked
    <3>1. b \in Stored /\ b \in Batch
      BY <1>6, <2>1, StoredFacts
    <3>2. b[1] \in Writers
      BY <3>1 DEF Batch
    <3>3. b \in Writing \/ pc[b[1]] \in {"done", "gone"}
      BY <1>p, <3>1 DEF AskedInv
    <3>4. b \in Writing => pc[b[1]] = "queued"
      BY <1>p, <1>t, GroupFacts DEF Writing
    <3> QED BY <3>2, <3>3, <3>4 DEF Asked
  <2> QED BY <2>1 DEF WritersOf
<1>8. V \in SUBSET Writers
  BY <1>7 DEF Asked
<1>9. /\ Acknowledged \cap SyncWriters \subseteq V
      /\ Acknowledged \ lost' \subseteq V
  BY <1>1, <1>2 DEF PromiseInv, KeptInv
<1>10. CASE MachineCrash
  <2>1. lost' = lost \cup (Acknowledged \ V)
    BY <1>10 DEF MachineCrash
  <2>2. Broken' \in {Broken, FALSE}
    <3>1. behind' = behind \/ behind' = "nothing"
      <4>1. behind' \in IF behind = "synced" THEN {behind} ELSE {"nothing", behind}
        BY <1>10 DEF MachineCrash
      <4> QED BY <4>1
    <3>2. behind' = behind => Broken' = Broken
      BY DEF Broken
    <3>3. behind' = "nothing" => Broken' = FALSE
      BY DEF Broken
    <3> QED BY <3>1, <3>2, <3>3, Zenon
  <2> HIDE DEF V
  <2>3. Promise!MachineDies(V)
    BY <1>1, <1>2, <1>3, <1>4, <1>7, <1>9, <2>1, <2>2
       DEF Promise!MachineDies, Promise!Survives, Asked, Torn
  <2> QED BY <1>8, <2>3 DEF Promise!Next
<1>11. CASE ~MachineCrash
  <2>1. lost' = lost /\ behind' = behind
    BY <1>11, DiesFrame
  <2>2. Broken' = Broken
    BY <2>1 DEF Broken
  <2>3. CASE up \in {"up", "closing"}
    <3>1. Condition = "open"
      BY <2>3 DEF Condition
    <3> HIDE DEF V
    <3>2. Promise!ProcessDies(V)
      BY <1>1, <1>2, <1>3, <1>4, <1>7, <1>9, <2>1, <2>2, <3>1
         DEF Promise!ProcessDies, Promise!Survives, Asked, Torn
    <3> QED BY <1>8, <3>2 DEF Promise!Next
  <2>4. CASE up \notin {"up", "closing"}
    <3>1. Visible' = Visible /\ Torn = FALSE
      BY <1>1, <1>11, <2>4 DEF Visible, Torn
    <3>2. WritersOf(Visible)' = WritersOf(Visible)
      BY <3>1 DEF WritersOf
    <3>3. CASE up = "corrupt"
      <4>1. Condition = "refused"
        BY <3>3 DEF Condition
      <4>2. Promise!Retry
        BY <1>1, <1>3, <1>4, <2>1, <2>2, <3>1, <3>2, <4>1 DEF Promise!Retry, Asked, Torn
      <4> QED BY <4>2 DEF Promise!Next
    <3>4. CASE up # "corrupt"
      <4>1. Condition = "closed"
        BY <2>4, <3>4 DEF Condition
      <4> QED BY <1>1, <1>3, <1>4, <2>1, <2>2, <3>1, <3>2, <4>1 DEF Promise!vars, Asked, Torn
    <3> QED BY <3>3, <3>4
  <2> QED BY <2>3, <2>4
<1> QED BY <1>10, <1>11

LEMMA PromiseBegins ==
    ASSUME StoreInit
    PROVE  Promise!Init
<1>1. Visible = {} /\ Acknowledged = {} /\ up = "down"
  BY DEF StoreInit, Visible, Recoverable, Acknowledged
<1>2. {w \in Writers : pc[w] # "idle"} = {}
  BY DEF StoreInit
<1>3. lost = {} /\ Broken = FALSE /\ Condition = "closed"
  BY DEF StoreInit, Broken, Condition
<1> QED BY <1>1, <1>2, <1>3 DEF Promise!Init, WritersOf

\* db_impl.cc Write, MakeRoomForWrite, CompactMemTable, RecoverLogFile, version_set.cc
\* LogAndApply and Recover: every step of the store is a step of DurableStore.  A batch that
\* was acknowledged is found again after the process died, and one that was synced also
\* after the machine did; no other step of the store takes one.  Nothing is found that
\* nobody asked to write, and an open is refused only if the manifest has a record behind a
\* part of another, or nothing was ever stored.
THEOREM StoreImplementsPromise == StoreSpec => StoreKeepsPromise
<1> DEFINE IInv == StoreIInv /\ SequenceInv /\ PromiseInv
<1>1. StoreSpec => Promise!Init
  BY PromiseBegins DEF StoreSpec
<1>2. IInv /\ IInv' /\ [StoreNext]_storeVars => [Promise!Next]_Promise!vars
  <2>1. SUFFICES ASSUME StoreIInv, SequenceInv, PromiseInv, PromiseInv', [StoreNext]_storeVars
                 PROVE  [Promise!Next]_Promise!vars
    OBVIOUS
  <2>2. CASE InsertInto
    BY <2>1, <2>2, InsertPromise
  <2>3. CASE Dies
    BY <2>1, <2>3, DeathPromise
  <2>4. CASE ~InsertInto /\ ~Dies
    BY <2>1, <2>4, QuietPromise
  <2> QED BY <2>2, <2>3, <2>4
<1>3. StoreSpec => []IInv
  BY PromiseInvariant
<1> HIDE DEF IInv
<1> QED BY <1>1, <1>2, <1>3, PTL DEF StoreSpec, StoreKeepsPromise, Promise!Spec
====
