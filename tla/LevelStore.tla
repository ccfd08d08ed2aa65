----------------------------- MODULE LevelStore -----------------------------
(* Writes, files and recovery of the local store on iOS (leveldb): the queue   *)
(* of writers and the group they commit together, the log, the memtables, the  *)
(* tables, the manifest and CURRENT, the background thread that turns one into *)
(* the other, and what is found again after a crash.  db/db_impl.cc, with      *)
(* LogAndApply and Recover of db/version_set.cc.                               *)
(*                                                                             *)
(* A batch is named by its writer and carries the sequence number it got.      *)
(* Levels and keys are in LevelVersions: here a table is a set of batches.     *)
(* A file survives a crash of the process as it was written, a crash of the    *)
(* machine as far as it was synced and perhaps further.                        *)
EXTENDS Integers, Sequences, FiniteSets, SequencesExt, FiniteSetsExt

CONSTANTS
    Writers,       \* threads that call Write, each once
    SyncWriters,   \* those that ask for a synced write
    NullWriters,   \* those without a batch: TEST_CompactMemTable
    WriteBuffer,   \* batches a memtable holds before it is full
    MaxGroup,      \* batches one group may have (max_size in BuildBatchGroup)
    L0Trigger, L0Stop,              \* tables that ask for a merge, that stop writes
    Faults,        \* the faults that may happen
    MaxFaults, MaxCrashes           \* bounds: faults and crashes of a behaviour

ASSUME StoreConstants ==
    /\ SyncWriters \subseteq Writers /\ NullWriters \subseteq Writers
    /\ SyncWriters \cap NullWriters = {}
    /\ WriteBuffer \in Nat \ {0} /\ MaxGroup \in Nat \ {0}
    /\ L0Trigger \in Nat \ {0} /\ L0Stop \in Nat /\ L0Trigger <= L0Stop

VARIABLES
    \* the process
    up,          \* "down", a step of opening, "up", "closing" or "corrupt"
    queue,       \* writers_
    pc, result,  \* of each writer: where it is, and what Write returned
    lead,        \* what the writer at the front of the queue is doing
    mem, imm,    \* the memtables (NoTable when there is none)
    version,     \* current_ and the numbers of the VersionSet
    pinned,      \* tables of an older version that an iterator still reads
    bgError, scheduled,   \* bg_error_, background_compaction_scheduled_
    bg,          \* what the background thread is doing
    merge,       \* the merge under way, or NoMerge
    garbage,     \* files RemoveObsoleteFiles has still to remove
    \* the disk: by number; CURRENT is the number of a manifest, or 0
    logs, tables, manifests, current,
    behind,      \* what the manifest of CURRENT has behind the edits that can be read
    \* history
    unread,      \* batches acknowledged from behind a torn record of the log
    lost,        \* acknowledged batches that a crash of the machine took
    faults, crashes

process == <<up, queue, pc, result, lead, mem, imm, version, pinned, bgError,
             scheduled, bg, merge, garbage>>
disk == <<logs, tables, manifests, current, behind>>
storeVars == <<process, disk, unread, lost, faults, crashes>>

-----------------------------------------------------------------------------
(* Files.                                                                      *)

NoTable == {<<"none", 0>>}
NoMerge == [num |-> 0, inputs |-> {}]
NoEdit == [add |-> {}, del |-> {}, log |-> 0, next |-> 0, last |-> 0]
NoWork == [phase |-> "idle", of |-> "none", edit |-> NoEdit]
NoLead == [phase |-> "none", force |-> FALSE, group |-> <<>>]
NoVersion == [tables |-> {}, log |-> 0, logfile |-> 0, manifest |-> 0,
              next |-> 2, last |-> 0]

NewLog == [recs |-> <<>>, synced |-> 0, torn |-> FALSE]
Without(f, x) == [z \in DOMAIN f \ {x} |-> f[z]]
With(f, x, y) == [z \in DOMAIN f \cup {x} |-> IF z = x THEN y ELSE f[z]]
Contents(T) == UNION {tables[t] : t \in T}

\* VersionSet::Builder::Apply and SaveTo: the tables after one more edit, and after all
\* edits of a manifest, those that were added and not deleted since
Applied(T, edit) == (T \ edit.del) \cup edit.add
TablesOf(edits) ==
    {t \in UNION {edits[i].add : i \in DOMAIN edits} :
        \E i \in DOMAIN edits :
            t \in edits[i].add /\ \A j \in i + 1 .. Len(edits) : t \notin edits[j].del}

\* The log a recovery starts from and what is in the logs from there on
LogsFrom(n) == {l \in DOMAIN logs : l >= n}
InLog(l) == UNION ToSet(logs[l].recs)

\* What an open of the files as they are would find
Recoverable ==
    IF current = 0 \/ manifests[current].edits = <<>> THEN {}
    ELSE LET edits == manifests[current].edits
         IN  Contents(TablesOf(edits))
             \cup UNION {InLog(l) : l \in LogsFrom(Last(edits).log)}

Faulty(kind) == kind \in Faults /\ faults < MaxFaults /\ faults' = faults + 1

-----------------------------------------------------------------------------
(* Write.                                                                      *)

NeedsMerge(v) == Cardinality(v.tables) >= L0Trigger

\* Mutant of Schedules: nobody wakes the background thread.
SchedulesNothing(error, m, v) == scheduled

\* MaybeScheduleCompaction, with the state after the step
Schedules(error, m, v) ==
    scheduled \/ (up = "up" /\ ~error /\ (m # NoTable \/ NeedsMerge(v)))

\* Write: the writer joins the queue
Enqueue(w) ==
    /\ up = "up" /\ pc[w] = "idle"
    /\ queue' = Append(queue, w)
    /\ pc' = [pc EXCEPT ![w] = "queued"]
    /\ UNCHANGED <<up, result, lead, mem, imm, version, pinned, bgError, scheduled,
                   bg, merge, garbage, disk, unread, lost, faults, crashes>>

\* The writer at the front starts MakeRoomForWrite
AtFront ==
    /\ queue # <<>> /\ lead = NoLead
    /\ lead' = [NoLead EXCEPT !.phase = "room", !.force = Head(queue) \in NullWriters]
    /\ UNCHANGED <<up, queue, pc, result, mem, imm, version, pinned, bgError,
                   scheduled, bg, merge, garbage, disk, unread, lost, faults,
                   crashes>>

\* The end of Write: the writers up to the last of the group return
Return(last, status) ==
    LET done == ToSet(SubSeq(queue, 1, last))
    IN  /\ queue' = SubSeq(queue, last + 1, Len(queue))
        /\ pc' = [w \in Writers |-> IF w \in done THEN "done" ELSE pc[w]]
        /\ result' = [w \in Writers |-> IF w \in done THEN status ELSE result[w]]
        /\ lead' = NoLead

\* Of the first n writers of a queue those that brought a batch
WithBatch(q, n) == {i \in 1 .. n : q[i] \notin NullWriters}
BatchCount(q, n) == Cardinality(WithBatch(q, n))

\* Mutant of Groups: a synced write may join any group.
GroupsMixed == {n \in 1 .. Len(queue) : BatchCount(queue, n) <= MaxGroup}

\* BuildBatchGroup: everybody in line, but no synced write behind one that is not
\* and no more than fits
Groups == {n \in 1 .. Len(queue) :
    /\ BatchCount(queue, n) <= MaxGroup
    /\ Head(queue) \in SyncWriters \/ ToSet(SubSeq(queue, 2, n)) \cap SyncWriters = {}}

HasRoom == ~lead.force /\ Cardinality(mem) < WriteBuffer
Group == SubSeq(queue, 1, Max(Groups \cup {1}))

\* MakeRoomForWrite finds an error, or room.  The wait for imm_ or for fewer tables
\* at level 0 is a step that cannot be taken.
RoomError ==
    /\ lead.phase = "room" /\ bgError
    /\ Return(1, "error")
    /\ UNCHANGED <<up, mem, imm, version, pinned, bgError, scheduled, bg, merge,
                   garbage, disk, unread, lost, faults, crashes>>

RoomFound ==
    /\ lead.phase = "room" /\ ~bgError /\ HasRoom
    /\ IF Head(queue) \in NullWriters
       THEN Return(1, "ok")
       ELSE /\ lead' = [phase |-> "log", force |-> FALSE, group |-> Group]
            /\ UNCHANGED <<queue, pc, result>>
    /\ UNCHANGED <<up, mem, imm, version, pinned, bgError, scheduled, bg, merge,
                   garbage, disk, unread, lost, faults, crashes>>

\* The memtable is put aside and a new log begun.  A log that cannot be created
\* gives its number back and fails the write.
Switches == /\ lead.phase = "room" /\ ~bgError /\ ~HasRoom
            /\ imm = NoTable /\ Cardinality(version.tables) < L0Stop
SwitchMemTable ==
    /\ Switches
    /\ logs' = With(logs, version.next, NewLog)
    /\ version' = [version EXCEPT !.logfile = version.next, !.next = @ + 1]
    /\ imm' = mem /\ mem' = {}
    /\ lead' = [lead EXCEPT !.force = FALSE]
    /\ scheduled' = Schedules(bgError, imm', version)
    /\ UNCHANGED <<up, queue, pc, result, pinned, bgError, bg, merge, garbage,
                   tables, manifests, current, behind, unread, lost, faults,
                   crashes>>
SwitchFails ==
    /\ Switches /\ Faulty("newlog")
    /\ Return(1, "error")
    /\ UNCHANGED <<up, mem, imm, version, pinned, bgError, scheduled, bg, merge,
                   garbage, disk, unread, lost, crashes>>

\* The record of the group: each batch with its number.  Behind a torn record it
\* is written, and acknowledged, but no reader will find it.
GroupCount == BatchCount(lead.group, Len(lead.group))
Numbered == {<<lead.group[i], version.last + BatchCount(lead.group, i)>> :
                i \in WithBatch(lead.group, Len(lead.group))}
Synced == Head(queue) \in SyncWriters
AddRecord ==
    /\ lead.phase = "log"
    /\ LET log == logs[version.logfile]
       IN  IF log.torn
           THEN logs' = logs /\ unread' = unread \cup Numbered
           ELSE /\ logs' = [logs EXCEPT ![version.logfile].recs = Append(@, Numbered)]
                /\ unread' = unread
    /\ lead' = [lead EXCEPT !.phase = IF Synced THEN "sync" ELSE "insert"]
    /\ UNCHANGED <<up, queue, pc, result, mem, imm, version, pinned, bgError,
                   scheduled, bg, merge, garbage, tables, manifests, current,
                   behind, lost, faults, crashes>>

\* AddRecord fails: the writer of the log goes on as if the record were there, and
\* so may be out of step with the file.  bg_error_ is not set, last_sequence_ is.
AddRecordFails ==
    /\ lead.phase = "log" /\ Faulty("append")
    /\ \E torn \in BOOLEAN :
          logs' = [logs EXCEPT ![version.logfile].torn = @ \/ torn]
    /\ Return(Len(lead.group), "error")
    /\ version' = [version EXCEPT !.last = @ + GroupCount]
    /\ UNCHANGED <<up, mem, imm, pinned, bgError, scheduled, bg, merge, garbage,
                   tables, manifests, current, behind, unread, lost, crashes>>

SyncLog ==
    /\ lead.phase = "sync"
    /\ logs' = [logs EXCEPT ![version.logfile].synced =
                                Len(logs[version.logfile].recs)]
    /\ lead' = [lead EXCEPT !.phase = "insert"]
    /\ UNCHANGED <<up, queue, pc, result, mem, imm, version, pinned, bgError,
                   scheduled, bg, merge, garbage, tables, manifests, current,
                   behind, unread, lost, faults, crashes>>

\* "the log record we just added may or may not show up when the DB is re-opened"
SyncLogFails ==
    /\ lead.phase = "sync" /\ Faulty("sync")
    /\ bgError' = TRUE
    /\ Return(Len(lead.group), "error")
    /\ version' = [version EXCEPT !.last = @ + GroupCount]
    /\ UNCHANGED <<up, mem, imm, pinned, scheduled, bg, merge, garbage, disk,
                   unread, lost, crashes>>

\* InsertInto and SetLastSequence: from here on reads see the group
InsertInto ==
    /\ lead.phase = "insert"
    /\ mem' = mem \cup Numbered
    /\ version' = [version EXCEPT !.last = @ + GroupCount]
    /\ Return(Len(lead.group), "ok")
    /\ UNCHANGED <<up, imm, pinned, bgError, scheduled, bg, merge, garbage, disk,
                   unread, lost, faults, crashes>>

-----------------------------------------------------------------------------
(* Obsolete files, iterators.                                                  *)

\* Mutant of Obsolete: the tables of iterators are removed too.
ObsoleteNotPinned(v, pending) ==
    {<<"log", l>> : l \in {l \in DOMAIN logs : l < v.log}}
    \cup {<<"manifest", m>> : m \in {m \in DOMAIN manifests : m < v.manifest}}
    \cup {<<"table", t>> : t \in DOMAIN tables \ (v.tables \cup pending)}

\* RemoveObsoleteFiles: what is on the disk and neither live nor being written
Obsolete(v, pending) ==
    {<<"log", l>> : l \in {l \in DOMAIN logs : l < v.log}}
    \cup {<<"manifest", m>> : m \in {m \in DOMAIN manifests : m < v.manifest}}
    \cup {<<"table", t>> : t \in DOMAIN tables \ (v.tables \cup pinned \cup pending)}

\* The files are removed one by one with the mutex released
RemoveFile(x) ==
    /\ logs' = IF x[1] = "log" THEN Without(logs, x[2]) ELSE logs
    /\ manifests' = IF x[1] = "manifest" THEN Without(manifests, x[2]) ELSE manifests
    /\ tables' = IF x[1] = "table" THEN Without(tables, x[2]) ELSE tables
    /\ garbage' = garbage \ {x}

\* NewInternalIterator holds the current version until it is deleted
Pin ==
    /\ up = "up" /\ pinned = {} /\ version.tables # {}
    /\ pinned' = version.tables
    /\ UNCHANGED <<up, queue, pc, result, lead, mem, imm, version, bgError,
                   scheduled, bg, merge, garbage, disk, unread, lost, faults,
                   crashes>>
Unpin ==
    /\ pinned # {} /\ pinned' = {}
    /\ UNCHANGED <<up, queue, pc, result, lead, mem, imm, version, bgError,
                   scheduled, bg, merge, garbage, disk, unread, lost, faults,
                   crashes>>

-----------------------------------------------------------------------------
(* The background thread: BackgroundCall and BackgroundCompaction.             *)

Busy(phase) == bg.phase = phase

\* The end of BackgroundCall, here also when there is nothing (more) to do
BackgroundDone ==
    /\ bg' = NoWork
    /\ scheduled' = (up = "up" /\ ~bgError' /\
                     (imm' # NoTable \/ NeedsMerge(version')))

\* Back in the merge that a flush has interrupted, or done
GoOn == IF merge' # NoMerge
        THEN bg' = [NoWork EXCEPT !.phase = "merge"] /\ scheduled' = scheduled
        ELSE BackgroundDone

Begins == scheduled /\ Busy("idle") /\ up \in {"up", "closing"}
BeginNothing ==
    /\ Begins
    /\ up = "closing" \/ bgError \/ (imm = NoTable /\ ~NeedsMerge(version))
    /\ UNCHANGED <<up, queue, pc, result, lead, mem, imm, version, pinned, bgError,
                   merge, garbage, disk, unread, lost, faults, crashes>>
    /\ BackgroundDone
BeginFlush ==
    /\ Begins /\ up = "up" /\ ~bgError /\ imm # NoTable
    /\ bg' = [NoWork EXCEPT !.phase = "flush"]
    /\ UNCHANGED <<up, queue, pc, result, lead, mem, imm, version, pinned, bgError,
                   scheduled, merge, garbage, disk, unread, lost, faults, crashes>>

\* DoCompactionWork: of all tables one.  The output is pending until it is installed.
BeginMerge ==
    /\ Begins /\ up = "up" /\ ~bgError /\ imm = NoTable /\ NeedsMerge(version)
    /\ bg' = [NoWork EXCEPT !.phase = "merge"]
    /\ merge' = [num |-> version.next, inputs |-> version.tables]
    /\ tables' = With(tables, version.next, Contents(version.tables))
    /\ version' = [version EXCEPT !.next = @ + 1]
    /\ UNCHANGED <<up, queue, pc, result, lead, mem, imm, pinned, bgError,
                   scheduled, garbage, logs, manifests, current, behind, unread,
                   lost, faults, crashes>>

\* CompactMemTable and WriteLevel0Table, on its own or between two keys of a merge.
\* The table is synced when BuildTable returns; there is none of an empty memtable.
Flushing == imm # NoTable /\ (Busy("flush") \/ Busy("merge"))
Flush ==
    /\ Flushing /\ up = "up"
    /\ tables' = IF imm = {} THEN tables ELSE With(tables, version.next, imm)
    /\ version' = [version EXCEPT !.next = @ + 1]
    /\ bg' = [phase |-> "write", of |-> "flush",
              edit |-> [NoEdit EXCEPT !.add = IF imm = {} THEN {} ELSE {version.next},
                                      !.log = version.logfile]]
    /\ UNCHANGED <<up, queue, pc, result, lead, mem, imm, pinned, bgError,
                   scheduled, merge, garbage, logs, manifests, current, behind,
                   unread, lost, faults, crashes>>

\* The table cannot be built, and is removed, or it is built and the store is closing
FlushFails ==
    /\ Flushing
    /\ \/ /\ up = "closing" /\ faults' = faults
          /\ tables' = IF imm = {} THEN tables ELSE With(tables, version.next, imm)
       \/ Faulty("table") /\ tables' = tables
    /\ bgError' = TRUE
    /\ UNCHANGED <<up, queue, pc, result, lead, mem, imm, version, pinned, merge,
                   garbage, logs, manifests, current, behind, unread, lost,
                   crashes>>
    /\ GoOn

\* The end of DoCompactionWork, and InstallCompactionResults
MergeDone ==
    /\ Busy("merge") /\ up = "up"
    /\ bg' = [phase |-> "write", of |-> "merge",
              edit |-> [NoEdit EXCEPT !.add = {merge.num}, !.del = merge.inputs,
                                      !.log = version.log]]
    /\ UNCHANGED <<up, queue, pc, result, lead, mem, imm, version, pinned, bgError,
                   scheduled, merge, garbage, disk, unread, lost, faults, crashes>>
MergeFails ==
    /\ Busy("merge")
    /\ \/ up = "closing" /\ faults' = faults
       \/ Faulty("table")
    /\ bgError' = TRUE
    /\ merge' = NoMerge
    /\ UNCHANGED <<up, queue, pc, result, lead, mem, imm, version, pinned, garbage,
                   disk, unread, lost, crashes>>
    /\ BackgroundDone

\* LogAndApply: the edit is written to the manifest, ...  No reader gets to a record
\* that stands behind a part of another: it takes the two for one that is damaged, or
\* for one that is cut off, which is an end as any other.
Complete(edit) == [edit EXCEPT !.next = version.next, !.last = version.last]
WriteEdit ==
    /\ Busy("write")
    /\ IF behind = "nothing"
       THEN /\ manifests' = [manifests EXCEPT ![version.manifest].edits =
                                                 Append(@, Complete(bg.edit))]
            /\ UNCHANGED behind
       ELSE behind' = "record" /\ UNCHANGED manifests
    /\ bg' = [bg EXCEPT !.phase = "sync", !.edit = Complete(bg.edit)]
    /\ UNCHANGED <<up, queue, pc, result, lead, mem, imm, version, pinned, bgError,
                   scheduled, merge, garbage, logs, tables, current, unread, lost,
                   faults, crashes>>

\* ... synced, and its version installed; then the files it made obsolete are known
Install ==
    /\ Busy("sync")
    /\ manifests' = [manifests EXCEPT ![version.manifest].synced =
                                          Len(manifests[version.manifest].edits)]
    /\ behind' = IF behind = "nothing" THEN behind ELSE "synced"
    /\ version' = [version EXCEPT !.tables = Applied(@, bg.edit), !.log = bg.edit.log]
    /\ imm' = IF bg.of = "flush" THEN NoTable ELSE imm
    /\ merge' = IF bg.of = "merge" THEN NoMerge ELSE merge
    /\ garbage' = IF bgError THEN {} ELSE Obsolete(version', {merge'.num})
    /\ bg' = [NoWork EXCEPT !.phase = "clean"]
    /\ UNCHANGED <<up, queue, pc, result, lead, mem, pinned, bgError, scheduled,
                   logs, tables, current, unread, lost, faults, crashes>>

\* ... or not: nobody knows whether the manifest has it, all of it or a part, and
\* nothing is removed any more.  The merge that a flush has interrupted goes on.
PartOfRecord == IF behind = "nothing" THEN {"nothing", "part"}
                ELSE IF behind = "part" THEN {"part", "record"} ELSE {behind}
EditFails ==
    /\ Busy("write") \/ Busy("sync")
    /\ Faulty("manifest")
    /\ behind' \in IF Busy("write") THEN PartOfRecord ELSE {behind}
    /\ bgError' = TRUE
    /\ merge' = IF bg.of = "merge" THEN NoMerge ELSE merge
    /\ UNCHANGED <<up, queue, pc, result, lead, mem, imm, version, pinned, garbage,
                   logs, tables, manifests, current, unread, lost, crashes>>
    /\ GoOn

Clean ==
    /\ Busy("clean")
    /\ UNCHANGED <<up, queue, pc, result, lead, mem, imm, version, pinned, bgError,
                   merge, current, behind, unread, lost, faults, crashes>>
    /\ IF garbage # {}
       THEN (\E x \in garbage : RemoveFile(x)) /\ UNCHANGED <<bg, scheduled>>
       ELSE GoOn /\ UNCHANGED <<logs, manifests, tables, garbage>>

-----------------------------------------------------------------------------
(* Crash, close and open.                                                      *)

\* What a reader sees: of the open store what the process has, else what an open
\* of the files would find
Visible == IF up \in {"up", "closing"}
           THEN mem \cup (imm \ NoTable) \cup Contents(version.tables)
           ELSE Recoverable

WritersOf(S) == {b[1] : b \in S}
Acknowledged == {w \in Writers \ NullWriters : result[w] = "ok"} \ WritersOf(unread)

\* The process is gone; calls under way never return
Gone ==
    /\ up' = "down"
    /\ queue' = <<>> /\ lead' = NoLead
    /\ pc' = [w \in Writers |-> IF pc[w] = "queued" THEN "gone" ELSE pc[w]]
    /\ mem' = {} /\ imm' = NoTable
    /\ version' = NoVersion /\ pinned' = {}
    /\ bgError' = FALSE /\ scheduled' = FALSE
    /\ bg' = NoWork /\ merge' = NoMerge /\ garbage' = {}
    /\ UNCHANGED result

Crash ==
    /\ up # "down" /\ crashes < MaxCrashes /\ crashes' = crashes + 1
    /\ Gone
    /\ UNCHANGED <<disk, unread, lost, faults>>

\* Of every file a prefix is left that has at least what was synced
Cuts(f, items) == {n \in 0 .. Len(items) : n >= f.synced}
MachineCrash ==
    /\ up # "down" /\ crashes < MaxCrashes /\ crashes' = crashes + 1
    /\ Gone
    /\ \E cut \in [DOMAIN logs -> UNION {Cuts(logs[l], logs[l].recs) : l \in DOMAIN logs}] :
          /\ \A l \in DOMAIN logs : cut[l] \in Cuts(logs[l], logs[l].recs)
          /\ logs' = [l \in DOMAIN logs |->
                 [logs[l] EXCEPT !.recs = SubSeq(@, 1, cut[l]), !.synced = cut[l]]]
    /\ behind' \in IF behind = "synced" THEN {behind} ELSE {"nothing", behind}
    /\ \E cut \in [DOMAIN manifests ->
                      UNION {Cuts(manifests[m], manifests[m].edits) : m \in DOMAIN manifests}] :
          /\ \A m \in DOMAIN manifests : cut[m] \in Cuts(manifests[m], manifests[m].edits)
          /\ manifests' = [m \in DOMAIN manifests |->
                 [edits |-> SubSeq(manifests[m].edits, 1, cut[m]), synced |-> cut[m]]]
          /\ behind' # "nothing" => cut[current] = Len(manifests[current].edits)
    /\ UNCHANGED <<tables, current, unread, faults>>
    /\ lost' = lost \cup (Acknowledged \ WritersOf(Visible'))

\* ~DBImpl: no more background work is begun, and what runs is waited for
Close ==
    /\ up = "up" /\ crashes < MaxCrashes /\ crashes' = crashes + 1
    /\ queue = <<>> /\ pinned = {}
    /\ up' = "closing"
    /\ UNCHANGED <<queue, pc, result, lead, mem, imm, version, pinned, bgError,
                   scheduled, bg, merge, garbage, disk, unread, lost, faults>>
Closed ==
    /\ up = "closing" /\ ~scheduled
    /\ Gone
    /\ UNCHANGED <<disk, unread, lost, faults, crashes>>

\* NewDB: a manifest that is not synced, and CURRENT, if there is none
NewDB ==
    /\ up = "down" /\ current = 0
    /\ manifests' = With(manifests, 1,
           [edits |-> <<[NoEdit EXCEPT !.next = 2]>>, synced |-> 0])
    /\ current' = 1
    /\ UNCHANGED <<process, logs, tables, behind, unread, lost, faults, crashes>>

\* VersionSet::Recover, and the test that every table is there.  A record behind a part
\* of another is a corruption, or it is not seen.
MissingTables(T) == T \ DOMAIN tables
Broken == behind \in {"record", "synced"}
RecoverManifest ==
    /\ up = "down" /\ current # 0
    /\ LET edits == manifests[current].edits
           T == TablesOf(edits)
       IN  \/ /\ edits = <<>> \/ MissingTables(T) # {} \/ Broken
              /\ up' = "corrupt" /\ UNCHANGED version
           \/ /\ edits # <<>> /\ MissingTables(T) = {}
              /\ up' = "logs"
              /\ version' = [tables |-> T, log |-> Last(edits).log, logfile |-> 0,
                             manifest |-> Last(edits).next,
                             next |-> Max({Last(edits).next, Last(edits).log}) + 1,
                             last |-> Last(edits).last]
    /\ UNCHANGED <<queue, pc, result, lead, mem, imm, pinned, bgError, scheduled,
                   bg, merge, garbage, disk, unread, lost, faults, crashes>>

\* DBImpl::Recover and RecoverLogFile: every log that has something becomes a table,
\* in the order of the logs; their numbers and those of their batches are taken
LogsWithData == {l \in LogsFrom(version.log) : InLog(l) # {}}

\* Mutant of RecoveredLast: the number of the manifest is kept.
ManifestLast == version.last

RecoveredLast ==
    Max({version.last} \cup {b[2] : b \in UNION {InLog(l) : l \in LogsWithData}})
RecoveredTable(l) == version.next + Cardinality({k \in LogsWithData : k < l})
RecoveredTables == {RecoveredTable(l) : l \in LogsWithData}
LogOf(t) == CHOOSE l \in LogsWithData : RecoveredTable(l) = t
RecoverLogs ==
    /\ up = "logs"
    /\ tables' = [t \in DOMAIN tables \cup RecoveredTables |->
                     IF t \in RecoveredTables THEN InLog(LogOf(t)) ELSE tables[t]]
    /\ bg' = [phase |-> "open", of |-> "open",
              edit |-> [NoEdit EXCEPT !.add = RecoveredTables]]
    /\ version' = [version EXCEPT
          !.next = Max({version.next + Cardinality(RecoveredTables)}
                       \cup {l + 1 : l \in LogsFrom(version.log)}),
          !.last = RecoveredLast]
    /\ up' = "newlog"
    /\ UNCHANGED <<queue, pc, result, lead, mem, imm, pinned, bgError, scheduled,
                   merge, garbage, logs, manifests, current, behind, unread,
                   lost, faults, crashes>>

\* DB::Open: a new log, ...
OpenLog ==
    /\ up = "newlog"
    /\ logs' = With(logs, version.next, NewLog)
    /\ version' = [version EXCEPT !.logfile = version.next, !.next = @ + 1]
    /\ up' = "manifest"
    /\ UNCHANGED <<queue, pc, result, lead, mem, imm, pinned, bgError, scheduled,
                   bg, merge, garbage, tables, manifests, current, behind,
                   unread, lost, faults, crashes>>

\* ... a new manifest with all tables, and the edit of the recovery, synced, ...
OpenManifest ==
    /\ up = "manifest"
    /\ LET snapshot == [NoEdit EXCEPT !.add = version.tables]
           edit == [Complete(bg.edit) EXCEPT !.log = version.logfile]
       IN  manifests' = With(manifests, version.manifest,
                             [edits |-> <<snapshot, edit>>, synced |-> 2])
    /\ up' = "current"
    /\ UNCHANGED <<queue, pc, result, lead, mem, imm, version, pinned, bgError,
                   scheduled, bg, merge, garbage, logs, tables, current, behind,
                   unread, lost, faults, crashes>>

\* ... and SetCurrentFile, by a rename; then the files that are not needed are known
OpenCurrent ==
    /\ up = "current"
    /\ current' = version.manifest /\ behind' = "nothing"
    /\ version' = [version EXCEPT !.tables = Applied(@, bg.edit), !.log = version.logfile]
    /\ garbage' = Obsolete(version', {})
    /\ bg' = NoWork
    /\ up' = "clean"
    /\ UNCHANGED <<queue, pc, result, lead, mem, imm, pinned, bgError, scheduled,
                   merge, logs, tables, manifests, unread, lost, faults, crashes>>

OpenDone ==
    /\ up = "clean"
    /\ IF garbage # {}
       THEN (\E x \in garbage : RemoveFile(x)) /\ UNCHANGED <<up, scheduled>>
       ELSE /\ up' = "up" /\ scheduled' = NeedsMerge(version)
            /\ UNCHANGED <<logs, manifests, tables, garbage>>
    /\ UNCHANGED <<queue, pc, result, lead, mem, imm, version, pinned, bgError, bg,
                   merge, current, behind, unread, lost, faults, crashes>>

-----------------------------------------------------------------------------

StoreInit ==
    /\ up = "down"
    /\ queue = <<>> /\ lead = NoLead
    /\ pc = [w \in Writers |-> "idle"] /\ result = [w \in Writers |-> "none"]
    /\ mem = {} /\ imm = NoTable
    /\ version = NoVersion /\ pinned = {}
    /\ bgError = FALSE /\ scheduled = FALSE
    /\ bg = NoWork /\ merge = NoMerge /\ garbage = {}
    /\ logs = <<>> /\ tables = <<>> /\ manifests = <<>> /\ current = 0
    /\ behind = "nothing"
    /\ unread = {} /\ lost = {}
    /\ faults = 0 /\ crashes = 0

WriteStep ==
    \/ AtFront \/ RoomError \/ RoomFound \/ SwitchMemTable \/ SwitchFails
    \/ AddRecord \/ AddRecordFails \/ SyncLog \/ SyncLogFails \/ InsertInto
BackgroundStep ==
    \/ BeginNothing \/ BeginFlush \/ BeginMerge \/ Flush \/ FlushFails \/ MergeDone \/ MergeFails
    \/ WriteEdit \/ Install \/ EditFails \/ Clean
OpenStep ==
    \/ NewDB \/ RecoverManifest \/ RecoverLogs \/ OpenLog \/ OpenManifest
    \/ OpenCurrent \/ OpenDone

StoreNext ==
    \/ \E w \in Writers : Enqueue(w)
    \/ WriteStep \/ BackgroundStep \/ OpenStep
    \/ Pin \/ Unpin
    \/ Crash \/ MachineCrash \/ Close \/ Closed

StoreSpec == StoreInit /\ [][StoreNext]_storeVars

-----------------------------------------------------------------------------
(* Properties.                                                                 *)

Batch == Writers \X (Nat \ {0})
StoreTypeOK ==
    /\ up \in {"down", "corrupt", "logs", "newlog", "manifest", "current", "clean",
               "up", "closing"}
    /\ queue \in Seq(Writers)
    /\ pc \in [Writers -> {"idle", "queued", "done", "gone"}]
    /\ result \in [Writers -> {"none", "ok", "error"}]
    /\ lead.phase \in {"none", "room", "log", "sync", "insert"}
    /\ mem \subseteq Batch /\ (imm = NoTable \/ imm \subseteq Batch)
    /\ bg.phase \in {"idle", "flush", "merge", "write", "sync", "clean", "open"}
    /\ \A l \in DOMAIN logs : logs[l].synced \in 0 .. Len(logs[l].recs)
    /\ \A t \in DOMAIN tables : tables[t] \subseteq Batch
    /\ \A m \in DOMAIN manifests : manifests[m].synced \in 0 .. Len(manifests[m].edits)
    /\ current \in {0} \cup DOMAIN manifests
    /\ behind \in {"nothing", "part", "record", "synced"}

Condition == IF up \in {"up", "closing"} THEN "open"
             ELSE IF up = "corrupt" THEN "refused" ELSE "closed"

\* The store is a DurableStore: acknowledged batches outlive the process and synced
\* ones the machine, through every step of the memtables, the logs, the tables, the
\* manifest and the recovery, except behind a torn record.  Only a crash of the machine
\* takes one, and only a manifest with a record behind a part of another is refused.
Promise == INSTANCE DurableStore WITH
    Batches <- Writers, SyncBatches <- SyncWriters,
    state <- Condition,
    asked <- {w \in Writers : pc[w] # "idle"},
    visible <- WritersOf(Visible),
    kept <- Acknowledged,
    lost <- lost,
    torn <- up = "up" /\ logs[version.logfile].torn,
    broken <- Broken
StoreKeepsPromise == Promise!Spec

\* Whatever a crash leaves of the manifest, the next open finds all tables it names,
\* and no file is missing that the version, an iterator or a merge needs.  Only the
\* first manifest, which NewDB does not sync, may be lost.
Openable(edits, n) == IF n = 0 THEN current = 1
                      ELSE TablesOf(SubSeq(edits, 1, n)) \subseteq DOMAIN tables
NoFileMissing ==
    /\ current # 0 =>
          LET m == manifests[current]
          IN  \A n \in m.synced .. Len(m.edits) : Openable(m.edits, n)
    /\ up = "up" => version.tables \cup pinned \cup ({merge.num} \ {0}) \subseteq DOMAIN tables

\* db_impl.cc: the files of a running store are what its state says they are.
StoreInv == StoreTypeOK /\ NoFileMissing

\* No sequence number is used twice, over crashes and failures, and the counter is
\* never behind what is stored.
SequenceFresh ==
    LET S == Visible \cup Recoverable
    IN  /\ \A b, c \in S : b[2] = c[2] => b = c
        /\ up = "up" /\ lead.phase \notin {"sync", "insert"} =>
               \A b \in S : b[2] <= version.last

\* Every writer gets its answer, as long as the process lives: the front of the queue
\* moves on, a wait for the memtable or for level 0 ends.
WritersReturn == \A w \in Writers : pc[w] = "queued" ~> pc[w] # "queued"
=============================================================================
