-------------------------- MODULE LevelStoreProofs --------------------------
(* Proofs about LevelStore: the files that a crash leaves, the sequence        *)
(* numbers, and what the store promises.                                       *)
EXTENDS LevelStore, FiniteSetTheorems, SequenceTheorems, WellFoundedInduction, TLAPS

-----------------------------------------------------------------------------
(* The inductive invariant.                                                    *)

Opening == up \in {"logs", "newlog", "manifest", "current"}
Running == up \in {"clean", "up", "closing"}

\* The types of the parts of the state.
Edits == [add : SUBSET Nat, del : SUBSET Nat, log : Nat, next : Nat, last : Nat]
LogFiles == [recs : Seq(SUBSET Batch), synced : Nat, torn : BOOLEAN]
Manifests == [edits : Seq(Edits), synced : Nat]

WriterTypes ==
    /\ queue \in Seq(Writers)
    /\ pc \in [Writers -> {"idle", "queued", "done", "gone"}]
    /\ result \in [Writers -> {"none", "ok", "error"}]
    /\ lead \in [phase : {"none", "room", "log", "sync", "insert"}, force : BOOLEAN,
                 group : Seq(Writers)]
    /\ Len(lead.group) <= Len(queue) /\ (lead.phase # "none" => queue # <<>>)
VersionType ==
    version \in [tables : SUBSET Nat, log : Nat, logfile : Nat, manifest : Nat,
                 next : Nat, last : Nat]
ProcessTypes ==
    /\ up \in {"down", "corrupt", "logs", "newlog", "manifest", "current", "clean",
               "up", "closing"}
    /\ mem \in SUBSET Batch /\ (imm = NoTable \/ imm \in SUBSET Batch)
    /\ pinned \in SUBSET Nat /\ bgError \in BOOLEAN
    /\ bg \in [phase : {"idle", "flush", "merge", "write", "sync", "clean", "open"},
               of : {"none", "flush", "merge", "open"}, edit : Edits]
    /\ merge \in [num : Nat, inputs : SUBSET Nat]
    /\ garbage \in SUBSET ({"log", "manifest", "table"} \X Nat)
LogTypes ==
    /\ DOMAIN logs \subseteq Nat /\ logs \in [DOMAIN logs -> LogFiles]
    /\ \A l \in DOMAIN logs : logs[l].synced <= Len(logs[l].recs)
TableTypes == DOMAIN tables \subseteq Nat /\ tables \in [DOMAIN tables -> SUBSET Batch]
ManifestTypes ==
    /\ DOMAIN manifests \subseteq Nat /\ manifests \in [DOMAIN manifests -> Manifests]
    /\ \A m \in DOMAIN manifests : manifests[m].synced <= Len(manifests[m].edits)
    /\ current \in {0} \cup DOMAIN manifests

\* Some number is as great as every log and every sequence number in a log.
LogsBounded ==
    \E limit \in Nat : \A l \in DOMAIN logs :
        l <= limit /\ \A b \in InLog(l) : b[2] <= limit

Types == /\ WriterTypes /\ VersionType /\ ProcessTypes
         /\ LogTypes /\ TableTypes /\ ManifestTypes /\ LogsBounded

\* Of the manifest CURRENT names a crash of the machine may leave these lengths, and
\* after it these tables are needed.
Current == manifests[current].edits
Lengths == IF current = 0 THEN {}
           ELSE manifests[current].synced .. Len(Current)
Prefix(n) == SubSeq(Current, 1, n)
ManifestTables == UNION {TablesOf(Prefix(n)) : n \in Lengths}
\* The process needs those of its version, of its iterators, of the merge and of the edit
\* that is about to be written.
ProcessTables == version.tables \cup pinned \cup ({merge.num} \ {0}) \cup bg.edit.add
Needed == ManifestTables \cup ProcessTables

\* What holds in each phase of the process.
Behinds == {"nothing", "part", "record", "synced"}
PhasesInv ==
    /\ up \in {"down", "corrupt"} => version = NoVersion /\ bg = NoWork
    /\ up \in {"logs", "clean"} => bg = NoWork
    /\ up \in {"newlog", "manifest", "current"} => bg.phase = "open" /\ bg.edit.del = {}
    /\ Running => bg.phase # "open" /\ current # 0 /\ current = version.manifest
    /\ bg.phase \notin {"write", "sync", "open"} => bg.edit = NoEdit
    /\ ~Running => garbage = {}
    /\ up \notin {"up", "closing"} =>
          /\ queue = <<>> /\ lead = NoLead /\ mem = {} /\ imm = NoTable
          /\ pinned = {} /\ bgError = FALSE /\ merge = NoMerge
    /\ garbage # {} => up = "clean" \/ bg.phase = "clean"
    /\ merge = NoMerge \/ merge.num > 0
    /\ bg.phase = "merge" => merge # NoMerge
    /\ behind \in Behinds /\ (Running /\ behind # "nothing" => bgError)

\* No file that is needed is missing or will be removed.
FilesInv ==
    /\ Needed \subseteq DOMAIN tables
    /\ \A t \in Needed : <<"table", t>> \notin garbage
    /\ <<"manifest", current>> \notin garbage
    /\ current \notin {0, 1} => manifests[current].synced > 0
    /\ Opening => current # 0

\* The manifest and the version agree as long as no edit has failed.
Opened(edits) ==
    /\ Len(edits) = 2 /\ edits[1] = [NoEdit EXCEPT !.add = version.tables]
    /\ edits[2].add = bg.edit.add /\ edits[2].del = {}
AgreeInv ==
    /\ up = "current" =>
          /\ version.manifest \in DOMAIN manifests /\ version.manifest # 0
          /\ manifests[version.manifest].synced = 2
          /\ Opened(manifests[version.manifest].edits)
    /\ Running /\ ~bgError =>
          TablesOf(Current) = IF bg.phase = "sync" THEN Applied(version.tables, bg.edit)
                              ELSE version.tables

\* The counters are ahead of what they have numbered: in every edit that a recovery may
\* end with, in the process, and in the edit that a recovery is about to begin with.
EditNumbers ==
    \A n \in Lengths \ {0} :
        /\ Current[n].next > 1 /\ current < Current[n].next
        /\ \A t \in TablesOf(Prefix(n)) : t < Current[n].next
        /\ Current[n].next <= Last(Current).next /\ Current[n].last <= Last(Current).last
VersionNumbers ==
    Opening \/ Running =>
        /\ \A t \in Needed : t < version.next
        /\ Lengths \ {0} # {} /\ Last(Current).next <= version.next
        /\ Last(Current).last <= version.last
FileNumbers ==
    /\ version.next > 1 /\ version.manifest < version.next
    /\ Opening => version.manifest > 1 /\ version.manifest > current
    /\ up \in {"manifest", "current"} \/ Running => version.logfile < version.next
OpenedNumbers ==
    up = "current" =>
        LET edit == manifests[version.manifest].edits[2]
        IN  /\ edit.next > 1 /\ version.manifest < edit.next
            /\ edit.next <= version.next /\ edit.last = version.last
            /\ \A t \in version.tables \cup bg.edit.add : t < edit.next
            /\ edit.log = version.logfile
LogNumbers ==
    Running =>
        /\ version.log <= version.logfile /\ bg.edit.log <= version.logfile
        /\ \A n \in Lengths \ {0} : Current[n].log <= version.logfile
NumbersInv == EditNumbers /\ VersionNumbers /\ FileNumbers /\ OpenedNumbers /\ LogNumbers

StoreIInv == Types /\ PhasesInv /\ FilesInv /\ AgreeInv /\ NumbersInv

\* Every batch that is in memory, in a table that is needed or in a log, and those that
\* are being written, with numbers the counter does not yet count.
InMemory == mem \cup (imm \ NoTable)
InLogs == UNION {InLog(l) : l \in DOMAIN logs}
Stored == InMemory \cup Contents(Needed) \cup InLogs
Writing == IF lead.phase \in {"sync", "insert"} THEN Numbered ELSE {}

\* No two batches have one number, and no batch a number that will be given again: neither
\* by the process nor by a recovery that ends with an earlier edit.
NumbersUsedOnce == \A b, c \in Stored : b[2] = c[2] => b = c
EditSequences ==
    \A n \in Lengths \ {0} :
        /\ \A t \in TablesOf(Prefix(n)) : \A b \in tables[t] : b[2] <= Current[n].last
        /\ \A l \in DOMAIN logs :
              l < Current[n].log => \A b \in InLog(l) : b[2] <= Current[n].last
OpenedSequences ==
    up = "logs" => /\ version.tables = TablesOf(Current)
                   /\ version.last = Last(Current).last /\ version.log = Last(Current).log
Counting == up \in {"newlog", "manifest", "current"} \/ Running
VersionSequences ==
    Counting =>
        /\ \A b \in Stored : b[2] <= version.last \/ b \in Writing
        /\ \A b \in InMemory \cup Contents(Needed) : b[2] <= version.last
        /\ \A l \in DOMAIN logs \ {version.logfile} :
              \A b \in InLog(l) : b[2] <= version.last
SequenceInv == NumbersUsedOnce /\ EditSequences /\ OpenedSequences /\ VersionSequences

-----------------------------------------------------------------------------
(* Lemmas about the operators of the model.                                    *)

LEMMA MaxOf ==
    ASSUME NEW S \in SUBSET Nat, S # {}, NEW limit \in Nat, \A h \in S : h <= limit
    PROVE  Max(S) \in S /\ \A h \in S : h <= Max(S)
<1> DEFINE T == {limit - h : h \in S}
<1>0. \A h \in S : h \in Nat /\ limit - h \in Nat
  OBVIOUS
<1>1. T \subseteq Nat /\ T # {}
  BY <1>0
<1>2. PICK t \in T : \A u \in T : ~ (<<u, t>> \in OpToRel(<, Nat))
  <2> HIDE DEF T
  <2> QED BY <1>1, NatLessThanWellFounded, WFMin
<1>3. \A u \in T : ~ (u < t)
  BY <1>1, <1>2 DEF OpToRel
<1>4. PICK h \in S : t = limit - h
  OBVIOUS
<1>5. ASSUME NEW g \in S PROVE h >= g
  <2>1. ~(limit - g < limit - h)
    BY <1>3, <1>4
  <2> QED BY <1>0, <2>1
<1>6. \E x \in S : \A y \in S : x >= y
  BY <1>5
<1>7. Max(S) \in S /\ \A y \in S : Max(S) >= y
  BY <1>6 DEF Max
<1> QED BY <1>0, <1>7

LEMMA WithType ==
    ASSUME NEW T, NEW f, f \in [DOMAIN f -> T], NEW x, NEW y \in T
    PROVE  /\ DOMAIN With(f, x, y) = DOMAIN f \cup {x}
           /\ With(f, x, y) \in [DOMAIN With(f, x, y) -> T]
           /\ With(f, x, y)[x] = y
           /\ \A z \in DOMAIN f : z # x => With(f, x, y)[z] = f[z]
BY DEF With

LEMMA WithoutType ==
    ASSUME NEW T, NEW f, f \in [DOMAIN f -> T], NEW x
    PROVE  /\ DOMAIN Without(f, x) = DOMAIN f \ {x}
           /\ Without(f, x) \in [DOMAIN Without(f, x) -> T]
           /\ \A z \in DOMAIN f \ {x} : Without(f, x)[z] = f[z]
BY DEF Without

\* The numbers in a group: one for each writer that brought a batch, in their order.
LEMMA CountsGrow ==
    ASSUME NEW q \in Seq(Writers), NEW n \in Nat
    PROVE  /\ IsFiniteSet(WithBatch(q, n)) /\ BatchCount(q, n) \in Nat
           /\ \A i \in WithBatch(q, n) :
                 /\ i \in Nat /\ BatchCount(q, i) \in Nat \ {0}
                 /\ BatchCount(q, i) <= BatchCount(q, n)
                 /\ \A j \in WithBatch(q, n) : i < j => BatchCount(q, i) < BatchCount(q, j)
<1>1. ASSUME NEW m \in Nat
      PROVE  IsFiniteSet(WithBatch(q, m)) /\ BatchCount(q, m) \in Nat
  <2>1. IsFiniteSet(1 .. m)
    BY FS_Interval
  <2>2. WithBatch(q, m) \subseteq 1 .. m
    BY DEF WithBatch
  <2>3. IsFiniteSet(WithBatch(q, m))
    BY <2>1, <2>2, FS_Subset
  <2> QED BY <2>3, FS_CardinalityType DEF BatchCount
<1>2. ASSUME NEW i \in WithBatch(q, n)
      PROVE  /\ i \in Nat /\ i <= n /\ i \in WithBatch(q, i)
             /\ WithBatch(q, i) \subseteq WithBatch(q, n)
             /\ BatchCount(q, i) # 0 /\ BatchCount(q, i) <= BatchCount(q, n)
  <2>1. /\ i \in Nat /\ i <= n /\ i \in WithBatch(q, i)
        /\ WithBatch(q, i) \subseteq WithBatch(q, n)
    BY DEF WithBatch
  <2>2. BatchCount(q, i) <= BatchCount(q, n)
    BY <1>1, <2>1, FS_Subset DEF BatchCount
  <2>3. BatchCount(q, i) # 0
    BY <1>1, <2>1, FS_EmptySet DEF BatchCount
  <2> QED BY <2>1, <2>2, <2>3
<1>3. ASSUME NEW i \in WithBatch(q, n), NEW j \in WithBatch(q, n), i < j
      PROVE  BatchCount(q, i) < BatchCount(q, j)
  <2>1. /\ i \in Nat /\ j \in Nat /\ j \in WithBatch(q, j)
    BY <1>2
  <2>2. WithBatch(q, i) \subseteq WithBatch(q, j) /\ j \notin WithBatch(q, i)
    BY <1>3, <2>1 DEF WithBatch
  <2>3. WithBatch(q, i) # WithBatch(q, j)
    BY <2>1, <2>2
  <2>4. /\ BatchCount(q, i) \in Nat /\ BatchCount(q, j) \in Nat
        /\ IsFiniteSet(WithBatch(q, j))
    BY <1>1, <2>1
  <2>5. BatchCount(q, i) <= BatchCount(q, j) /\ BatchCount(q, i) # BatchCount(q, j)
    BY <2>2, <2>3, <2>4, FS_Subset DEF BatchCount
  <2> QED BY <2>4, <2>5
<1> QED BY <1>1, <1>2, <1>3

LEMMA NumberedType ==
    ASSUME WriterTypes, VersionType
    PROVE  /\ Numbered \in SUBSET Batch /\ GroupCount \in Nat
           /\ \A b \in Numbered : b[2] \in Nat /\ version.last < b[2]
                                  /\ b[2] <= version.last + GroupCount
           /\ \A b, c \in Numbered : b[2] = c[2] => b = c
<1> DEFINE q == lead.group
           n == Len(q)
<1>1. q \in Seq(Writers) /\ n \in Nat /\ version.last \in Nat
  BY DEF WriterTypes, VersionType
<1>2. ASSUME NEW i \in WithBatch(q, n)
      PROVE  q[i] \in Writers /\ BatchCount(q, i) \in Nat \ {0}
             /\ BatchCount(q, i) <= GroupCount
  <2>1. i \in 1 .. n
    BY DEF WithBatch
  <2> QED BY <1>1, <2>1, CountsGrow DEF GroupCount
<1>3. GroupCount \in Nat
  BY <1>1, CountsGrow DEF GroupCount
<1>4. ASSUME NEW b \in Numbered
      PROVE  b \in Batch /\ b[2] \in Nat /\ version.last < b[2]
             /\ b[2] <= version.last + GroupCount
  <2>1. PICK i \in WithBatch(q, n) : b = <<q[i], version.last + BatchCount(q, i)>>
    BY DEF Numbered
  <2>2. version.last + BatchCount(q, i) \in Nat \ {0}
    BY <1>1, <1>2
  <2> QED BY <1>1, <1>2, <1>3, <2>1, <2>2 DEF Batch
<1>5. ASSUME NEW b \in Numbered, NEW c \in Numbered, b[2] = c[2] PROVE b = c
  <2>1. PICK i \in WithBatch(q, n) : b = <<q[i], version.last + BatchCount(q, i)>>
    BY DEF Numbered
  <2>2. PICK j \in WithBatch(q, n) : c = <<q[j], version.last + BatchCount(q, j)>>
    BY DEF Numbered
  <2>3. BatchCount(q, i) = BatchCount(q, j)
    BY <1>1, <1>2, <1>5, <2>1, <2>2
  <2>4. i \in Nat /\ j \in Nat
    BY DEF WithBatch
  <2>5. ~(i < j) /\ ~(j < i)
    <3>1. \A k, l \in WithBatch(q, n) : k < l => BatchCount(q, k) < BatchCount(q, l)
      BY <1>1, CountsGrow
    <3> QED BY <1>2, <2>3, <3>1
  <2> QED BY <2>1, <2>2, <2>3, <2>4, <2>5
<1> QED BY <1>3, <1>4, <1>5

-----------------------------------------------------------------------------
(* Types.                                                                      *)

LEMMA NoLeadType ==
    /\ NoLead \in [phase : {"none", "room", "log", "sync", "insert"}, force : BOOLEAN,
                   group : Seq(Writers)]
    /\ NoLead.phase = "none" /\ Len(NoLead.group) = 0
<1>1. <<>> \in Seq(Writers) /\ Len(<<>>) = 0
  BY EmptySeq
<1> QED BY <1>1 DEF NoLead

LEMMA ReturnType ==
    ASSUME WriterTypes, NEW last \in 0 .. Len(queue), NEW status \in {"ok", "error"},
           Return(last, status)
    PROVE  WriterTypes'
<1>1. queue \in Seq(Writers) /\ Len(queue) \in Nat
  BY DEF WriterTypes
<1>2. SubSeq(queue, last + 1, Len(queue)) \in Seq(Writers)
  BY <1>1
<1>3. queue' \in Seq(Writers) /\ Len(queue') \in Nat
  BY <1>2 DEF Return
<1>4. pc' \in [Writers -> {"idle", "queued", "done", "gone"}]
  BY DEF WriterTypes, Return
<1>5. result' \in [Writers -> {"none", "ok", "error"}]
  BY DEF WriterTypes, Return
<1>6. lead' = NoLead
  BY DEF Return
<1> QED BY <1>3, <1>4, <1>5, <1>6, NoLeadType DEF WriterTypes

LEMMA QueueFacts ==
    ASSUME WriterTypes
    PROVE  /\ Len(queue) \in Nat /\ 0 \in 0 .. Len(queue)
           /\ lead.phase # "none" => Len(queue) > 0 /\ 1 \in 0 .. Len(queue) /\ Head(queue) \in Writers
           /\ Len(lead.group) \in 0 .. Len(queue)
<1>1. /\ queue \in Seq(Writers) /\ lead.group \in Seq(Writers)
      /\ Len(lead.group) <= Len(queue) /\ (lead.phase # "none" => queue # <<>>)
  BY DEF WriterTypes
<1>2. Len(queue) \in Nat /\ Len(lead.group) \in Nat /\ (queue # <<>> => Len(queue) > 0)
  BY <1>1
<1>3. queue # <<>> => Head(queue) \in Writers
  BY <1>1
<1> QED BY <1>1, <1>2, <1>3

LEMMA GroupType ==
    ASSUME WriterTypes, lead.phase # "none"
    PROVE  Group \in Seq(Writers) /\ Len(Group) <= Len(queue) /\ Len(Group) > 0
<1> DEFINE S == Groups \cup {1}
<1>1. queue \in Seq(Writers) /\ Len(queue) \in Nat /\ Len(queue) > 0
  BY QueueFacts DEF WriterTypes
<1>2. S \in SUBSET Nat /\ S # {} /\ \A n \in S : n <= Len(queue) /\ n > 0
  BY <1>1 DEF Groups
<1>3. Max(S) \in S
  <2> HIDE DEF S
  <2> QED BY <1>1, <1>2, MaxOf
<1>4. Max(S) \in 1 .. Len(queue)
  BY <1>1, <1>2, <1>3
<1> HIDE DEF S
<1>5. Group = SubSeq(queue, 1, Max(S))
  BY DEF Group, S
<1> QED BY <1>1, <1>4, <1>5

LEMMA WriterTypesStep ==
    ASSUME WriterTypes, [StoreNext]_storeVars
    PROVE  WriterTypes'
<1> DEFINE W == <<queue, pc, result, lead>>
           Leads == [phase : {"none", "room", "log", "sync", "insert"}, force : BOOLEAN,
                     group : Seq(Writers)]
<1>0. ASSUME UNCHANGED W PROVE WriterTypes'
  BY <1>0 DEF WriterTypes
<1>1. ASSUME NEW w \in Writers, Enqueue(w) PROVE WriterTypes'
  <2>1. queue' = Append(queue, w) /\ pc' = [pc EXCEPT ![w] = "queued"] /\ UNCHANGED <<result, lead>>
    BY <1>1 DEF Enqueue
  <2>2. queue' \in Seq(Writers) /\ Len(queue') = Len(queue) + 1 /\ queue' # <<>>
    BY <2>1 DEF WriterTypes
  <2>3. Len(lead.group) <= Len(queue')
    BY <2>2, QueueFacts
  <2> QED BY <2>1, <2>2, <2>3 DEF WriterTypes
<1>2. ASSUME UNCHANGED <<queue, pc, result>>, lead' \in Leads, queue # <<>>,
             Len(lead'.group) <= Len(queue)
      PROVE  WriterTypes'
  BY <1>2 DEF WriterTypes
<1>3. ASSUME WriteStep PROVE WriterTypes'
  <2>0. lead.phase # "none" => queue # <<>>
    BY DEF WriterTypes
  <2>1. CASE AtFront
    <3> DEFINE force == Head(queue) \in NullWriters
    <3>1. /\ queue # <<>> /\ UNCHANGED <<queue, pc, result>>
          /\ lead' = [NoLead EXCEPT !.phase = "room", !.force = force]
      BY <2>1 DEF AtFront
    <3>2. force \in BOOLEAN
      OBVIOUS
    <3> HIDE DEF force
    <3>3. lead' \in Leads /\ lead'.group = NoLead.group
      BY <3>1, <3>2, NoLeadType
    <3> QED BY <1>2, <3>1, <3>3, NoLeadType, QueueFacts
  <2>2. CASE RoomError \/ SwitchFails
    <3>1. Return(1, "error") /\ lead.phase = "room"
      BY <2>2 DEF RoomError, SwitchFails, Switches
    <3> QED BY <3>1, ReturnType, QueueFacts
  <2>3. CASE RoomFound
    <3>1. CASE Head(queue) \in NullWriters
      <4>1. Return(1, "ok") /\ lead.phase = "room"
        BY <2>3, <3>1 DEF RoomFound
      <4> QED BY <4>1, ReturnType, QueueFacts
    <3>2. CASE Head(queue) \notin NullWriters
      <4>1. /\ lead.phase = "room" /\ UNCHANGED <<queue, pc, result>>
            /\ lead' = [phase |-> "log", force |-> FALSE, group |-> Group]
        BY <2>3, <3>2 DEF RoomFound
      <4> QED BY <1>2, <2>0, <4>1, GroupType
    <3> QED BY <3>1, <3>2
  <2>4. CASE SwitchMemTable
    <3>1. lead' = [lead EXCEPT !.force = FALSE] /\ UNCHANGED <<queue, pc, result>> /\ lead.phase = "room"
      BY <2>4 DEF SwitchMemTable, Switches
    <3>2. lead' \in Leads /\ lead'.group = lead.group
      BY <3>1 DEF WriterTypes
    <3> QED BY <1>2, <2>0, <3>1, <3>2, QueueFacts
  <2>5. CASE AddRecord \/ SyncLog
    <3>1. /\ UNCHANGED <<queue, pc, result>> /\ lead.phase \in {"log", "sync"}
          /\ \E p \in {"sync", "insert"} : lead' = [lead EXCEPT !.phase = p]
      BY <2>5 DEF AddRecord, SyncLog
    <3>2. lead' \in Leads /\ lead'.group = lead.group
      BY <3>1 DEF WriterTypes
    <3> QED BY <1>2, <2>0, <3>1, <3>2, QueueFacts
  <2>6. CASE AddRecordFails \/ SyncLogFails
    <3>1. Return(Len(lead.group), "error")
      BY <2>6 DEF AddRecordFails, SyncLogFails
    <3> QED BY <3>1, ReturnType, QueueFacts
  <2>7. CASE InsertInto
    <3>1. Return(Len(lead.group), "ok")
      BY <2>7 DEF InsertInto
    <3> QED BY <3>1, ReturnType, QueueFacts
  <2> QED BY <1>3, <2>1, <2>2, <2>3, <2>4, <2>5, <2>6, <2>7 DEF WriteStep
<1>4. ASSUME Gone PROVE WriterTypes'
  <2>1. /\ queue' = <<>> /\ lead' = NoLead /\ UNCHANGED result
        /\ pc' = [w \in Writers |-> IF pc[w] = "queued" THEN "gone" ELSE pc[w]]
    BY <1>4 DEF Gone
  <2>2. queue' \in Seq(Writers) /\ Len(queue') = 0
    BY <2>1, EmptySeq
  <2>3. pc' \in [Writers -> {"idle", "queued", "done", "gone"}]
    BY <2>1 DEF WriterTypes
  <2> QED BY <2>1, <2>2, <2>3, NoLeadType DEF WriterTypes
<1>5. ASSUME BackgroundStep PROVE UNCHANGED W
  BY <1>5 DEF BackgroundStep, BeginNothing, BeginFlush, BeginMerge, Flush, FlushFails, MergeDone,
              MergeFails, WriteEdit, Install, EditFails, Clean
<1>6. ASSUME OpenStep PROVE UNCHANGED W
  BY <1>6 DEF OpenStep, NewDB, RecoverManifest, RecoverLogs, OpenLog, OpenManifest, OpenCurrent,
              OpenDone, process
<1>7. ASSUME Pin \/ Unpin \/ Close PROVE UNCHANGED W
  BY <1>7 DEF Pin, Unpin, Close
<1>8. ASSUME Crash \/ MachineCrash \/ Closed PROVE Gone
  BY <1>8 DEF Crash, MachineCrash, Closed
<1>9. ASSUME UNCHANGED storeVars PROVE UNCHANGED W
  BY <1>9 DEF storeVars, process
<1> QED BY <1>0, <1>1, <1>3, <1>4, <1>5, <1>6, <1>7, <1>8, <1>9 DEF StoreNext

-----------------------------------------------------------------------------
(* The tables of a manifest.                                                   *)

LEMMA TablesAreNumbers ==
    ASSUME NEW E \in Seq(Edits)
    PROVE  TablesOf(E) \in SUBSET Nat
<1>1. ASSUME NEW i \in DOMAIN E PROVE E[i].add \in SUBSET Nat
  <2>1. E[i] \in Edits
    OBVIOUS
  <2> QED BY <2>1 DEF Edits
<1> QED BY <1>1 DEF TablesOf

LEMMA TablesAppend ==
    ASSUME NEW E \in Seq(Edits), NEW e \in Edits
    PROVE  TablesOf(Append(E, e)) = Applied(TablesOf(E), e)
<1> DEFINE n == Len(E)
           F == Append(E, e)
<1>1. /\ n \in Nat /\ F \in Seq(Edits) /\ Len(F) = n + 1 /\ F[n + 1] = e
      /\ \A i \in 1 .. n : F[i] = E[i]
  OBVIOUS
<1>2. DOMAIN E = 1 .. n /\ DOMAIN F = 1 .. n + 1
  BY <1>1
<1> HIDE DEF n, F
<1>3. ASSUME NEW t PROVE t \in TablesOf(F) <=> t \in Applied(TablesOf(E), e)
  <2>1. t \in TablesOf(F) <=>
          \E i \in 1 .. n + 1 : t \in F[i].add /\ \A j \in i + 1 .. n + 1 : t \notin F[j].del
    BY <1>1, <1>2 DEF TablesOf
  <2>2. t \in TablesOf(E) <=>
          \E i \in 1 .. n : t \in E[i].add /\ \A j \in i + 1 .. n : t \notin E[j].del
    BY <1>2 DEF TablesOf, n
  <2>3. ASSUME t \in e.add PROVE t \in TablesOf(F)
    <3>1. n + 1 \in 1 .. n + 1 /\ \A j \in n + 1 + 1 .. n + 1 : FALSE
      BY <1>1
    <3> QED BY <1>1, <2>1, <2>3, <3>1
  <2>4. ASSUME t \notin e.add
        PROVE  t \in TablesOf(F) <=> t \in TablesOf(E) /\ t \notin e.del
    <3>1. ASSUME t \in TablesOf(F) PROVE t \in TablesOf(E) /\ t \notin e.del
      <4>1. PICK i \in 1 .. n + 1 : t \in F[i].add /\ \A j \in i + 1 .. n + 1 : t \notin F[j].del
        BY <2>1, <3>1
      <4>2. i \in 1 .. n /\ n + 1 \in i + 1 .. n + 1
        BY <1>1, <2>4, <4>1
      <4>3. \A j \in i + 1 .. n : j \in i + 1 .. n + 1 /\ j \in 1 .. n
        BY <1>1, <4>2
      <4>4. t \in E[i].add /\ \A j \in i + 1 .. n : t \notin E[j].del
        BY <1>1, <4>1, <4>2, <4>3
      <4> QED BY <1>1, <2>2, <4>1, <4>2, <4>4
    <3>2. ASSUME t \in TablesOf(E), t \notin e.del PROVE t \in TablesOf(F)
      <4>1. PICK i \in 1 .. n : t \in E[i].add /\ \A j \in i + 1 .. n : t \notin E[j].del
        BY <2>2, <3>2
      <4>2. i \in 1 .. n + 1 /\ t \in F[i].add
        BY <1>1, <4>1
      <4>3. ASSUME NEW j \in i + 1 .. n + 1 PROVE t \notin F[j].del
        <5>1. CASE j = n + 1
          BY <1>1, <3>2, <5>1
        <5>2. CASE j # n + 1
          <6>1. j \in i + 1 .. n /\ j \in 1 .. n
            BY <1>1, <5>2
          <6> QED BY <1>1, <4>1, <6>1
        <5> QED BY <5>1, <5>2
      <4> QED BY <2>1, <4>2, <4>3
    <3> QED BY <3>1, <3>2
  <2> QED BY <2>3, <2>4 DEF Applied
<1> QED BY <1>3 DEF F

LEMMA TablesOfNothing == TablesOf(<<>>) = {}
BY DEF TablesOf

LEMMA TablesOfOne ==
    ASSUME NEW E \in Seq(Edits), Len(E) = 1
    PROVE  TablesOf(E) = E[1].add
<1>1. DOMAIN E = {1} /\ \A j \in 1 + 1 .. Len(E) : FALSE
  OBVIOUS
<1> QED BY <1>1 DEF TablesOf

LEMMA TablesOfTwo ==
    ASSUME NEW E \in Seq(Edits), Len(E) = 2, E[2].del = {}
    PROVE  TablesOf(E) = E[1].add \cup E[2].add
<1>1. /\ DOMAIN E = {1, 2} /\ \A j \in 2 + 1 .. Len(E) : FALSE
      /\ \A j \in 1 + 1 .. Len(E) : j = 2
  OBVIOUS
<1> QED BY <1>1 DEF TablesOf

LEMMA PrefixFacts ==
    ASSUME NEW E \in Seq(Edits), NEW n \in 0 .. Len(E)
    PROVE  /\ SubSeq(E, 1, n) \in Seq(Edits) /\ Len(SubSeq(E, 1, n)) = n
           /\ \A i \in 1 .. n : SubSeq(E, 1, n)[i] = E[i]
           /\ SubSeq(E, 1, Len(E)) = E
           /\ \A e \in Edits : SubSeq(Append(E, e), 1, n) = SubSeq(E, 1, n)
           /\ \A m \in 0 .. n : SubSeq(SubSeq(E, 1, n), 1, m) = SubSeq(E, 1, m)
<1>0. Len(E) \in Nat /\ n \in Nat /\ n <= Len(E)
  OBVIOUS
<1>1. /\ SubSeq(E, 1, n) \in Seq(Edits) /\ Len(SubSeq(E, 1, n)) = n
      /\ \A i \in 1 .. n : SubSeq(E, 1, n)[i] = E[i]
  BY <1>0
<1>2. SubSeq(E, 1, Len(E)) = E
  BY SubSeqFull
<1>3. ASSUME NEW e \in Edits PROVE SubSeq(Append(E, e), 1, n) = SubSeq(E, 1, n)
  <2> DEFINE F == Append(E, e)
  <2>1. /\ F \in Seq(Edits) /\ Len(F) = Len(E) + 1 /\ \A i \in 1 .. Len(E) : F[i] = E[i]
    OBVIOUS
  <2> HIDE DEF F
  <2>2. /\ SubSeq(F, 1, n) \in Seq(Edits) /\ Len(SubSeq(F, 1, n)) = n
        /\ \A i \in 1 .. n : SubSeq(F, 1, n)[i] = F[i]
    BY <1>0, <2>1
  <2>3. \A i \in 1 .. n : SubSeq(F, 1, n)[i] = SubSeq(E, 1, n)[i]
    BY <1>0, <1>1, <2>1, <2>2
  <2>4. SubSeq(F, 1, n) = SubSeq(E, 1, n)
    BY <1>1, <2>2, <2>3, SeqEqual
  <2> QED BY <2>4 DEF F
<1>4. ASSUME NEW m \in 0 .. n PROVE SubSeq(SubSeq(E, 1, n), 1, m) = SubSeq(E, 1, m)
  <2> DEFINE F == SubSeq(E, 1, n)
  <2>1. /\ F \in Seq(Edits) /\ Len(F) = n /\ \A i \in 1 .. n : F[i] = E[i]
    BY <1>1
  <2> HIDE DEF F
  <2>2. /\ SubSeq(F, 1, m) \in Seq(Edits) /\ Len(SubSeq(F, 1, m)) = m
        /\ \A i \in 1 .. m : SubSeq(F, 1, m)[i] = F[i]
    BY <1>0, <2>1
  <2>3. /\ SubSeq(E, 1, m) \in Seq(Edits) /\ Len(SubSeq(E, 1, m)) = m
        /\ \A i \in 1 .. m : SubSeq(E, 1, m)[i] = E[i]
    BY <1>0
  <2>4. \A i \in 1 .. m : SubSeq(F, 1, m)[i] = SubSeq(E, 1, m)[i]
    BY <1>0, <2>1, <2>2, <2>3
  <2>5. SubSeq(F, 1, m) = SubSeq(E, 1, m)
    BY <2>2, <2>3, <2>4, SeqEqual
  <2> QED BY <2>5 DEF F
<1> QED BY <1>1, <1>2, <1>3, <1>4

LEMMA Constants ==
    /\ NoTable \cap Batch = {} /\ {} \in SUBSET Batch
    /\ NoEdit \in Edits /\ NoMerge \in [num : Nat, inputs : SUBSET Nat]
    /\ NoWork \in [phase : {"idle", "flush", "merge", "write", "sync", "clean", "open"},
                   of : {"none", "flush", "merge", "open"}, edit : Edits]
    /\ NoVersion \in [tables : SUBSET Nat, log : Nat, logfile : Nat, manifest : Nat,
                      next : Nat, last : Nat]
    /\ NewLog \in LogFiles /\ Len(NewLog.recs) = 0 /\ NewLog.synced = 0
<1>1. NoTable \cap Batch = {}
  BY DEF NoTable, Batch
<1>2. NoEdit \in Edits
  BY DEF NoEdit, Edits
<1>3. NewLog.recs = <<>> /\ NewLog.synced = 0 /\ NewLog.torn = FALSE
      /\ NewLog = [recs |-> <<>>, synced |-> 0, torn |-> FALSE]
  BY DEF NewLog
<1>4. <<>> \in Seq(SUBSET Batch) /\ Len(<<>>) = 0
  BY EmptySeq
<1>5. NewLog \in LogFiles
  BY <1>3, <1>4 DEF LogFiles
<1> QED BY <1>1, <1>2, <1>3, <1>4, <1>5 DEF NoMerge, NoWork, NoVersion

LEMMA LogRecords ==
    ASSUME LogTypes, NEW l \in DOMAIN logs
    PROVE  /\ logs[l] \in LogFiles /\ logs[l].recs \in Seq(SUBSET Batch)
           /\ logs[l].synced \in Nat /\ Len(logs[l].recs) \in Nat
           /\ InLog(l) \in SUBSET Batch
           /\ \A b \in Batch :
                 b \in InLog(l) <=> \E i \in 1 .. Len(logs[l].recs) : b \in logs[l].recs[i]
<1>1. logs[l] \in LogFiles
  BY DEF LogTypes
<1>2. logs[l].recs \in Seq(SUBSET Batch) /\ logs[l].synced \in Nat
  BY <1>1 DEF LogFiles
<1>3. /\ Len(logs[l].recs) \in Nat /\ DOMAIN logs[l].recs = 1 .. Len(logs[l].recs)
      /\ \A i \in 1 .. Len(logs[l].recs) : logs[l].recs[i] \in SUBSET Batch
  BY <1>2
<1>4. InLog(l) = UNION {logs[l].recs[i] : i \in 1 .. Len(logs[l].recs)}
  BY <1>3 DEF InLog, ToSet
<1> QED BY <1>1, <1>2, <1>3, <1>4

LEMMA ContentsType ==
    ASSUME TableTypes, NEW T \in SUBSET DOMAIN tables
    PROVE  Contents(T) \in SUBSET Batch
BY DEF TableTypes, Contents

\* What a step does to the logs: a new one is empty, records are only lost, but for the one
\* that AddRecord adds.
LEMMA LogStep ==
    ASSUME WriterTypes, VersionType, LogTypes, [StoreNext]_storeVars
    PROVE  /\ LogTypes'
           /\ \A l \in DOMAIN logs' :
                 /\ l \in DOMAIN logs \cup {version.next}
                 /\ \A b \in InLog(l)' :
                       \/ l \in DOMAIN logs /\ b \in InLog(l)
                       \/ AddRecord /\ l = version.logfile /\ b \in Numbered
<1> DEFINE Kept == \A l \in DOMAIN logs' :
                      /\ l \in DOMAIN logs \cup {version.next}
                      /\ \A b \in InLog(l)' :
                            \/ l \in DOMAIN logs /\ b \in InLog(l)
                            \/ AddRecord /\ l = version.logfile /\ b \in Numbered
           Fine == LogTypes' /\ Kept
           lf == version.logfile
           Becomes(l, f) ==
              /\ logs' = [logs EXCEPT ![l] = f] /\ f.synced <= Len(f.recs)
              /\ \A b \in UNION ToSet(f.recs) :
                    b \in InLog(l) \/ (AddRecord /\ l = lf /\ b \in Numbered)
<1> HIDE DEF Kept, Fine, lf
<1>1. ASSUME logs' = logs PROVE Fine
  BY <1>1 DEF LogTypes, InLog, Fine, Kept
<1>2. ASSUME logs' = With(logs, version.next, NewLog) PROVE Fine
  <2>1. version.next \in Nat
    BY DEF VersionType
  <2>2. logs \in [DOMAIN logs -> LogFiles] /\ DOMAIN logs \subseteq Nat
    BY DEF LogTypes
  <2>3. /\ DOMAIN logs' = DOMAIN logs \cup {version.next}
        /\ logs' \in [DOMAIN logs' -> LogFiles] /\ logs'[version.next] = NewLog
        /\ \A l \in DOMAIN logs : l # version.next => logs'[l] = logs[l]
    <3>1. NewLog \in LogFiles
      BY Constants
    <3> QED BY <1>2, <2>2, <3>1 DEF With
  <2>4. LogTypes'
    BY <2>1, <2>2, <2>3, Constants DEF LogTypes
  <2>5. \A l \in DOMAIN logs' : l = version.next => InLog(l)' = {}
    BY <2>3 DEF InLog, ToSet, NewLog
  <2>6. \A l \in DOMAIN logs : l # version.next => InLog(l)' = InLog(l)
    BY <2>3 DEF InLog
  <2> QED BY <2>3, <2>4, <2>5, <2>6 DEF Fine, Kept
<1>3. ASSUME NEW l0 \in DOMAIN logs, NEW f \in LogFiles, Becomes(l0, f) PROVE Fine
  <2>1. /\ DOMAIN logs' = DOMAIN logs /\ logs' \in [DOMAIN logs' -> LogFiles] /\ logs'[l0] = f
        /\ \A l \in DOMAIN logs : l # l0 => logs'[l] = logs[l]
    BY <1>3 DEF LogTypes
  <2>2. LogTypes'
    BY <1>3, <2>1 DEF LogTypes
  <2>3. InLog(l0)' = UNION ToSet(f.recs) /\ \A l \in DOMAIN logs : l # l0 => InLog(l)' = InLog(l)
    BY <2>1 DEF InLog
  <2> QED BY <1>3, <2>1, <2>2, <2>3 DEF Fine, Kept, lf
<1> HIDE DEF Becomes
<1>4. ASSUME AddRecord PROVE Fine
  <2>1. CASE logs' = logs
    BY <1>1, <2>1
  <2>2. CASE lf \in DOMAIN logs /\ logs' = [logs EXCEPT ![lf].recs = Append(@, Numbered)]
    <3> DEFINE recs == logs[lf].recs
               f == [logs[lf] EXCEPT !.recs = Append(recs, Numbered)]
    <3>1. /\ logs[lf] \in LogFiles /\ recs \in Seq(SUBSET Batch) /\ Len(recs) \in Nat
          /\ Numbered \in SUBSET Batch /\ logs[lf].synced <= Len(recs) /\ logs[lf].synced \in Nat
      BY <2>2, LogRecords, NumberedType DEF LogTypes
    <3>2. /\ Append(recs, Numbered) \in Seq(SUBSET Batch)
          /\ Len(Append(recs, Numbered)) = Len(recs) + 1
          /\ \A i \in 1 .. Len(recs) + 1 :
                Append(recs, Numbered)[i] = IF i <= Len(recs) THEN recs[i] ELSE Numbered
      BY <3>1
    <3>3. logs' = [logs EXCEPT ![lf] = f]
      BY <2>2
    <3>4. f \in LogFiles /\ f.synced = logs[lf].synced /\ f.recs = Append(recs, Numbered)
      BY <3>1, <3>2 DEF LogFiles
    <3>5. f.synced <= Len(f.recs)
      BY <3>1, <3>2, <3>4
    <3>6. ASSUME NEW b \in UNION ToSet(f.recs) PROVE b \in InLog(lf) \/ b \in Numbered
      <4>1. DOMAIN f.recs = 1 .. Len(recs) + 1 /\ DOMAIN recs = 1 .. Len(recs)
        BY <3>1, <3>2, <3>4
      <4>2. PICK i \in 1 .. Len(recs) + 1 : b \in f.recs[i]
        BY <4>1 DEF ToSet
      <4>3. CASE i <= Len(recs)
        BY <3>1, <3>2, <3>4, <4>1, <4>2, <4>3 DEF InLog, ToSet
      <4>4. CASE ~(i <= Len(recs))
        BY <3>2, <3>4, <4>2, <4>4
      <4> QED BY <4>3, <4>4
    <3> HIDE DEF f
    <3>7. Becomes(lf, f)
      BY <1>4, <3>3, <3>5, <3>6 DEF Becomes
    <3> QED BY <1>3, <2>2, <3>4, <3>7
  <2>3. CASE lf \notin DOMAIN logs /\ logs' = [logs EXCEPT ![lf].recs = Append(@, Numbered)]
    <3>1. logs' = logs
      BY <2>3 DEF LogTypes
    <3> QED BY <1>1, <3>1
  <2> QED BY <1>4, <2>1, <2>2, <2>3 DEF AddRecord, lf
<1>5. ASSUME AddRecordFails PROVE Fine
  <2>1. PICK torn \in BOOLEAN : logs' = [logs EXCEPT ![lf].torn = @ \/ torn]
    BY <1>5 DEF AddRecordFails, lf
  <2>2. CASE lf \in DOMAIN logs
    <3> DEFINE t == logs[lf].torn \/ torn
               f == [logs[lf] EXCEPT !.torn = t]
    <3>1. logs[lf] \in LogFiles /\ t \in BOOLEAN
      BY <2>2, LogRecords
    <3> HIDE DEF t
    <3>2. f \in LogFiles /\ f.synced = logs[lf].synced /\ f.recs = logs[lf].recs
      BY <3>1 DEF LogFiles
    <3>3. logs' = [logs EXCEPT ![lf] = f]
      BY <2>1 DEF t
    <3> HIDE DEF f
    <3>4. Becomes(lf, f)
      BY <2>2, <3>2, <3>3 DEF Becomes, InLog, LogTypes
    <3> QED BY <1>3, <2>2, <3>2, <3>4
  <2>3. CASE lf \notin DOMAIN logs
    <3>1. logs' = logs
      BY <2>1, <2>3 DEF LogTypes
    <3> QED BY <1>1, <3>1
  <2> QED BY <2>2, <2>3
<1>6. ASSUME SyncLog PROVE Fine
  <2>1. logs' = [logs EXCEPT ![lf].synced = Len(logs[lf].recs)]
    BY <1>6 DEF SyncLog, lf
  <2>2. CASE lf \in DOMAIN logs
    <3> DEFINE f == [logs[lf] EXCEPT !.synced = Len(logs[lf].recs)]
    <3>1. logs[lf] \in LogFiles /\ Len(logs[lf].recs) \in Nat
      BY <2>2, LogRecords
    <3>2. f \in LogFiles /\ f.synced = Len(logs[lf].recs) /\ f.recs = logs[lf].recs
      BY <3>1 DEF LogFiles
    <3>3. logs' = [logs EXCEPT ![lf] = f]
      BY <2>1
    <3> HIDE DEF f
    <3>4. Becomes(lf, f)
      BY <2>2, <3>1, <3>2, <3>3 DEF Becomes, InLog
    <3> QED BY <1>3, <2>2, <3>2, <3>4
  <2>3. CASE lf \notin DOMAIN logs
    <3>1. logs' = logs
      BY <2>1, <2>3 DEF LogTypes
    <3> QED BY <1>1, <3>1
  <2> QED BY <2>2, <2>3
<1>7. ASSUME NEW x, RemoveFile(x) PROVE Fine
  <2>1. CASE logs' = logs
    BY <1>1, <2>1
  <2>2. CASE logs' = Without(logs, x[2])
    <3>1. /\ DOMAIN logs' = DOMAIN logs \ {x[2]} /\ logs' \in [DOMAIN logs' -> LogFiles]
          /\ \A l \in DOMAIN logs' : logs'[l] = logs[l]
      BY <2>2 DEF LogTypes, Without
    <3>2. LogTypes'
      BY <3>1 DEF LogTypes
    <3>3. \A l \in DOMAIN logs' : InLog(l)' = InLog(l)
      BY <3>1 DEF InLog
    <3> QED BY <3>1, <3>2, <3>3 DEF Fine, Kept
  <2> QED BY <1>7, <2>1, <2>2 DEF RemoveFile
<1>8. ASSUME MachineCrash PROVE Fine
  <2>1. PICK cut : /\ \A l \in DOMAIN logs : cut[l] \in Cuts(logs[l], logs[l].recs)
                   /\ logs' = [l \in DOMAIN logs |->
                         [logs[l] EXCEPT !.recs = SubSeq(@, 1, cut[l]), !.synced = cut[l]]]
    BY <1>8 DEF MachineCrash
  <2>2. ASSUME NEW l \in DOMAIN logs
        PROVE  /\ logs'[l] \in LogFiles /\ logs'[l].synced <= Len(logs'[l].recs)
               /\ \A b \in InLog(l)' : b \in InLog(l)
    <3> DEFINE recs == logs[l].recs
               c == cut[l]
    <3>1. logs[l] \in LogFiles /\ recs \in Seq(SUBSET Batch) /\ Len(recs) \in Nat
      BY LogRecords
    <3>2. c \in Nat /\ c <= Len(recs)
      <4>1. c \in Cuts(logs[l], recs)
        BY <2>1
      <4> QED BY <3>1, <4>1 DEF Cuts
    <3>3. /\ SubSeq(recs, 1, c) \in Seq(SUBSET Batch) /\ Len(SubSeq(recs, 1, c)) = c
          /\ \A i \in 1 .. c : SubSeq(recs, 1, c)[i] = recs[i]
      BY <3>1, <3>2
    <3>4. logs'[l] = [logs[l] EXCEPT !.recs = SubSeq(recs, 1, c), !.synced = c]
      BY <2>1
    <3> HIDE DEF c, recs
    <3>5. /\ logs'[l] \in LogFiles /\ logs'[l].recs = SubSeq(recs, 1, c) /\ logs'[l].synced = c
      BY <3>1, <3>2, <3>3, <3>4 DEF LogFiles
    <3>6. ASSUME NEW b \in InLog(l)' PROVE b \in InLog(l)
      <4>1. DOMAIN SubSeq(recs, 1, c) = 1 .. c /\ DOMAIN recs = 1 .. Len(recs)
        BY <3>1, <3>3
      <4>2. PICK i \in 1 .. c : b \in SubSeq(recs, 1, c)[i]
        BY <3>5, <4>1 DEF InLog, ToSet
      <4>3. i \in 1 .. Len(recs) /\ b \in recs[i]
        BY <3>1, <3>2, <3>3, <4>2
      <4> QED BY <4>1, <4>3 DEF InLog, ToSet, recs
    <3> QED BY <3>2, <3>3, <3>5, <3>6
  <2>3. DOMAIN logs' = DOMAIN logs /\ logs' \in [DOMAIN logs' -> LogFiles]
    BY <2>1, <2>2
  <2>4. LogTypes'
    BY <2>2, <2>3 DEF LogTypes
  <2> QED BY <2>2, <2>3, <2>4 DEF Fine, Kept
<1>9. ASSUME WriteStep PROVE Fine
  <2>1. CASE AtFront \/ RoomError \/ RoomFound \/ SwitchFails \/ SyncLogFails \/ InsertInto
    <3>1. logs' = logs
      BY <2>1 DEF AtFront, RoomError, RoomFound, SwitchFails, SyncLogFails, InsertInto, disk
    <3> QED BY <1>1, <3>1
  <2>2. CASE SwitchMemTable
    BY <1>2, <2>2 DEF SwitchMemTable
  <2> QED BY <1>4, <1>5, <1>6, <1>9, <2>1, <2>2 DEF WriteStep
<1>10. ASSUME BackgroundStep PROVE Fine
  <2>1. CASE Clean
    BY <1>1, <1>7, <2>1 DEF Clean
  <2>2. CASE ~Clean
    <3>1. logs' = logs
      BY <1>10, <2>2 DEF BackgroundStep, BeginNothing, BeginFlush, BeginMerge, Flush, FlushFails,
                MergeDone, MergeFails, WriteEdit, Install, EditFails, disk
    <3> QED BY <1>1, <3>1
  <2> QED BY <2>1, <2>2
<1>11. ASSUME OpenStep PROVE Fine
  <2>1. CASE OpenDone
    BY <1>1, <1>7, <2>1 DEF OpenDone
  <2>2. CASE OpenLog
    BY <1>2, <2>2 DEF OpenLog
  <2>3. CASE ~OpenDone /\ ~OpenLog
    <3>1. logs' = logs
      BY <1>11, <2>3 DEF OpenStep, NewDB, RecoverManifest, RecoverLogs, OpenManifest, OpenCurrent, disk
    <3> QED BY <1>1, <3>1
  <2> QED BY <2>1, <2>2, <2>3
<1>12. ASSUME (\E w \in Writers : Enqueue(w)) \/ Pin \/ Unpin \/ Crash \/ Close \/ Closed
              \/ UNCHANGED storeVars
       PROVE  Fine
  <2>1. logs' = logs
    BY <1>12 DEF Enqueue, Pin, Unpin, Crash, Close, Closed, disk, storeVars
  <2> QED BY <1>1, <2>1
<1>13. Fine
  BY <1>8, <1>9, <1>10, <1>11, <1>12 DEF StoreNext
<1> QED BY <1>13 DEF Fine, Kept, lf

\* The tables a recovery makes get numbers that follow each other, one for each log.
LEMMA RecoveredNumbers ==
    ASSUME LogTypes, VersionType, LogsBounded
    PROVE  /\ IsFiniteSet(LogsWithData) /\ IsFiniteSet(RecoveredTables)
           /\ Cardinality(RecoveredTables) = Cardinality(LogsWithData)
           /\ Cardinality(LogsWithData) \in Nat
           /\ \A l \in LogsWithData :
                 /\ RecoveredTable(l) \in Nat /\ version.next <= RecoveredTable(l)
                 /\ RecoveredTable(l) < version.next + Cardinality(LogsWithData)
                 /\ LogOf(RecoveredTable(l)) = l
           /\ RecoveredTables \subseteq Nat
<1> DEFINE Below(l) == {k \in LogsWithData : k < l}
<1>1. PICK limit \in Nat : \A l \in DOMAIN logs : l <= limit
  BY DEF LogsBounded
<1>2. LogsWithData \in SUBSET Nat /\ \A l \in LogsWithData : l <= limit
  BY <1>1 DEF LogsWithData, LogsFrom, LogTypes
<1>3. IsFiniteSet(LogsWithData)
  BY <1>2, FS_BoundedSetOfNaturals
<1>4. version.next \in Nat
  BY DEF VersionType
<1>5. Cardinality(LogsWithData) \in Nat
  BY <1>3, FS_CardinalityType
<1>6. ASSUME NEW l \in LogsWithData
      PROVE  /\ Cardinality(Below(l)) \in Nat /\ IsFiniteSet(Below(l))
             /\ Cardinality(Below(l)) < Cardinality(LogsWithData)
             /\ RecoveredTable(l) = version.next + Cardinality(Below(l))
  <2>1. Below(l) \subseteq LogsWithData /\ l \notin Below(l)
    BY <1>2
  <2>2. IsFiniteSet(Below(l)) /\ Cardinality(Below(l)) <= Cardinality(LogsWithData)
        /\ Cardinality(Below(l)) # Cardinality(LogsWithData)
    BY <1>3, <2>1, FS_Subset
  <2>3. Cardinality(Below(l)) \in Nat
    BY <2>2, FS_CardinalityType
  <2> QED BY <1>5, <2>2, <2>3 DEF RecoveredTable
<1>7. ASSUME NEW k \in LogsWithData, NEW l \in LogsWithData, k < l
      PROVE  RecoveredTable(k) < RecoveredTable(l)
  <2>0. LogsWithData \subseteq Nat /\ k \in Nat /\ l \in Nat
    BY <1>2
  <2>1. Below(k) \subseteq Below(l) /\ k \in Below(l) /\ k \notin Below(k)
    <3>1. \A j \in LogsWithData : j < k => j < l
      BY <1>7, <2>0
    <3>2. ~(k < k)
      BY <2>0
    <3> QED BY <1>7, <3>1, <3>2
  <2>2. /\ Cardinality(Below(k)) <= Cardinality(Below(l))
        /\ Cardinality(Below(k)) # Cardinality(Below(l))
    BY <1>6, <2>1, FS_Subset
  <2> HIDE DEF Below
  <2> QED BY <1>4, <1>6, <2>2
<1> HIDE DEF Below
<1>8. ASSUME NEW l \in LogsWithData
      PROVE  /\ RecoveredTable(l) \in Nat /\ version.next <= RecoveredTable(l)
             /\ RecoveredTable(l) < version.next + Cardinality(LogsWithData)
  BY <1>4, <1>5, <1>6
<1>9. ASSUME NEW k \in LogsWithData, NEW l \in LogsWithData, RecoveredTable(k) = RecoveredTable(l)
      PROVE  k = l
  <2>1. ~(k < l) /\ ~(l < k)
    BY <1>7, <1>8, <1>9
  <2> QED BY <1>2, <2>1
<1>10. ASSUME NEW l \in LogsWithData PROVE LogOf(RecoveredTable(l)) = l
  <2>1. /\ LogOf(RecoveredTable(l)) \in LogsWithData
        /\ RecoveredTable(LogOf(RecoveredTable(l))) = RecoveredTable(l)
    BY DEF LogOf
  <2> QED BY <1>9, <2>1
<1>11. IsFiniteSet(RecoveredTables) /\ Cardinality(RecoveredTables) = Cardinality(LogsWithData)
  <2> DEFINE f == [l \in LogsWithData |-> RecoveredTable(l)]
  <2>1. f \in Bijection(LogsWithData, RecoveredTables)
    <3>1. f \in [LogsWithData -> RecoveredTables]
      BY DEF RecoveredTables
    <3>2. \A t \in RecoveredTables : \E l \in LogsWithData : f[l] = t
      BY DEF RecoveredTables
    <3>3. \A k, l \in LogsWithData : f[k] = f[l] => k = l
      BY <1>9
    <3> HIDE DEF f
    <3> QED BY <3>1, <3>2, <3>3 DEF Bijection, Injection, Surjection, IsInjective
  <2>2. ExistsBijection(LogsWithData, RecoveredTables)
    BY <2>1 DEF ExistsBijection
  <2> QED BY <1>3, <2>2, FS_Bijection
<1> QED BY <1>3, <1>5, <1>8, <1>10, <1>11 DEF RecoveredTables

LEMMA LiveContents ==
    ASSUME StoreIInv
    PROVE  /\ Contents(version.tables) \in SUBSET Batch
           /\ version.tables \subseteq DOMAIN tables
           /\ imm # NoTable => imm \in SUBSET Batch
<1>1. version.tables \subseteq DOMAIN tables
  BY DEF StoreIInv, FilesInv, Needed, ProcessTables
<1>2. TableTypes /\ ProcessTypes
  BY DEF StoreIInv, Types
<1> QED BY <1>1, <1>2, ContentsType DEF ProcessTypes

\* What a step does to the tables: one may be written under a new number, or removed.
LEMMA TableTypesStep ==
    ASSUME StoreIInv, [StoreNext]_storeVars
    PROVE  TableTypes'
<1>0. /\ DOMAIN tables \subseteq Nat /\ tables \in [DOMAIN tables -> SUBSET Batch]
      /\ version.next \in Nat
  BY DEF StoreIInv, Types, TableTypes, VersionType
<1>1. ASSUME tables' = tables PROVE TableTypes'
  BY <1>0, <1>1 DEF TableTypes
<1>2. ASSUME NEW T \in SUBSET Batch, tables' = With(tables, version.next, T) PROVE TableTypes'
  BY <1>0, <1>2 DEF TableTypes, With
<1>3. ASSUME NEW x, RemoveFile(x) PROVE TableTypes'
  BY <1>0, <1>3 DEF RemoveFile, TableTypes, Without
<1>4. CASE BeginMerge
  BY <1>2, <1>4, LiveContents DEF BeginMerge
<1>5. CASE Flush \/ FlushFails
  <2>1. tables' = tables \/ tables' = With(tables, version.next, imm)
    BY <1>5 DEF Flush, FlushFails
  <2>2. imm \in SUBSET Batch
    BY <1>5, LiveContents DEF Flush, FlushFails, Flushing
  <2> QED BY <1>1, <1>2, <2>1, <2>2
<1>6. CASE Clean \/ OpenDone
  BY <1>1, <1>3, <1>6 DEF Clean, OpenDone
<1>7. CASE RecoverLogs
  <2>1. tables' = [t \in DOMAIN tables \cup RecoveredTables |->
                     IF t \in RecoveredTables THEN InLog(LogOf(t)) ELSE tables[t]]
    BY <1>7 DEF RecoverLogs
  <2>2. ASSUME NEW t \in RecoveredTables PROVE LogOf(t) \in DOMAIN logs
    <3>1. \E l \in LogsWithData : RecoveredTable(l) = t
      BY DEF RecoveredTables
    <3>2. LogOf(t) \in LogsWithData
      BY <3>1 DEF LogOf
    <3> QED BY <3>2 DEF LogsWithData, LogsFrom
  <2>3. \A t \in RecoveredTables : InLog(LogOf(t)) \in SUBSET Batch
    BY <2>2, LogRecords DEF StoreIInv, Types
  <2>4. RecoveredTables \subseteq Nat
    BY RecoveredNumbers DEF StoreIInv, Types
  <2>5. DOMAIN tables' = DOMAIN tables \cup RecoveredTables
    BY <2>1
  <2>6. \A t \in DOMAIN tables' : tables'[t] \in SUBSET Batch
    BY <1>0, <2>1, <2>3
  <2>7. tables' \in [DOMAIN tables' -> SUBSET Batch]
    BY <2>1, <2>5, <2>6
  <2> QED BY <1>0, <2>4, <2>5, <2>7 DEF TableTypes
<1>8. ASSUME WriteStep \/ Pin \/ Unpin \/ Crash \/ MachineCrash \/ Close \/ Closed
             \/ (\E w \in Writers : Enqueue(w)) \/ UNCHANGED storeVars
      PROVE  tables' = tables
  BY <1>8 DEF WriteStep, AtFront, RoomError, RoomFound, SwitchMemTable, SwitchFails, AddRecord,
              AddRecordFails, SyncLog, SyncLogFails, InsertInto, Pin, Unpin, Crash, MachineCrash,
              Close, Closed, Enqueue, storeVars, disk
<1>9. ASSUME BackgroundStep, ~BeginMerge, ~Flush, ~FlushFails, ~Clean PROVE tables' = tables
  BY <1>9 DEF BackgroundStep, BeginNothing, BeginFlush, MergeDone, MergeFails, WriteEdit, Install,
              EditFails, disk
<1>10. ASSUME OpenStep, ~OpenDone, ~RecoverLogs PROVE tables' = tables
  BY <1>10 DEF OpenStep, NewDB, RecoverManifest, OpenLog, OpenManifest, OpenCurrent, disk
<1> QED BY <1>1, <1>4, <1>5, <1>6, <1>7, <1>8, <1>9, <1>10 DEF StoreNext

\* The background thread works only while the store is open or being closed, and writes
\* its edits to the manifest of CURRENT.
LEMMA BusyRuns ==
    ASSUME PhasesInv, ProcessTypes, bg.phase \notin {"idle", "open"}
    PROVE  up \in {"up", "closing"} /\ current = version.manifest /\ current # 0
BY DEF PhasesInv, ProcessTypes, NoWork, Running

LEMMA ManifestFacts ==
    ASSUME ManifestTypes, current # 0
    PROVE  /\ current \in DOMAIN manifests /\ manifests[current] \in Manifests
           /\ Current \in Seq(Edits) /\ Len(Current) \in Nat
           /\ manifests[current].synced \in Nat /\ manifests[current].synced <= Len(Current)
           /\ Lengths = manifests[current].synced .. Len(Current)
           /\ Len(Current) \in Lengths /\ Lengths \subseteq 0 .. Len(Current)
           /\ (Current # <<>> => Len(Current) > 0 /\ Last(Current) = Current[Len(Current)]
                                 /\ Last(Current) \in Edits)
<1>1. current \in DOMAIN manifests /\ manifests[current] \in Manifests
      /\ manifests[current].synced <= Len(manifests[current].edits)
  BY DEF ManifestTypes
<1>2. Current \in Seq(Edits) /\ manifests[current].synced \in Nat
  BY <1>1 DEF Manifests, Current
<1>3. Len(Current) \in Nat /\ manifests[current].synced <= Len(Current)
  BY <1>1, <1>2 DEF Current
<1>4. Lengths = manifests[current].synced .. Len(Current)
  BY DEF Lengths
<1>5. Current # <<>> => Len(Current) > 0 /\ Last(Current) = Current[Len(Current)]
                        /\ Last(Current) \in Edits
  BY <1>2, <1>3 DEF Last
<1> QED BY <1>1, <1>2, <1>3, <1>4, <1>5

\* What RecoverLogs makes of the counters.
NextRecovered == Max({version.next + Cardinality(RecoveredTables)}
                     \cup {l + 1 : l \in LogsFrom(version.log)})
LEMMA RecoveredCounters ==
    ASSUME LogTypes, VersionType, LogsBounded
    PROVE  /\ NextRecovered \in Nat /\ version.next <= NextRecovered
           /\ \A t \in RecoveredTables : t < NextRecovered
           /\ \A l \in LogsFrom(version.log) : l < NextRecovered
           /\ RecoveredLast \in Nat /\ version.last <= RecoveredLast
           /\ \A l \in LogsFrom(version.log) : \A b \in InLog(l) : b[2] <= RecoveredLast
           /\ RecoveredLast = version.last
              \/ \E l \in LogsFrom(version.log) : \E b \in InLog(l) : b[2] = RecoveredLast
<1> DEFINE C == Cardinality(RecoveredTables)
           N == {version.next + C} \cup {l + 1 : l \in LogsFrom(version.log)}
           B == UNION {InLog(l) : l \in LogsWithData}
           L == {version.last} \cup {b[2] : b \in B}
<1>1. PICK limit \in Nat : \A l \in DOMAIN logs :
             l <= limit /\ \A b \in InLog(l) : b[2] <= limit
  BY DEF LogsBounded
<1>2. version.next \in Nat /\ version.last \in Nat /\ C \in Nat
  <2>1. C \in Nat
    BY RecoveredNumbers
  <2> QED BY <2>1 DEF VersionType
<1>3. LogsFrom(version.log) \subseteq DOMAIN logs /\ LogsWithData \subseteq LogsFrom(version.log)
      /\ DOMAIN logs \subseteq Nat
  BY DEF LogsFrom, LogsWithData, LogTypes
<1>4. ASSUME NEW l \in DOMAIN logs, NEW b \in InLog(l) PROVE b[2] \in Nat /\ b[2] <= limit
  <2>1. b \in Batch
    BY LogRecords
  <2> QED BY <1>1, <2>1 DEF Batch
<1>5. /\ N \in SUBSET Nat /\ N # {}
      /\ limit + 1 + version.next + C \in Nat /\ \A n \in N : n <= limit + 1 + version.next + C
  <2>1. ASSUME NEW n \in N PROVE n \in Nat /\ n <= limit + 1 + version.next + C
    <3>1. CASE n = version.next + C
      BY <1>2, <3>1
    <3>2. CASE n # version.next + C
      <4>1. PICK l \in LogsFrom(version.log) : n = l + 1
        BY <3>2
      <4>2. l \in Nat /\ l <= limit
        BY <1>1, <1>3
      <4> QED BY <1>2, <4>1, <4>2
    <3> QED BY <3>1, <3>2
  <2>2. N # {} /\ limit + 1 + version.next + C \in Nat
    BY <1>2
  <2> HIDE DEF N
  <2> QED BY <2>1, <2>2
<1>6. Max(N) \in N /\ \A n \in N : n <= Max(N)
  <2> HIDE DEF N
  <2> QED BY <1>5, MaxOf
<1>7. /\ L \in SUBSET Nat /\ L # {}
      /\ limit + version.last \in Nat /\ \A n \in L : n <= limit + version.last
  <2>1. ASSUME NEW b \in B PROVE b[2] \in Nat /\ b[2] <= limit
    BY <1>3, <1>4
  <2> HIDE DEF B
  <2>2. ASSUME NEW n \in L PROVE n \in Nat /\ n <= limit + version.last
    <3>1. CASE n = version.last
      BY <1>2, <3>1
    <3>2. CASE n # version.last
      <4>1. PICK b \in B : n = b[2]
        BY <3>2
      <4> QED BY <1>2, <2>1, <4>1
    <3> QED BY <3>1, <3>2
  <2>3. L # {} /\ limit + version.last \in Nat
    BY <1>2
  <2> QED BY <2>2, <2>3
<1>8. Max(L) \in L /\ \A n \in L : n <= Max(L)
  <2> HIDE DEF L
  <2> QED BY <1>7, MaxOf
<1>9. NextRecovered = Max(N) /\ RecoveredLast = Max(L)
  BY DEF NextRecovered, RecoveredLast
<1>10. NextRecovered \in Nat /\ version.next + C <= NextRecovered
       /\ \A l \in LogsFrom(version.log) : l + 1 <= NextRecovered
  BY <1>5, <1>6, <1>9
<1>11. version.next <= NextRecovered /\ \A l \in LogsFrom(version.log) : l < NextRecovered
  BY <1>2, <1>3, <1>10
<1>12. ASSUME NEW t \in RecoveredTables PROVE t < NextRecovered
  <2>1. PICK l \in LogsWithData : t = RecoveredTable(l)
    BY DEF RecoveredTables
  <2>2. t \in Nat /\ t < version.next + C
    BY <2>1, RecoveredNumbers
  <2> HIDE DEF C
  <2> QED BY <1>2, <1>10, <2>2
<1>13. RecoveredLast \in Nat /\ version.last <= RecoveredLast
  BY <1>7, <1>8, <1>9
<1>14. ASSUME NEW l \in LogsFrom(version.log), NEW b \in InLog(l) PROVE b[2] <= RecoveredLast
  <2>1. l \in LogsWithData
    BY DEF LogsWithData
  <2>2. b[2] \in L
    BY <2>1
  <2> QED BY <1>8, <1>9, <2>2
<1>15. RecoveredLast = version.last
       \/ \E l \in LogsFrom(version.log) : \E b \in InLog(l) : b[2] = RecoveredLast
  <2>1. Max(L) = version.last \/ \E l \in LogsWithData : \E b \in InLog(l) : b[2] = Max(L)
    BY <1>8
  <2> HIDE DEF L
  <2> QED BY <1>3, <1>9, <2>1
<1> QED BY <1>10, <1>11, <1>12, <1>13, <1>14, <1>15

LEMMA LogsBoundedStep ==
    ASSUME WriterTypes, VersionType, LogTypes, LogsBounded, [StoreNext]_storeVars
    PROVE  LogsBounded'
<1>1. PICK limit \in Nat : \A l \in DOMAIN logs :
             l <= limit /\ \A b \in InLog(l) : b[2] <= limit
  BY DEF LogsBounded
<1> DEFINE new == limit + version.next + version.last + GroupCount
<1>2. version.next \in Nat /\ version.last \in Nat /\ GroupCount \in Nat
  BY NumberedType DEF VersionType
<1>3. new \in Nat
  BY <1>2
<1>4. ASSUME NEW l \in DOMAIN logs' PROVE l <= new /\ \A b \in InLog(l)' : b[2] <= new
  <2>1. /\ l \in DOMAIN logs \cup {version.next}
        /\ \A b \in InLog(l)' : \/ l \in DOMAIN logs /\ b \in InLog(l)
                                \/ AddRecord /\ l = version.logfile /\ b \in Numbered
    BY <1>4, LogStep
  <2>2. ASSUME NEW k \in DOMAIN logs PROVE k \in Nat /\ k <= limit
    BY <1>1 DEF LogTypes
  <2>3. l <= new
    BY <1>2, <2>1, <2>2
  <2>4. ASSUME NEW b \in InLog(l)' PROVE b[2] <= new
    <3>1. CASE l \in DOMAIN logs /\ b \in InLog(l)
      <4>1. b[2] <= limit
        BY <1>1, <3>1
      <4>2. b \in Batch
        BY <3>1, LogRecords
      <4>3. b[2] \in Nat
        BY <4>2 DEF Batch
      <4> QED BY <1>2, <4>1, <4>3
    <3>2. CASE b \in Numbered
      <4>1. b[2] \in Nat /\ b[2] <= version.last + GroupCount
        BY <3>2, NumberedType
      <4> QED BY <1>2, <4>1
    <3> QED BY <2>1, <2>4, <3>1, <3>2
  <2> QED BY <2>3, <2>4
<1> HIDE DEF new
<1> QED BY <1>3, <1>4 DEF LogsBounded

LEMMA VersionTypeStep ==
    ASSUME StoreIInv, [StoreNext]_storeVars
    PROVE  VersionType'
<1> DEFINE Versions == [tables : SUBSET Nat, log : Nat, logfile : Nat, manifest : Nat,
                        next : Nat, last : Nat]
<1>0. version \in Versions /\ version.next \in Nat /\ version.next + 1 \in Nat
      /\ version.last \in Nat /\ version.manifest \in Nat /\ version.logfile \in Nat
  BY DEF StoreIInv, Types, VersionType
<1>t. /\ WriterTypes /\ VersionType /\ ProcessTypes
      /\ LogTypes /\ TableTypes /\ ManifestTypes /\ LogsBounded
  BY DEF StoreIInv, Types
<1>1. ASSUME version' = version PROVE VersionType'
  BY <1>0, <1>1 DEF VersionType
<1>2. ASSUME version' = NoVersion PROVE VersionType'
  BY <1>2, Constants DEF VersionType
<1>3. CASE AddRecordFails \/ SyncLogFails \/ InsertInto
  <2>1. version' = [version EXCEPT !.last = @ + GroupCount]
    BY <1>3 DEF AddRecordFails, SyncLogFails, InsertInto
  <2>2. version.last + GroupCount \in Nat
    BY <1>0, <1>t, NumberedType
  <2> QED BY <1>0, <2>1, <2>2 DEF VersionType
<1>4. CASE SwitchMemTable \/ OpenLog
  <2>1. version' = [version EXCEPT !.logfile = version.next, !.next = @ + 1]
    BY <1>4 DEF SwitchMemTable, OpenLog
  <2> QED BY <1>0, <2>1 DEF VersionType
<1>5. CASE BeginMerge \/ Flush
  <2>1. version' = [version EXCEPT !.next = @ + 1]
    BY <1>5 DEF BeginMerge, Flush
  <2> QED BY <1>0, <2>1 DEF VersionType
<1>6. CASE Install \/ OpenCurrent
  <2>1. \E n \in Nat :
           version' = [version EXCEPT !.tables = Applied(version.tables, bg.edit), !.log = n]
    <3>1. bg.edit.log \in Nat
      BY <1>t DEF ProcessTypes, Edits
    <3> QED BY <1>0, <1>6, <3>1 DEF Install, OpenCurrent
  <2>2. Applied(version.tables, bg.edit) \in SUBSET Nat
    BY <1>0, <1>t DEF ProcessTypes, Edits, Applied
  <2> QED BY <1>0, <2>1, <2>2 DEF VersionType
<1>7. CASE RecoverManifest
  <2>1. CASE version' = version
    BY <1>1, <2>1
  <2>2. CASE version' # version
    <3>1. /\ current # 0 /\ Current # <<>>
          /\ version' = [tables |-> TablesOf(Current), log |-> Last(Current).log, logfile |-> 0,
                         manifest |-> Last(Current).next,
                         next |-> Max({Last(Current).next, Last(Current).log}) + 1,
                         last |-> Last(Current).last]
      BY <1>7, <2>2 DEF RecoverManifest, Current
    <3>2. Last(Current) \in Edits /\ Current \in Seq(Edits)
      BY <1>t, <3>1, ManifestFacts
    <3> DEFINE a == Last(Current).next
               b == Last(Current).log
    <3>3. a \in Nat /\ b \in Nat /\ Last(Current).last \in Nat
      BY <3>2 DEF Edits
    <3>4. TablesOf(Current) \in SUBSET Nat
      BY <3>2, TablesAreNumbers
    <3>5. Max({a, b}) \in Nat
      <4> HIDE DEF a, b
      <4>1. {a, b} \in SUBSET Nat /\ {a, b} # {} /\ a + b \in Nat /\ \A h \in {a, b} : h <= a + b
        BY <3>3
      <4> QED BY <4>1, MaxOf
    <3> QED BY <3>1, <3>3, <3>4, <3>5 DEF VersionType
  <2> QED BY <2>1, <2>2
<1>8. CASE RecoverLogs
  <2>1. version' = [version EXCEPT !.next = NextRecovered, !.last = RecoveredLast]
    BY <1>8 DEF RecoverLogs, NextRecovered
  <2>2. NextRecovered \in Nat /\ RecoveredLast \in Nat
    BY <1>t, RecoveredCounters
  <2> QED BY <1>0, <2>1, <2>2 DEF VersionType
<1>9. ASSUME WriteStep, ~AddRecordFails, ~SyncLogFails, ~InsertInto, ~SwitchMemTable
      PROVE  version' = version
  BY <1>9 DEF WriteStep, AtFront, RoomError, RoomFound, SwitchFails, AddRecord, SyncLog
<1>10. ASSUME BackgroundStep, ~BeginMerge, ~Flush, ~Install PROVE version' = version
  BY <1>10 DEF BackgroundStep, BeginNothing, BeginFlush, FlushFails, MergeDone, MergeFails, WriteEdit,
               EditFails, Clean
<1>11. ASSUME OpenStep, ~OpenLog, ~OpenCurrent, ~RecoverManifest, ~RecoverLogs
       PROVE  version' = version
  BY <1>11 DEF OpenStep, NewDB, OpenManifest, OpenDone, process
<1>12. ASSUME Crash \/ MachineCrash \/ Closed PROVE version' = NoVersion
  BY <1>12 DEF Crash, MachineCrash, Closed, Gone
<1>13. ASSUME Pin \/ Unpin \/ Close \/ (\E w \in Writers : Enqueue(w)) \/ UNCHANGED storeVars
       PROVE  version' = version
  BY <1>13 DEF Pin, Unpin, Close, Enqueue, storeVars, process
<1> QED BY <1>1, <1>2, <1>3, <1>4, <1>5, <1>6, <1>7, <1>8, <1>9, <1>10, <1>11, <1>12, <1>13 DEF StoreNext

LEMMA ManifestTypesStep ==
    ASSUME StoreIInv, [StoreNext]_storeVars
    PROVE  ManifestTypes'
<1>t. /\ WriterTypes /\ VersionType /\ ProcessTypes /\ LogTypes /\ TableTypes /\ ManifestTypes
      /\ PhasesInv /\ FilesInv /\ AgreeInv
  BY DEF StoreIInv, Types
<1>0. /\ DOMAIN manifests \subseteq Nat /\ manifests \in [DOMAIN manifests -> Manifests]
      /\ \A m \in DOMAIN manifests : manifests[m].synced <= Len(manifests[m].edits)
      /\ (current = 0 \/ current \in DOMAIN manifests)
  BY <1>t, Zenon DEF ManifestTypes
<1>1. ASSUME manifests' = manifests, current' = current PROVE ManifestTypes'
  BY <1>t, <1>1, Zenon DEF ManifestTypes
<1>2. ASSUME NEW m \in DOMAIN manifests, NEW f \in Manifests, f.synced <= Len(f.edits),
             manifests' = [manifests EXCEPT ![m] = f], current' = current
      PROVE  ManifestTypes'
  BY <1>0, <1>2 DEF ManifestTypes
<1>3. ASSUME NEW m \in Nat, NEW f \in Manifests, f.synced <= Len(f.edits),
             manifests' = With(manifests, m, f), current' \in {current, m}
      PROVE  ManifestTypes'
  <2>1. f.synced \in Nat /\ \A n \in DOMAIN manifests : manifests[n] \in Manifests
    BY <1>0, <1>3 DEF Manifests
  <2>2. /\ DOMAIN manifests' = DOMAIN manifests \cup {m} /\ manifests'[m] = f
        /\ \A n \in DOMAIN manifests : n # m => manifests'[n] = manifests[n]
        /\ manifests' \in [DOMAIN manifests' -> Manifests]
    BY <1>0, <1>3 DEF With
  <2>3. \A n \in DOMAIN manifests' : manifests'[n].synced <= Len(manifests'[n].edits)
    BY <1>0, <1>3, <2>2
  <2>4. DOMAIN manifests' \subseteq Nat
    BY <1>0, <2>2
  <2>5. current' = 0 \/ current' \in DOMAIN manifests'
    BY <1>0, <1>3, <2>2, Zenon
  <2> QED BY <2>2, <2>3, <2>4, <2>5 DEF ManifestTypes
<1>4. CASE WriteEdit
  <2>1. CASE behind = "nothing"
    <3>1. current = version.manifest /\ current # 0 /\ current' = current
      BY <1>4, <1>t, BusyRuns DEF WriteEdit, Busy
    <3> DEFINE e == Complete(bg.edit)
               f == [manifests[current] EXCEPT !.edits = Append(Current, e)]
    <3>2. e \in Edits
      BY <1>t DEF Complete, ProcessTypes, VersionType, Edits
    <3>3. manifests' = [manifests EXCEPT ![current] = f]
      BY <1>4, <2>1, <3>1 DEF WriteEdit, Current
    <3> HIDE DEF e
    <3>4. /\ current \in DOMAIN manifests /\ manifests[current] \in Manifests
          /\ Current \in Seq(Edits) /\ Len(Current) \in Nat
          /\ manifests[current].synced \in Nat /\ manifests[current].synced <= Len(Current)
      BY <1>t, <3>1, ManifestFacts
    <3>5. Append(Current, e) \in Seq(Edits) /\ Len(Append(Current, e)) = Len(Current) + 1
      BY <3>2, <3>4
    <3>6. f \in Manifests /\ f.synced = manifests[current].synced /\ f.edits = Append(Current, e)
      BY <3>4, <3>5 DEF Manifests
    <3>7. f.synced <= Len(f.edits)
      BY <3>4, <3>5, <3>6
    <3> HIDE DEF f
    <3> QED BY <1>2, <3>1, <3>3, <3>4, <3>6, <3>7
  <2>2. CASE behind # "nothing"
    BY <1>1, <1>4, <2>2 DEF WriteEdit
  <2> QED BY <2>1, <2>2
<1>5. CASE Install
  <2>1. current = version.manifest /\ current # 0 /\ current' = current
    BY <1>5, <1>t, BusyRuns DEF Install, Busy
  <2> DEFINE f == [manifests[current] EXCEPT !.synced = Len(Current)]
  <2>2. manifests' = [manifests EXCEPT ![current] = f]
    BY <1>5, <2>1 DEF Install, Current
  <2>3. /\ current \in DOMAIN manifests /\ manifests[current] \in Manifests
        /\ Len(Current) \in Nat
    BY <1>t, <2>1, ManifestFacts
  <2>4. f \in Manifests /\ f.synced = Len(f.edits)
    BY <2>3 DEF Manifests, Current
  <2>5. f.synced <= Len(f.edits)
    BY <2>3, <2>4
  <2> HIDE DEF f
  <2> QED BY <1>2, <2>1, <2>2, <2>3, <2>4, <2>5
<1>6. CASE NewDB
  <2> DEFINE e == [NoEdit EXCEPT !.next = 2]
             f == [edits |-> <<e>>, synced |-> 0]
  <2>1. manifests' = With(manifests, 1, f) /\ current' = 1
    BY <1>6 DEF NewDB
  <2>2. e \in Edits
    BY Constants DEF Edits
  <2> HIDE DEF e
  <2>3. <<e>> \in Seq(Edits) /\ Len(<<e>>) = 1
    BY <2>2
  <2>4. f \in Manifests /\ f.synced <= Len(f.edits)
    BY <2>3 DEF Manifests
  <2> HIDE DEF f
  <2> QED BY <1>3, <2>1, <2>4
<1>7. CASE OpenManifest
  <2> DEFINE s == [NoEdit EXCEPT !.add = version.tables]
             e == [Complete(bg.edit) EXCEPT !.log = version.logfile]
             f == [edits |-> <<s, e>>, synced |-> 2]
  <2>1. manifests' = With(manifests, version.manifest, f) /\ current' = current
    BY <1>7 DEF OpenManifest
  <2>2. version.manifest \in Nat
    BY <1>t DEF VersionType
  <2>3. s \in Edits /\ e \in Edits
    BY <1>t, Constants DEF Complete, ProcessTypes, VersionType, Edits
  <2> HIDE DEF s, e
  <2>4. <<s, e>> \in Seq(Edits) /\ Len(<<s, e>>) = 2
    BY <2>3
  <2>5. f \in Manifests /\ f.synced <= Len(f.edits)
    BY <2>4 DEF Manifests
  <2> HIDE DEF f
  <2> QED BY <1>3, <2>1, <2>2, <2>5
<1>8. CASE OpenCurrent
  <2>1. manifests' = manifests /\ current' = version.manifest /\ up = "current"
    BY <1>8 DEF OpenCurrent
  <2>2. version.manifest \in DOMAIN manifests
    BY <1>t, <2>1 DEF AgreeInv
  <2> QED BY <1>0, <2>1, <2>2 DEF ManifestTypes
<1>9. ASSUME NEW x \in garbage, RemoveFile(x), current' = current PROVE ManifestTypes'
  <2>1. CASE manifests' = manifests
    BY <1>1, <1>9, <2>1
  <2>2. CASE x[1] = "manifest" /\ manifests' = Without(manifests, x[2])
    <3>1. x \in {"log", "manifest", "table"} \X Nat
      BY <1>t DEF ProcessTypes
    <3>2. x = <<"manifest", x[2]>>
      BY <2>2, <3>1
    <3>3. x[2] # current
      BY <1>9, <1>t, <3>2 DEF FilesInv
    <3>4. /\ DOMAIN manifests' = DOMAIN manifests \ {x[2]}
          /\ \A n \in DOMAIN manifests' : manifests'[n] = manifests[n]
          /\ manifests' \in [DOMAIN manifests' -> Manifests]
      BY <1>0, <2>2 DEF Without
    <3>5. \A n \in DOMAIN manifests' : manifests'[n].synced <= Len(manifests'[n].edits)
      BY <1>0, <3>4
    <3>6. DOMAIN manifests' \subseteq Nat
      BY <1>0, <3>4
    <3>7. current' = 0 \/ current' \in DOMAIN manifests'
      BY <1>0, <1>9, <3>3, <3>4, Zenon
    <3> QED BY <3>4, <3>5, <3>6, <3>7 DEF ManifestTypes
  <2> QED BY <1>9, <2>1, <2>2 DEF RemoveFile
<1>10. CASE Clean \/ OpenDone
  BY <1>1, <1>9, <1>10 DEF Clean, OpenDone
<1>11. CASE MachineCrash
  <2>1. PICK cut : /\ \A m \in DOMAIN manifests : cut[m] \in Cuts(manifests[m], manifests[m].edits)
                   /\ manifests' = [m \in DOMAIN manifests |->
                         [edits |-> SubSeq(manifests[m].edits, 1, cut[m]), synced |-> cut[m]]]
    BY <1>11 DEF MachineCrash
  <2>2. ASSUME NEW m \in DOMAIN manifests
        PROVE  manifests'[m] \in Manifests /\ manifests'[m].synced <= Len(manifests'[m].edits)
    <3> DEFINE edits == manifests[m].edits
               c == cut[m]
    <3>1. edits \in Seq(Edits) /\ Len(edits) \in Nat
      <4>1. manifests[m] \in Manifests
        BY <1>0
      <4> QED BY <4>1 DEF Manifests
    <3>2. c \in 0 .. Len(edits)
      <4>1. c \in Cuts(manifests[m], edits)
        BY <2>1
      <4> QED BY <4>1 DEF Cuts
    <3>3. manifests'[m] = [edits |-> SubSeq(edits, 1, c), synced |-> c]
      BY <2>1
    <3> HIDE DEF edits, c
    <3>4. SubSeq(edits, 1, c) \in Seq(Edits) /\ Len(SubSeq(edits, 1, c)) = c /\ c \in Nat
      BY <3>1, <3>2, PrefixFacts
    <3> QED BY <3>3, <3>4 DEF Manifests
  <2>3. DOMAIN manifests' = DOMAIN manifests /\ manifests' \in [DOMAIN manifests' -> Manifests]
        /\ current' = current
    BY <1>11, <2>1, <2>2 DEF MachineCrash
  <2>4. DOMAIN manifests' \subseteq Nat
    BY <1>0, <2>3
  <2>6. current' = 0 \/ current' \in DOMAIN manifests'
    BY <1>0, <2>3, Zenon
  <2>5. \A m \in DOMAIN manifests' : manifests'[m].synced <= Len(manifests'[m].edits)
    BY <2>2, <2>3
  <2> QED BY <2>3, <2>4, <2>5, <2>6 DEF ManifestTypes
<1>12. ASSUME WriteStep \/ Pin \/ Unpin \/ Crash \/ Close \/ Closed
              \/ (\E w \in Writers : Enqueue(w)) \/ UNCHANGED storeVars
       PROVE  manifests' = manifests /\ current' = current
  BY <1>12 DEF WriteStep, AtFront, RoomError, RoomFound, SwitchMemTable, SwitchFails, AddRecord,
               AddRecordFails, SyncLog, SyncLogFails, InsertInto, Pin, Unpin, Crash,
               Close, Closed, Enqueue, storeVars, disk
<1>13. ASSUME BackgroundStep, ~WriteEdit, ~Install, ~Clean
       PROVE  manifests' = manifests /\ current' = current
  BY <1>13 DEF BackgroundStep, BeginNothing, BeginFlush, BeginMerge, Flush, FlushFails, MergeDone,
               MergeFails, EditFails, disk
<1>14. ASSUME OpenStep, ~NewDB, ~OpenManifest, ~OpenCurrent, ~OpenDone
       PROVE  manifests' = manifests /\ current' = current
  BY <1>14 DEF OpenStep, RecoverManifest, RecoverLogs, OpenLog, disk
<1> QED BY <1>1, <1>4, <1>5, <1>6, <1>7, <1>8, <1>10, <1>11, <1>12, <1>13, <1>14 DEF StoreNext

\* What RemoveObsoleteFiles removes is obsolete.
LEMMA ObsoleteFacts ==
    ASSUME LogTypes, TableTypes, ManifestTypes, NEW v, NEW pending, NEW x \in Obsolete(v, pending)
    PROVE  /\ x \in {"log", "manifest", "table"} \X Nat
           /\ x[1] = "manifest" => x[2] < v.manifest
           /\ x[1] = "log" => x[2] < v.log
           /\ x[1] = "table" => x[2] \notin v.tables \cup pinned \cup pending
<1>1. DOMAIN logs \subseteq Nat /\ DOMAIN tables \subseteq Nat /\ DOMAIN manifests \subseteq Nat
  BY DEF LogTypes, TableTypes, ManifestTypes
<1>2. \/ \E l \in DOMAIN logs : x = <<"log", l>> /\ l < v.log
      \/ \E m \in DOMAIN manifests : x = <<"manifest", m>> /\ m < v.manifest
      \/ \E t \in DOMAIN tables : x = <<"table", t>> /\ t \notin v.tables \cup pinned \cup pending
  BY DEF Obsolete
<1> QED BY <1>1, <1>2

LEMMA ProcessTypesStep ==
    ASSUME StoreIInv, [StoreNext]_storeVars
    PROVE  ProcessTypes'
<1> DEFINE Memory == <<up, mem, imm, pinned, bgError>>
           Work == [phase : {"idle", "flush", "merge", "write", "sync", "clean", "open"},
                    of : {"none", "flush", "merge", "open"}, edit : Edits]
           Merges == [num : Nat, inputs : SUBSET Nat]
           Files == {"log", "manifest", "table"} \X Nat
           MemoryType == /\ up \in {"down", "corrupt", "logs", "newlog", "manifest", "current", "clean",
                                    "up", "closing"}
                         /\ mem \in SUBSET Batch /\ (imm = NoTable \/ imm \in SUBSET Batch)
                         /\ pinned \in SUBSET Nat /\ bgError \in BOOLEAN
           WorkType == bg \in Work /\ merge \in Merges /\ garbage \in SUBSET Files
<1>t. /\ WriterTypes /\ VersionType /\ ProcessTypes
      /\ LogTypes /\ TableTypes /\ ManifestTypes /\ LogsBounded
  BY DEF StoreIInv, Types
<1>0. MemoryType /\ WorkType
  BY <1>t DEF ProcessTypes
<1>v. /\ version.tables \in SUBSET Nat /\ version.next \in Nat /\ version.last \in Nat
      /\ version.log \in Nat /\ version.logfile \in Nat
  BY <1>t DEF VersionType
<1>c. NoWork \in Work /\ NoMerge \in Merges /\ NoEdit \in Edits
      /\ [NoWork EXCEPT !.phase = "merge"] \in Work /\ [NoWork EXCEPT !.phase = "flush"] \in Work
      /\ [NoWork EXCEPT !.phase = "clean"] \in Work
  BY Constants DEF NoWork
<1>q. MemoryType' /\ WorkType' => ProcessTypes'
  BY DEF ProcessTypes
<1>1. ASSUME UNCHANGED Memory PROVE MemoryType'
  BY <1>0, <1>1
<1>2. ASSUME UNCHANGED <<bg, merge, garbage>> PROVE WorkType'
  BY <1>0, <1>2
<1>3. ASSUME Gone PROVE MemoryType' /\ WorkType'
  <2>1. MemoryType'
    BY <1>3 DEF Gone
  <2>2. bg' = NoWork /\ merge' = NoMerge /\ garbage' = {}
    BY <1>3 DEF Gone
  <2> QED BY <1>c, <2>1, <2>2
<1>4. ASSUME WriteStep PROVE MemoryType' /\ WorkType'
  <2>1. UNCHANGED <<bg, merge, garbage>>
    BY <1>4 DEF WriteStep, AtFront, RoomError, RoomFound, SwitchMemTable, SwitchFails, AddRecord,
                AddRecordFails, SyncLog, SyncLogFails, InsertInto
  <2>2. CASE SwitchMemTable
    <3>1. UNCHANGED <<up, pinned, bgError>> /\ mem' = {} /\ imm' = mem
      BY <2>2 DEF SwitchMemTable
    <3> QED BY <1>0, <1>2, <2>1, <3>1
  <2>3. CASE InsertInto
    <3>1. UNCHANGED <<up, imm, pinned, bgError>> /\ mem' = mem \cup Numbered
      BY <2>3 DEF InsertInto
    <3>2. Numbered \in SUBSET Batch
      BY <1>t, NumberedType
    <3> QED BY <1>0, <1>2, <2>1, <3>1, <3>2
  <2>4. CASE SyncLogFails
    <3>1. UNCHANGED <<up, mem, imm, pinned>> /\ bgError' = TRUE
      BY <2>4 DEF SyncLogFails
    <3> QED BY <1>0, <1>2, <2>1, <3>1
  <2>5. CASE ~SwitchMemTable /\ ~InsertInto /\ ~SyncLogFails
    <3>1. UNCHANGED Memory
      BY <1>4, <2>5 DEF WriteStep, AtFront, RoomError, RoomFound, SwitchFails, AddRecord,
                        AddRecordFails, SyncLog
    <3> QED BY <1>1, <1>2, <2>1, <3>1
  <2> QED BY <2>2, <2>3, <2>4, <2>5
<1>5. ASSUME GoOn \/ BackgroundDone PROVE bg' \in Work
  BY <1>5, <1>c DEF GoOn, BackgroundDone
<1>6. ASSUME BackgroundStep PROVE MemoryType'
  <2>1. UNCHANGED <<up, mem, pinned>> /\ bgError' \in {bgError, TRUE} /\ imm' \in {imm, NoTable}
    BY <1>6 DEF BackgroundStep, BeginNothing, BeginFlush, BeginMerge, Flush, FlushFails,
                MergeDone, MergeFails, WriteEdit, Install, EditFails, Clean
  <2> QED BY <1>0, <2>1
<1>7. ASSUME BackgroundStep PROVE WorkType'
  <2>1. CASE BeginNothing \/ FlushFails
    <3>1. UNCHANGED <<merge, garbage>> /\ (GoOn \/ BackgroundDone)
      BY <2>1 DEF BeginNothing, FlushFails
    <3> QED BY <1>0, <1>5, <3>1
  <2>2. CASE BeginFlush
    <3>1. UNCHANGED <<merge, garbage>> /\ bg' = [NoWork EXCEPT !.phase = "flush"]
      BY <2>2 DEF BeginFlush
    <3> QED BY <1>0, <1>c, <3>1
  <2>3. CASE BeginMerge
    <3>1. /\ garbage' = garbage /\ bg' = [NoWork EXCEPT !.phase = "merge"]
          /\ merge' = [num |-> version.next, inputs |-> version.tables]
      BY <2>3 DEF BeginMerge
    <3> QED BY <1>0, <1>c, <1>v, <3>1
  <2>4. CASE Flush
    <3> DEFINE e == [NoEdit EXCEPT !.add = IF imm = {} THEN {} ELSE {version.next},
                                   !.log = version.logfile]
    <3>1. UNCHANGED <<merge, garbage>> /\ bg' = [phase |-> "write", of |-> "flush", edit |-> e]
      BY <2>4 DEF Flush
    <3>2. e \in Edits
      BY <1>c, <1>v DEF Edits
    <3> HIDE DEF e
    <3> QED BY <1>0, <3>1, <3>2
  <2>5. CASE MergeDone
    <3> DEFINE e == [NoEdit EXCEPT !.add = {merge.num}, !.del = merge.inputs, !.log = version.log]
    <3>1. UNCHANGED <<merge, garbage>> /\ bg' = [phase |-> "write", of |-> "merge", edit |-> e]
      BY <2>5 DEF MergeDone
    <3>2. e \in Edits
      BY <1>0, <1>c, <1>v DEF Edits
    <3> HIDE DEF e
    <3> QED BY <1>0, <3>1, <3>2
  <2>6. CASE MergeFails \/ EditFails
    <3>1. garbage' = garbage /\ merge' \in {merge, NoMerge} /\ (GoOn \/ BackgroundDone)
      BY <2>6 DEF MergeFails, EditFails
    <3> QED BY <1>0, <1>5, <1>c, <3>1
  <2>7. CASE WriteEdit
    <3> DEFINE e == Complete(bg.edit)
    <3>1. UNCHANGED <<merge, garbage>> /\ bg' = [bg EXCEPT !.phase = "sync", !.edit = e]
      BY <2>7 DEF WriteEdit
    <3>2. e \in Edits
      BY <1>0, <1>v DEF Complete, Edits
    <3> HIDE DEF e
    <3> QED BY <1>0, <3>1, <3>2
  <2>8. CASE Install
    <3>1. /\ merge' \in {merge, NoMerge} /\ bg' = [NoWork EXCEPT !.phase = "clean"]
          /\ garbage' = {} \/ \E v, p : garbage' = Obsolete(v, p)
      BY <2>8 DEF Install
    <3>2. garbage' \in SUBSET Files
      BY <1>t, <3>1, ObsoleteFacts
    <3> QED BY <1>0, <1>c, <3>1, <3>2
  <2>9. CASE Clean
    <3>1. merge' = merge /\ garbage' \subseteq garbage /\ (GoOn \/ bg' = bg)
      BY <2>9 DEF Clean, RemoveFile
    <3> QED BY <1>0, <1>5, <3>1
  <2> QED BY <1>7, <2>1, <2>2, <2>3, <2>4, <2>5, <2>6, <2>7, <2>8, <2>9 DEF BackgroundStep
<1>8. ASSUME OpenStep PROVE MemoryType'
  <2>1. UNCHANGED <<mem, imm, pinned, bgError>>
    BY <1>8 DEF OpenStep, NewDB, RecoverManifest, RecoverLogs, OpenLog, OpenManifest, OpenCurrent,
                OpenDone, process
  <2>2. up' \in {up, "corrupt", "logs", "newlog", "manifest", "current", "clean", "up"}
    BY <1>8 DEF OpenStep, NewDB, RecoverManifest, RecoverLogs, OpenLog, OpenManifest, OpenCurrent,
                OpenDone, process
  <2> QED BY <1>0, <2>1, <2>2
<1>9. ASSUME OpenStep PROVE WorkType'
  <2>1. CASE RecoverLogs
    <3> DEFINE e == [NoEdit EXCEPT !.add = RecoveredTables]
    <3>1. UNCHANGED <<merge, garbage>> /\ bg' = [phase |-> "open", of |-> "open", edit |-> e]
      BY <2>1 DEF RecoverLogs
    <3>2. e \in Edits
      <4>1. RecoveredTables \subseteq Nat
        BY <1>t, RecoveredNumbers
      <4> QED BY <1>c, <4>1 DEF Edits
    <3> HIDE DEF e
    <3> QED BY <1>0, <3>1, <3>2
  <2>2. CASE OpenCurrent
    <3>1. merge' = merge /\ bg' = NoWork /\ garbage' = Obsolete(version', {})
      BY <2>2 DEF OpenCurrent
    <3>2. garbage' \in SUBSET Files
      BY <1>t, <3>1, ObsoleteFacts
    <3> QED BY <1>0, <1>c, <3>1, <3>2
  <2>3. CASE OpenDone
    <3>1. UNCHANGED <<bg, merge>> /\ garbage' \subseteq garbage
      BY <2>3 DEF OpenDone, RemoveFile
    <3> QED BY <1>0, <3>1
  <2>4. CASE NewDB \/ RecoverManifest \/ OpenLog \/ OpenManifest
    <3>1. UNCHANGED <<bg, merge, garbage>>
      BY <2>4 DEF NewDB, RecoverManifest, OpenLog, OpenManifest, process
    <3> QED BY <1>2, <3>1
  <2> QED BY <1>9, <2>1, <2>2, <2>3, <2>4 DEF OpenStep
<1>10. ASSUME Pin \/ Unpin \/ Close PROVE MemoryType' /\ WorkType'
  <2>1. /\ UNCHANGED <<mem, imm, bgError, bg, merge, garbage>>
        /\ up' \in {up, "closing"} /\ pinned' \in {pinned, version.tables, {}}
    BY <1>10 DEF Pin, Unpin, Close
  <2> QED BY <1>0, <1>v, <2>1
<1>11. ASSUME Crash \/ MachineCrash \/ Closed PROVE Gone
  BY <1>11 DEF Crash, MachineCrash, Closed
<1>12. ASSUME (\E w \in Writers : Enqueue(w)) \/ UNCHANGED storeVars
       PROVE  UNCHANGED Memory /\ UNCHANGED <<bg, merge, garbage>>
  BY <1>12 DEF Enqueue, storeVars, process
<1> HIDE DEF MemoryType, WorkType, Memory
<1> QED BY <1>q, <1>1, <1>2, <1>3, <1>4, <1>6, <1>7, <1>8, <1>9, <1>10, <1>11, <1>12 DEF StoreNext

LEMMA TypesStep ==
    ASSUME StoreIInv, [StoreNext]_storeVars
    PROVE  Types'
<1>1. WriterTypes /\ VersionType /\ LogTypes /\ LogsBounded
  BY DEF StoreIInv, Types
<1>2. WriterTypes' /\ LogTypes' /\ LogsBounded'
  BY <1>1, WriterTypesStep, LogStep, LogsBoundedStep
<1>3. VersionType' /\ ManifestTypes' /\ ProcessTypes' /\ TableTypes'
  BY VersionTypeStep, ManifestTypesStep, ProcessTypesStep, TableTypesStep
<1> QED BY <1>2, <1>3 DEF Types

-----------------------------------------------------------------------------
(* The phases of the process.                                                  *)

LEMMA PhasesStep ==
    ASSUME StoreIInv, [StoreNext]_storeVars
    PROVE  PhasesInv'
<1>t. VersionType /\ ProcessTypes /\ PhasesInv
  BY DEF StoreIInv, Types
<1>f. /\ NoWork.phase = "idle" /\ NoWork.edit = NoEdit /\ NoEdit.del = {} /\ NoMerge.num = 0
      /\ NoLead.phase = "none"
      /\ [NoWork EXCEPT !.phase = "merge"].phase = "merge"
      /\ [NoWork EXCEPT !.phase = "merge"].edit = NoEdit
      /\ [NoWork EXCEPT !.phase = "flush"].phase = "flush"
      /\ [NoWork EXCEPT !.phase = "flush"].edit = NoEdit
      /\ [NoWork EXCEPT !.phase = "clean"].phase = "clean"
      /\ [NoWork EXCEPT !.phase = "clean"].edit = NoEdit
  BY DEF NoWork, NoEdit, NoMerge, NoLead
<1>b. behind \in Behinds /\ (Running /\ behind # "nothing" => bgError) /\ bgError \in BOOLEAN
  BY <1>t DEF PhasesInv, ProcessTypes
<1>1. ASSUME Gone, behind' \in {behind, "nothing"} PROVE PhasesInv'
  <2>1. behind' \in Behinds
    BY <1>1, <1>b DEF Behinds
  <2> QED BY <1>1, <1>f, <2>1 DEF Gone, PhasesInv, Opening, Running
<1>2. ASSUME up \in {"up", "closing"}, up' \in {"up", "closing"}, current' = current,
             version'.manifest = version.manifest, bg'.phase # "open",
             bg'.phase \notin {"write", "sync", "open"} => bg'.edit = NoEdit,
             garbage' # {} => bg'.phase = "clean",
             merge' = NoMerge \/ merge'.num > 0, bg'.phase = "merge" => merge' # NoMerge,
             behind' \in Behinds, behind' # "nothing" => bgError'
      PROVE  PhasesInv'
  BY <1>t, <1>2 DEF PhasesInv, Opening, Running
<1>3. ASSUME up \in {"up", "closing"}, up' \in {"up", "closing"},
             UNCHANGED <<bg, merge, garbage, current, behind>>,
             version'.manifest = version.manifest, bgError => bgError'
      PROVE  PhasesInv'
  <2>1. behind' \in Behinds /\ (behind' # "nothing" => bgError')
    BY <1>3, <1>b DEF Running
  <2> QED BY <1>t, <1>2, <1>3, <2>1 DEF PhasesInv, Running
<1>4. ASSUME WriteStep PROVE PhasesInv'
  <2>1. /\ UNCHANGED <<up, bg, merge, garbage, current, behind>>
        /\ lead.phase # "none" \/ queue # <<>>
        /\ bgError => bgError'
    BY <1>4 DEF WriteStep, AtFront, RoomError, RoomFound, SwitchMemTable, SwitchFails, AddRecord,
                AddRecordFails, SyncLog, SyncLogFails, InsertInto, Switches, disk
  <2>2. version'.manifest = version.manifest
    <3>1. \/ version' = version
          \/ version' = [version EXCEPT !.last = @ + GroupCount]
          \/ version' = [version EXCEPT !.logfile = version.next, !.next = @ + 1]
      BY <1>4 DEF WriteStep, AtFront, RoomError, RoomFound, SwitchMemTable, SwitchFails, AddRecord,
                  AddRecordFails, SyncLog, SyncLogFails, InsertInto
    <3> QED BY <1>t, <3>1 DEF VersionType
  <2>3. up \in {"up", "closing"}
    BY <1>f, <1>t, <2>1 DEF PhasesInv
  <2> QED BY <1>3, <2>1, <2>2, <2>3
<1>5. ASSUME GoOn \/ BackgroundDone
      PROVE  /\ bg'.phase \in {"idle", "merge"} /\ bg'.edit = NoEdit
             /\ GoOn => (bg'.phase = "merge" => merge' # NoMerge)
             /\ BackgroundDone => bg'.phase = "idle"
  BY <1>5, <1>f DEF GoOn, BackgroundDone
<1>6. ASSUME BackgroundStep PROVE PhasesInv'
  <2>1. UNCHANGED <<up, current>> /\ up \in {"up", "closing"}
    <3>1. BeginNothing \/ BeginFlush \/ BeginMerge => up \in {"up", "closing"}
      BY DEF BeginNothing, BeginFlush, BeginMerge, Begins
    <3>2. ~BeginNothing /\ ~BeginFlush /\ ~BeginMerge => bg.phase \notin {"idle", "open"}
      BY <1>6 DEF BackgroundStep, Flush, FlushFails, MergeDone, MergeFails, WriteEdit, Install,
                  EditFails, Clean, Flushing, Busy
    <3>3. UNCHANGED <<up, current>>
      BY <1>6 DEF BackgroundStep, BeginNothing, BeginFlush, BeginMerge, Flush, FlushFails, MergeDone,
                  MergeFails, WriteEdit, Install, EditFails, Clean, disk
    <3> QED BY <1>t, <3>1, <3>2, <3>3, BusyRuns
  <2>2. version'.manifest = version.manifest
    <3>1. \/ version' = version \/ version' = [version EXCEPT !.next = @ + 1]
          \/ version' = [version EXCEPT !.tables = Applied(@, bg.edit), !.log = bg.edit.log]
      BY <1>6 DEF BackgroundStep, BeginNothing, BeginFlush, BeginMerge, Flush, FlushFails, MergeDone,
                  MergeFails, WriteEdit, Install, EditFails, Clean
    <3> QED BY <1>t, <3>1 DEF VersionType
  <2>3. ASSUME ~Busy("clean") PROVE garbage = {}
    BY <1>t, <2>1, <2>3 DEF PhasesInv, Busy
  <2>4. merge = NoMerge \/ merge.num > 0
    BY <1>t DEF PhasesInv
  <2>15. behind' \in Behinds /\ (behind' # "nothing" => bgError')
    <3>1. behind # "nothing" => bgError
      BY <1>b, <2>1 DEF Running
    <3>2. CASE ~WriteEdit /\ ~Install /\ ~EditFails
      <4>1. behind' = behind /\ bgError' \in {bgError, TRUE}
        BY <1>6, <3>2 DEF BackgroundStep, BeginNothing, BeginFlush, BeginMerge, Flush, FlushFails,
                          MergeDone, MergeFails, Clean, disk
      <4> QED BY <1>b, <3>1, <4>1
    <3>3. CASE WriteEdit \/ Install
      <4>1. /\ behind' \in {behind, "record", "synced"} /\ bgError' = bgError
            /\ behind = "nothing" => behind' = behind
        BY <3>3 DEF WriteEdit, Install
      <4> QED BY <1>b, <3>1, <4>1 DEF Behinds
    <3>4. CASE EditFails
      <4>1. bgError' = TRUE /\ behind' \in {behind, "nothing", "part", "record"}
        BY <3>4 DEF EditFails, PartOfRecord
      <4> QED BY <1>b, <4>1 DEF Behinds
    <3> QED BY <3>2, <3>3, <3>4
  <2>5. CASE BeginNothing
    <3>1. UNCHANGED <<merge, garbage>> /\ BackgroundDone /\ ~Busy("clean")
      BY <2>5 DEF BeginNothing, Begins, Busy
    <3> QED BY <1>2, <2>15, <1>5, <2>1, <2>2, <2>3, <2>4, <3>1
  <2>6. CASE BeginFlush
    <3>1. UNCHANGED <<merge, garbage>> /\ bg' = [NoWork EXCEPT !.phase = "flush"] /\ ~Busy("clean")
      BY <2>6 DEF BeginFlush, Begins, Busy
    <3> QED BY <1>2, <2>15, <1>f, <2>1, <2>2, <2>3, <2>4, <3>1
  <2>7. CASE BeginMerge
    <3>1. /\ garbage' = garbage /\ bg' = [NoWork EXCEPT !.phase = "merge"] /\ ~Busy("clean")
          /\ merge' = [num |-> version.next, inputs |-> version.tables]
      BY <2>7 DEF BeginMerge, Begins, Busy
    <3>2. version.next > 1 /\ version.next \in Nat
      BY <1>t DEF StoreIInv, NumbersInv, FileNumbers, VersionType
    <3>3. merge'.num > 0 /\ merge' # NoMerge
      BY <3>1, <3>2 DEF NoMerge
    <3> QED BY <1>2, <2>15, <1>f, <2>1, <2>2, <2>3, <3>1, <3>3
  <2>8. CASE Flush \/ MergeDone
    <3>1. UNCHANGED <<merge, garbage>> /\ bg'.phase = "write" /\ ~Busy("clean")
      BY <2>8 DEF Flush, MergeDone, Flushing, Busy
    <3> QED BY <1>2, <2>15, <2>1, <2>2, <2>3, <2>4, <3>1
  <2>9. CASE FlushFails
    <3>1. UNCHANGED <<merge, garbage>> /\ GoOn /\ ~Busy("clean")
      BY <2>9 DEF FlushFails, Flushing, Busy
    <3> QED BY <1>2, <2>15, <1>5, <2>1, <2>2, <2>3, <2>4, <3>1
  <2>10. CASE MergeFails
    <3>1. garbage' = garbage /\ merge' = NoMerge /\ BackgroundDone /\ ~Busy("clean")
      BY <2>10 DEF MergeFails, Busy
    <3> QED BY <1>2, <2>15, <1>5, <2>1, <2>2, <2>3, <3>1
  <2>11. CASE WriteEdit
    <3>1. UNCHANGED <<merge, garbage>> /\ ~Busy("clean")
          /\ bg' = [bg EXCEPT !.phase = "sync", !.edit = Complete(bg.edit)]
      BY <2>11 DEF WriteEdit, Busy
    <3>2. bg'.phase = "sync"
      BY <1>t, <3>1 DEF ProcessTypes
    <3> QED BY <1>2, <2>15, <2>1, <2>2, <2>3, <2>4, <3>1, <3>2
  <2>12. CASE Install
    <3>1. merge' \in {merge, NoMerge} /\ bg' = [NoWork EXCEPT !.phase = "clean"]
      BY <2>12 DEF Install
    <3> QED BY <1>2, <2>15, <1>f, <2>1, <2>2, <2>4, <3>1
  <2>13. CASE EditFails
    <3>1. garbage' = garbage /\ merge' \in {merge, NoMerge} /\ GoOn /\ ~Busy("clean")
      BY <2>13 DEF EditFails, Busy
    <3> QED BY <1>2, <2>15, <1>5, <2>1, <2>2, <2>3, <2>4, <3>1
  <2>14. CASE Clean
    <3>1. Busy("clean") /\ merge' = merge
      BY <2>14 DEF Clean
    <3>2. CASE garbage # {}
      <4>1. bg' = bg
        BY <2>14, <3>2 DEF Clean
      <4>2. bg.edit = NoEdit
        BY <1>t, <3>1 DEF PhasesInv, Busy
      <4> QED BY <1>2, <2>15, <2>1, <2>2, <2>4, <3>1, <4>1, <4>2 DEF Busy
    <3>3. CASE garbage = {}
      <4>1. garbage' = {} /\ GoOn
        BY <2>14, <3>3 DEF Clean
      <4> QED BY <1>2, <2>15, <1>5, <2>1, <2>2, <2>4, <3>1, <4>1
    <3> QED BY <3>2, <3>3
  <2> QED BY <1>6, <2>5, <2>6, <2>7, <2>8, <2>9, <2>10, <2>11, <2>12, <2>13, <2>14 DEF BackgroundStep
<1>7. ASSUME OpenStep PROVE PhasesInv'
  <2>1. CASE NewDB
    <3>1. UNCHANGED process /\ up = "down" /\ behind' = behind
      BY <2>1 DEF NewDB
    <3> QED BY <1>t, <3>1 DEF process, PhasesInv, Opening, Running
  <2>2. CASE RecoverManifest
    <3>1. /\ UNCHANGED <<queue, lead, mem, imm, pinned, bgError, bg, merge, garbage>>
          /\ up = "down" /\ (up' = "logs" \/ (up' = "corrupt" /\ version' = version))
          /\ behind' = behind
      BY <2>2 DEF RecoverManifest, disk
    <3> QED BY <1>f, <1>t, <3>1 DEF PhasesInv, Opening, Running
  <2>3. CASE RecoverLogs
    <3>1. /\ UNCHANGED <<queue, lead, mem, imm, pinned, bgError, merge, garbage>>
          /\ up = "logs" /\ up' = "newlog" /\ behind' = behind
          /\ bg' = [phase |-> "open", of |-> "open", edit |-> [NoEdit EXCEPT !.add = RecoveredTables]]
      BY <2>3 DEF RecoverLogs
    <3>2. bg'.phase = "open" /\ bg'.edit.del = {}
      BY <3>1 DEF NoEdit
    <3> QED BY <1>t, <3>1, <3>2 DEF PhasesInv, Opening, Running
  <2>4. CASE OpenLog \/ OpenManifest
    <3>1. /\ UNCHANGED <<queue, lead, mem, imm, pinned, bgError, bg, merge, garbage>>
          /\ up \in {"newlog", "manifest"} /\ up' \in {"manifest", "current"}
          /\ behind' = behind
      BY <2>4 DEF OpenLog, OpenManifest
    <3> QED BY <1>t, <3>1 DEF PhasesInv, Opening, Running
  <2>5. CASE OpenCurrent
    <3>1. /\ UNCHANGED <<queue, lead, mem, imm, pinned, bgError, merge>>
          /\ up = "current" /\ up' = "clean" /\ bg' = NoWork /\ current' = version.manifest
          /\ behind' = "nothing"
          /\ version' = [version EXCEPT !.tables = Applied(@, bg.edit), !.log = version.logfile]
      BY <2>5 DEF OpenCurrent
    <3>2. version'.manifest = version.manifest /\ version.manifest # 0
      BY <1>t, <3>1 DEF VersionType, StoreIInv, AgreeInv
    <3> QED BY <1>f, <1>t, <3>1, <3>2 DEF PhasesInv, Opening, Running, Behinds
  <2>6. CASE OpenDone
    <3>1. /\ UNCHANGED <<queue, lead, mem, imm, version, pinned, bgError, bg, merge, current, behind>>
          /\ up = "clean"
          /\ (garbage # {} /\ up' = up) \/ (garbage' = {} /\ up' = "up")
      BY <2>6 DEF OpenDone
    <3> QED BY <1>f, <1>t, <3>1 DEF PhasesInv, Opening, Running
  <2> QED BY <1>7, <2>1, <2>2, <2>3, <2>4, <2>5, <2>6 DEF OpenStep
<1>8. ASSUME NEW w \in Writers, Enqueue(w) PROVE PhasesInv'
  BY <1>3, <1>8 DEF Enqueue, disk
<1>9. ASSUME Pin \/ Unpin \/ Close PROVE PhasesInv'
  <2>1. /\ UNCHANGED <<bg, merge, garbage, current, version, bgError, behind>>
        /\ up' \in {up, "closing"}
    BY <1>9 DEF Pin, Unpin, Close, disk
  <2>2. up \in {"up", "closing"}
    BY <1>9, <1>t DEF Pin, Unpin, Close, PhasesInv
  <2> QED BY <1>3, <2>1, <2>2
<1>10. ASSUME Crash \/ MachineCrash \/ Closed PROVE Gone /\ behind' \in {behind, "nothing"}
  BY <1>10 DEF Crash, MachineCrash, Closed, disk
<1>11. ASSUME UNCHANGED storeVars PROVE PhasesInv'
  BY <1>11, <1>t DEF storeVars, process, disk, PhasesInv, Opening, Running
<1> QED BY <1>1, <1>4, <1>6, <1>7, <1>8, <1>9, <1>10, <1>11 DEF StoreNext

-----------------------------------------------------------------------------
(* Files and their numbers.                                                    *)

LEMMA ManifestUnchanged ==
    ASSUME current' = current, manifests'[current] = manifests[current]
    PROVE  /\ Current' = Current /\ Lengths' = Lengths
           /\ \A n \in Lengths : Prefix(n)' = Prefix(n)
           /\ ManifestTables' = ManifestTables
<1>1. Current' = Current
  BY DEF Current
<1>2. Lengths' = Lengths
  BY <1>1 DEF Lengths
<1>3. \A n \in Lengths : Prefix(n)' = Prefix(n)
  BY <1>1 DEF Prefix
<1>4. ManifestTables' = ManifestTables
  BY <1>2, <1>3 DEF ManifestTables, TablesOf
<1> QED BY <1>1, <1>2, <1>3, <1>4

\* What is needed and what the edits of the manifest are numbers of.
LEMMA NumberFacts ==
    ASSUME StoreIInv
    PROVE  /\ Needed \in SUBSET Nat /\ Needed \subseteq DOMAIN tables
           /\ version.next \in Nat /\ version.last \in Nat /\ version.manifest \in Nat
           /\ version.logfile \in Nat /\ version.log \in Nat /\ version.tables \in SUBSET Nat
           /\ bg.edit \in Edits /\ bg.edit.log \in Nat /\ current \in Nat
           /\ \A n \in Lengths \ {0} :
                 n \in 1 .. Len(Current) /\ Current[n] \in Edits /\ Last(Current) \in Edits
           /\ \A n \in Lengths : n \in 0 .. Len(Current) /\ Prefix(n) \in Seq(Edits)
                                 /\ TablesOf(Prefix(n)) \subseteq ManifestTables
           /\ current # 0 => Prefix(Len(Current)) = Current
<1>t. Types
  BY DEF StoreIInv
<1>1. /\ Needed \in SUBSET Nat /\ Needed \subseteq DOMAIN tables
  BY <1>t DEF StoreIInv, FilesInv, Types, TableTypes
<1>2. /\ version.next \in Nat /\ version.last \in Nat /\ version.manifest \in Nat
      /\ version.logfile \in Nat /\ version.log \in Nat /\ version.tables \in SUBSET Nat
  BY <1>t DEF Types, VersionType
<1>3. bg.edit \in Edits /\ bg.edit.log \in Nat
  <2>1. bg.edit \in Edits
    BY <1>t DEF Types, ProcessTypes
  <2> QED BY <2>1 DEF Edits
<1>4. current \in Nat
  BY <1>t DEF Types, ManifestTypes
<1>5. CASE current = 0
  BY <1>1, <1>2, <1>3, <1>4, <1>5 DEF Lengths
<1>6. CASE current # 0
  <2>1. /\ Current \in Seq(Edits) /\ Len(Current) \in Nat /\ Lengths \subseteq 0 .. Len(Current)
        /\ Current # <<>> => Last(Current) \in Edits
    BY <1>t, <1>6, ManifestFacts DEF Types
  <2>2. ASSUME NEW n \in Lengths \ {0}
        PROVE  n \in 1 .. Len(Current) /\ Current[n] \in Edits /\ Last(Current) \in Edits
    BY <2>1
  <2>3. ASSUME NEW n \in Lengths
        PROVE  n \in 0 .. Len(Current) /\ Prefix(n) \in Seq(Edits)
               /\ TablesOf(Prefix(n)) \subseteq ManifestTables
    <3>1. n \in 0 .. Len(Current)
      BY <2>1
    <3>2. Prefix(n) \in Seq(Edits)
      BY <2>1, <3>1, PrefixFacts DEF Prefix
    <3> QED BY <3>1, <3>2 DEF ManifestTables
  <2>4. Prefix(Len(Current)) = Current
    BY <2>1, SubSeqFull DEF Prefix
  <2> QED BY <1>1, <1>2, <1>3, <1>4, <2>2, <2>3, <2>4
<1> QED BY <1>5, <1>6

\* A step of the running store that leaves the manifest of CURRENT alone.
LEMMA RunningStep ==
    ASSUME StoreIInv, Types', PhasesInv', Running, Running',
           current' = current, manifests'[current] = manifests[current],
           version'.tables = version.tables, version'.log = version.log,
           version'.manifest = version.manifest, version.next <= version'.next,
           version.last <= version'.last, version.logfile <= version'.logfile,
           version'.logfile < version'.next,
           \A t \in Needed : t \in DOMAIN tables',
           garbage' \subseteq garbage,
           ProcessTables' \subseteq Needed \/ garbage' = {},
           \A t \in ProcessTables' \ Needed : t \in DOMAIN tables' /\ t < version'.next,
           bg'.edit.log <= version'.logfile,
           ~bgError' => /\ ~bgError /\ (bg'.phase = "sync" <=> bg.phase = "sync")
                        /\ (bg.phase = "sync" => bg'.edit = bg.edit)
    PROVE  /\ FilesInv' /\ AgreeInv' /\ NumbersInv'
           /\ Needed' \subseteq Needed \cup ProcessTables'
<1>f. /\ Current' = Current /\ Lengths' = Lengths
      /\ \A n \in Lengths : Prefix(n)' = Prefix(n)
      /\ ManifestTables' = ManifestTables
  BY ManifestUnchanged
<1>i. FilesInv /\ AgreeInv /\ NumbersInv
  BY DEF StoreIInv
<1>n. /\ Needed \in SUBSET Nat /\ version.next \in Nat /\ version.last \in Nat
      /\ version.logfile \in Nat /\ version.manifest \in Nat
      /\ version'.next \in Nat /\ version'.last \in Nat /\ version'.logfile \in Nat
      /\ \A n \in Lengths \ {0} :
            n \in 1 .. Len(Current) /\ Current[n] \in Edits /\ Last(Current) \in Edits
  <2>1. VersionType'
    BY DEF Types
  <2>2. version'.next \in Nat /\ version'.last \in Nat /\ version'.logfile \in Nat
    BY <2>1 DEF VersionType
  <2> QED BY <2>2, NumberFacts
<1>1. Needed' \subseteq DOMAIN tables' /\ \A t \in Needed' : t < version'.next
  <2>1. ASSUME NEW t \in Needed PROVE t < version'.next
    <3>1. t < version.next /\ t \in Nat
      BY <1>i, <1>n DEF NumbersInv, VersionNumbers
    <3> QED BY <1>n, <3>1
  <2>2. Needed' = ManifestTables \cup ProcessTables'
    BY <1>f DEF Needed
  <2>3. ManifestTables \subseteq Needed
    BY DEF Needed
  <2> QED BY <2>1, <2>2, <2>3
<1>2. \A t \in Needed' : <<"table", t>> \notin garbage'
  <2>1. Needed' = ManifestTables \cup ProcessTables' /\ ManifestTables \subseteq Needed
    BY <1>f DEF Needed
  <2> QED BY <1>i, <2>1 DEF FilesInv
<1>3. FilesInv'
  <2>1. ~Opening'
    BY DEF Running, Opening
  <2> QED BY <1>1, <1>2, <1>i, <2>1 DEF FilesInv
<1>4. AgreeInv'
  <2>1. up' # "current"
    BY DEF Running
  <2>2. TablesOf(Current)' = TablesOf(Current)
    BY <1>f DEF TablesOf
  <2>3. Applied(version.tables, bg.edit)' = Applied(version'.tables, bg'.edit)
    BY DEF Applied
  <2> QED BY <1>i, <2>1, <2>2, <2>3 DEF AgreeInv
<1>5. NumbersInv'
  <2>1. EditNumbers'
    <3>1. \A n \in Lengths : TablesOf(Prefix(n))' = TablesOf(Prefix(n))
      BY <1>f DEF TablesOf
    <3>2. Last(Current)' = Last(Current)
      BY <1>f DEF Last
    <3> QED BY <1>f, <1>i, <3>1, <3>2 DEF NumbersInv, EditNumbers
  <2>2. VersionNumbers'
    <3>1. Last(Current)' = Last(Current) /\ Lengths \ {0} # {}
          /\ Last(Current).next <= version.next /\ Last(Current).last <= version.last
      BY <1>f, <1>i DEF Last, NumbersInv, VersionNumbers
    <3>2. Last(Current).next \in Nat /\ Last(Current).last \in Nat
      BY <1>n, <3>1 DEF Edits
    <3>3. Last(Current).next <= version'.next /\ Last(Current).last <= version'.last
      BY <1>n, <3>1, <3>2
    <3> QED BY <1>1, <1>f, <3>1, <3>3 DEF VersionNumbers
  <2>3. FileNumbers'
    <3>1. version.next > 1 /\ version.manifest < version.next /\ ~Opening'
      BY <1>i DEF NumbersInv, FileNumbers, Running, Opening
    <3>2. version'.next > 1 /\ version'.manifest < version'.next
      BY <1>n, <3>1
    <3> QED BY <3>1, <3>2 DEF FileNumbers
  <2>4. OpenedNumbers'
    BY DEF OpenedNumbers, Running
  <2>5. LogNumbers'
    <3>1. version.log <= version.logfile /\ version.log \in Nat
      BY <1>i, NumberFacts DEF NumbersInv, LogNumbers
    <3>2. version'.log <= version'.logfile
      BY <1>n, <3>1
    <3>3. ASSUME NEW n \in Lengths \ {0} PROVE Current[n].log <= version'.logfile
      <4>1. Current[n].log <= version.logfile /\ Current[n].log \in Nat
        BY <1>i, <1>n DEF NumbersInv, LogNumbers, Edits
      <4> QED BY <1>n, <4>1
    <3> QED BY <1>f, <3>2, <3>3 DEF LogNumbers
  <2> QED BY <2>1, <2>2, <2>3, <2>4, <2>5 DEF NumbersInv
<1>6. Needed' \subseteq Needed \cup ProcessTables'
  BY <1>f DEF Needed
<1> QED BY <1>3, <1>4, <1>5, <1>6

\* The process is gone: nothing is needed but what the manifest names.
LEMMA GoneStep ==
    ASSUME StoreIInv, Types', Gone, tables' = tables, current' = current,
           \/ current = 0 \/ manifests'[current] = manifests[current]
           \/ \E cut \in Lengths :
                 manifests'[current] = [edits |-> Prefix(cut), synced |-> cut]
    PROVE  FilesInv' /\ AgreeInv' /\ NumbersInv' /\ Needed' \subseteq Needed
<1>i. FilesInv /\ NumbersInv
  BY DEF StoreIInv
<1>g. /\ up' = "down" /\ version' = NoVersion /\ pinned' = {} /\ merge' = NoMerge /\ bg' = NoWork
      /\ garbage' = {}
  BY DEF Gone
<1>p. ProcessTables' = {}
  BY <1>g DEF ProcessTables, NoVersion, NoMerge, NoWork, NoEdit
<1>o. ~Opening' /\ ~Running' /\ up' # "current" /\ up' # "manifest"
  BY <1>g DEF Opening, Running
<1>r. AgreeInv' /\ VersionNumbers' /\ OpenedNumbers' /\ LogNumbers'
  BY <1>o DEF AgreeInv, VersionNumbers, OpenedNumbers, LogNumbers
<1>n. FileNumbers'
  <2>1. version'.next = 2 /\ version'.manifest = 0
    BY <1>g DEF NoVersion
  <2> QED BY <1>o, <2>1 DEF FileNumbers
<1>e. ASSUME ManifestTables' \subseteq ManifestTables,
             current \notin {0, 1} => manifests'[current].synced > 0
      PROVE  FilesInv' /\ Needed' \subseteq Needed
  BY <1>e, <1>g, <1>i, <1>o, <1>p DEF FilesInv, Needed
<1>0. CASE current = 0
  <2>1. Lengths' = {}
    BY <1>0 DEF Lengths
  <2>2. EditNumbers' /\ ManifestTables' = {}
    BY <2>1 DEF EditNumbers, ManifestTables
  <2>3. FilesInv' /\ Needed' \subseteq Needed
    BY <1>0, <1>e, <2>2
  <2> QED BY <1>r, <1>n, <2>2, <2>3 DEF NumbersInv
<1>1. CASE manifests'[current] = manifests[current]
  <2>1. /\ Current' = Current /\ Lengths' = Lengths
        /\ \A n \in Lengths : Prefix(n)' = Prefix(n)
        /\ ManifestTables' = ManifestTables
    BY <1>1, ManifestUnchanged
  <2>2. EditNumbers'
    <3>1. \A n \in Lengths : TablesOf(Prefix(n))' = TablesOf(Prefix(n))
      BY <2>1 DEF TablesOf
    <3>2. Last(Current)' = Last(Current)
      BY <2>1 DEF Last
    <3> QED BY <1>i, <2>1, <3>1, <3>2 DEF NumbersInv, EditNumbers
  <2>3. FilesInv' /\ Needed' \subseteq Needed
    BY <1>1, <1>e, <1>i, <2>1 DEF FilesInv
  <2> QED BY <1>r, <1>n, <2>2, <2>3 DEF NumbersInv
<1>2. ASSUME NEW cut \in Lengths, manifests'[current] = [edits |-> Prefix(cut), synced |-> cut]
      PROVE  FilesInv' /\ EditNumbers' /\ Needed' \subseteq Needed
  <2>1. /\ current # 0 /\ Current \in Seq(Edits) /\ Len(Current) \in Nat
        /\ cut \in 0 .. Len(Current) /\ manifests[current].synced <= cut
        /\ manifests[current].synced \in Nat
    <3>1. current # 0
      BY DEF Lengths
    <3>2. ManifestTypes
      BY DEF StoreIInv, Types
    <3> QED BY <3>1, <3>2, ManifestFacts
  <2>2. /\ Current' = Prefix(cut) /\ manifests'[current].synced = cut
        /\ Prefix(cut) \in Seq(Edits) /\ Len(Prefix(cut)) = cut
        /\ \A i \in 1 .. cut : Prefix(cut)[i] = Current[i]
    BY <1>2, <2>1, PrefixFacts DEF Current, Prefix
  <2>3. Lengths' = {cut}
    BY <2>1, <2>2 DEF Lengths
  <2>4. Prefix(cut)' = Prefix(cut)
    <3>1. SubSeq(Prefix(cut), 1, cut) = Prefix(cut)
      BY <2>2, SubSeqFull
    <3> QED BY <2>2, <3>1 DEF Prefix
  <2>5. TablesOf(Prefix(cut))' = TablesOf(Prefix(cut))
    BY <2>4 DEF TablesOf
  <2>6. ManifestTables' = TablesOf(Prefix(cut)) /\ ManifestTables' \subseteq ManifestTables
    BY <2>3, <2>5 DEF ManifestTables
  <2>7. current \notin {0, 1} => manifests'[current].synced > 0
    BY <1>i, <2>1, <2>2 DEF FilesInv
  <2>8. ASSUME cut # 0
        PROVE  /\ Current'[cut] = Current[cut] /\ Last(Current)' = Current[cut]
               /\ Current[cut].next \in Nat /\ Current[cut].last \in Nat
    <3>1. cut \in 1 .. cut /\ cut \in 1 .. Len(Current) /\ Current[cut] \in Edits
      BY <2>1, <2>8
    <3>2. Last(Current)' = Current'[Len(Current')]
      BY DEF Last
    <3>3. Len(Current') = cut
      BY <2>2
    <3> QED BY <2>2, <3>1, <3>2, <3>3 DEF Edits
  <2>9. EditNumbers'
    <3>1. ASSUME cut # 0
          PROVE  /\ Current'[cut].next > 1 /\ current' < Current'[cut].next
                 /\ \A t \in TablesOf(Prefix(cut)) : t < Current'[cut].next
                 /\ Current'[cut].next <= Last(Current)'.next
                 /\ Current'[cut].last <= Last(Current)'.last
      BY <1>i, <2>8, <3>1 DEF NumbersInv, EditNumbers
    <3>2. ASSUME NEW n \in Lengths' \ {0}
          PROVE  /\ Current'[n].next > 1 /\ current' < Current'[n].next
                 /\ \A t \in TablesOf(Prefix(n))' : t < Current'[n].next
                 /\ Current'[n].next <= Last(Current)'.next
                 /\ Current'[n].last <= Last(Current)'.last
      <4>1. n = cut /\ cut # 0
        BY <2>3
      <4>2. TablesOf(Prefix(n))' = TablesOf(Prefix(cut))
        BY <2>5, <4>1
      <4> QED BY <3>1, <4>1, <4>2
    <3> QED BY <3>2 DEF EditNumbers
  <2> QED BY <1>e, <2>6, <2>7, <2>9
<1>3. CASE \E cut \in Lengths : manifests'[current] = [edits |-> Prefix(cut), synced |-> cut]
  BY <1>2, <1>3, <1>r, <1>n DEF NumbersInv
<1> QED BY <1>0, <1>1, <1>3

LEMMA WritersKeepFiles ==
    ASSUME StoreIInv, Types', PhasesInv',
           WriteStep \/ Pin \/ Unpin \/ Close \/ (\E w \in Writers : Enqueue(w))
    PROVE  FilesInv' /\ AgreeInv' /\ NumbersInv' /\ Needed' \subseteq Needed
<1>t. WriterTypes /\ VersionType /\ PhasesInv /\ NumbersInv
  BY DEF StoreIInv, Types
<1>1. /\ UNCHANGED <<bg, merge, garbage, tables, manifests, current>>
      /\ up' \in {up, "closing"} /\ pinned' \in {pinned, version.tables, {}}
      /\ bgError' \in {bgError, TRUE}
      /\ \/ version' = version
         \/ version' = [version EXCEPT !.last = @ + GroupCount]
         \/ version' = [version EXCEPT !.logfile = version.next, !.next = @ + 1]
  BY DEF WriteStep, AtFront, RoomError, RoomFound, SwitchMemTable, SwitchFails, AddRecord,
         AddRecordFails, SyncLog, SyncLogFails, InsertInto, Pin, Unpin, Close, Enqueue, disk
<1>2. up \in {"up", "closing"}
  <2>1. WriteStep => lead.phase # "none" \/ queue # <<>>
    BY DEF WriteStep, AtFront, RoomError, RoomFound, SwitchMemTable, SwitchFails, AddRecord,
           AddRecordFails, SyncLog, SyncLogFails, InsertInto, Switches
  <2>2. ~WriteStep => up = "up" \/ pinned # {}
    BY DEF Pin, Unpin, Close, Enqueue
  <2>3. NoLead.phase = "none"
    BY DEF NoLead
  <2> QED BY <1>t, <2>1, <2>2, <2>3 DEF PhasesInv
<1>3. Running /\ Running'
  BY <1>1, <1>2 DEF Running
<1>4. /\ version.next \in Nat /\ version.last \in Nat /\ version.logfile \in Nat
      /\ version.logfile < version.next /\ GroupCount \in Nat
      /\ bg.edit.log \in Nat /\ bg.edit.log <= version.logfile
  <2>1. GroupCount \in Nat
    BY <1>t, NumberedType
  <2>2. version.logfile < version.next /\ bg.edit.log <= version.logfile
    BY <1>3, <1>t DEF NumbersInv, FileNumbers, LogNumbers
  <2> QED BY <2>1, <2>2, NumberFacts
<1>5. /\ version'.tables = version.tables /\ version'.log = version.log
      /\ version'.manifest = version.manifest /\ version.next <= version'.next
      /\ version.last <= version'.last /\ version.logfile <= version'.logfile
      /\ version'.logfile < version'.next
  <2>1. CASE version' = version
    BY <1>4, <2>1
  <2>2. CASE version' = [version EXCEPT !.last = @ + GroupCount]
    <3>1. /\ version'.tables = version.tables /\ version'.log = version.log
          /\ version'.manifest = version.manifest /\ version'.next = version.next
          /\ version'.logfile = version.logfile /\ version'.last = version.last + GroupCount
      BY <1>t, <2>2 DEF VersionType
    <3> QED BY <1>4, <3>1
  <2>3. CASE version' = [version EXCEPT !.logfile = version.next, !.next = @ + 1]
    <3>1. /\ version'.tables = version.tables /\ version'.log = version.log
          /\ version'.manifest = version.manifest /\ version'.next = version.next + 1
          /\ version'.logfile = version.next /\ version'.last = version.last
      BY <1>t, <2>3 DEF VersionType
    <3> QED BY <1>4, <3>1
  <2> QED BY <1>1, <2>1, <2>2, <2>3
<1>6. ProcessTables' \subseteq Needed
  BY <1>1, <1>5 DEF ProcessTables, Needed
<1>7. \A t \in Needed : t \in DOMAIN tables'
  BY <1>1, NumberFacts
<1>8. bg'.edit.log <= version'.logfile
  <2>1. VersionType'
    BY DEF Types
  <2>2. version'.logfile \in Nat
    BY <2>1 DEF VersionType
  <2> QED BY <1>1, <1>4, <1>5, <2>2
<1>9. ~bgError' => /\ ~bgError /\ (bg'.phase = "sync" <=> bg.phase = "sync")
                   /\ (bg.phase = "sync" => bg'.edit = bg.edit)
  BY <1>1
<1>10. /\ current' = current /\ manifests'[current] = manifests[current] /\ garbage' \subseteq garbage
  BY <1>1
<1> QED BY <1>3, <1>5, <1>6, <1>7, <1>8, <1>9, <1>10, RunningStep

\* Removing a file that is obsolete removes none that is needed.
LEMMA RemovalKeepsFiles ==
    ASSUME StoreIInv, NEW x \in garbage, RemoveFile(x), Running
    PROVE  /\ manifests'[current] = manifests[current]
           /\ \A t \in Needed : t \in DOMAIN tables'
           /\ garbage' \subseteq garbage
<1>t. ProcessTypes /\ TableTypes /\ ManifestTypes /\ FilesInv /\ PhasesInv
  BY DEF StoreIInv, Types
<1>1. x \in {"log", "manifest", "table"} \X Nat
  BY <1>t DEF ProcessTypes
<1>2. x = <<x[1], x[2]>>
  BY <1>1
<1>3. manifests'[current] = manifests[current]
  <2>1. CASE x[1] # "manifest"
    BY <2>1 DEF RemoveFile
  <2>2. CASE x[1] = "manifest"
    <3>1. x[2] # current
      BY <1>2, <1>t, <2>2 DEF FilesInv
    <3>2. current \in DOMAIN manifests
      BY <1>t, ManifestFacts DEF PhasesInv
    <3>3. manifests' = Without(manifests, x[2])
      BY <2>2 DEF RemoveFile
    <3> QED BY <3>1, <3>2, <3>3 DEF Without
  <2> QED BY <2>1, <2>2
<1>4. ASSUME NEW t \in Needed PROVE t \in DOMAIN tables'
  <2>1. t \in DOMAIN tables /\ <<"table", t>> \notin garbage
    BY <1>t DEF FilesInv
  <2>2. CASE x[1] # "table"
    BY <2>1, <2>2 DEF RemoveFile
  <2>3. CASE x[1] = "table"
    <3>1. x[2] # t
      BY <1>2, <2>1, <2>3
    <3>2. tables' = Without(tables, x[2])
      BY <2>3 DEF RemoveFile
    <3> QED BY <2>1, <3>1, <3>2 DEF Without
  <2> QED BY <2>2, <2>3
<1>5. garbage' \subseteq garbage
  BY DEF RemoveFile
<1> QED BY <1>3, <1>4, <1>5

\* The steps of the background thread that do not touch the manifest.
LEMMA BackgroundKeepsFiles ==
    ASSUME StoreIInv, Types', PhasesInv', BackgroundStep, ~WriteEdit, ~Install
    PROVE  /\ FilesInv' /\ AgreeInv' /\ NumbersInv'
           /\ \A t \in Needed' \ Needed :
                 t = version.next /\ (BeginMerge \/ (Flush /\ imm # {}))
<1>t. VersionType /\ ProcessTypes /\ TableTypes /\ PhasesInv /\ NumbersInv
  BY DEF StoreIInv, Types
<1>1. up \in {"up", "closing"}
  <2>1. BeginNothing \/ BeginFlush \/ BeginMerge => up \in {"up", "closing"}
    BY DEF BeginNothing, BeginFlush, BeginMerge, Begins
  <2>2. ~BeginNothing /\ ~BeginFlush /\ ~BeginMerge => bg.phase \notin {"idle", "open"}
    BY DEF BackgroundStep, Flush, FlushFails, MergeDone, MergeFails, EditFails, Clean, Flushing, Busy
  <2> QED BY <1>t, <2>1, <2>2, BusyRuns
<1>2. UNCHANGED <<up, current>>
  BY DEF BackgroundStep, BeginNothing, BeginFlush, BeginMerge, Flush, FlushFails, MergeDone,
         MergeFails, EditFails, Clean, disk
<1>3. Running /\ Running'
  BY <1>1, <1>2 DEF Running
<1>4. /\ version.next \in Nat /\ version.last \in Nat /\ version.logfile \in Nat
      /\ version.log \in Nat /\ version.log <= version.logfile
      /\ version.logfile < version.next /\ version.next > 1
      /\ Needed \in SUBSET Nat /\ Needed \subseteq DOMAIN tables
      /\ \A t \in Needed : t < version.next
  BY <1>3, <1>t, NumberFacts DEF NumbersInv, VersionNumbers, FileNumbers, LogNumbers
<1>f. NoWork.edit = NoEdit /\ NoEdit.add = {} /\ NoEdit.log = 0 /\ NoMerge.num = 0
      /\ [NoWork EXCEPT !.phase = "merge"].edit = NoEdit
      /\ [NoWork EXCEPT !.phase = "flush"].edit = NoEdit
      /\ [NoWork EXCEPT !.phase = "merge"].phase = "merge" /\ NoWork.phase = "idle"
      /\ [NoWork EXCEPT !.phase = "flush"].phase = "flush"
  BY DEF NoWork, NoEdit, NoMerge
<1>5. ASSUME GoOn \/ BackgroundDone PROVE bg'.edit = NoEdit /\ bg'.phase # "sync"
  BY <1>5, <1>f DEF GoOn, BackgroundDone
<1>6. ASSUME version' = version, pinned' = pinned, merge' \in {merge, NoMerge},
             bg'.edit = NoEdit \/ bg'.edit = bg.edit,
             manifests'[current] = manifests[current], garbage' \subseteq garbage,
             \A t \in Needed : t \in DOMAIN tables',
             ~bgError' => ~bgError /\ bg.phase # "sync" /\ bg'.phase # "sync"
      PROVE  FilesInv' /\ AgreeInv' /\ NumbersInv' /\ Needed' \subseteq Needed
  <2>1. ProcessTables' \subseteq Needed
    <3>1. bg'.edit.add \subseteq bg.edit.add /\ merge'.num \in {merge.num, 0}
      BY <1>6, <1>f
    <3> QED BY <1>6, <3>1 DEF ProcessTables, Needed
  <2>2. bg'.edit.log <= version'.logfile
    <3>1. bg.edit.log <= version.logfile
      BY <1>3, <1>t DEF NumbersInv, LogNumbers
    <3> QED BY <1>4, <1>6, <1>f, <3>1
  <2>3. FilesInv' /\ AgreeInv' /\ NumbersInv' /\ Needed' \subseteq Needed \cup ProcessTables'
    BY <1>2, <1>3, <1>4, <1>6, <2>1, <2>2, RunningStep
  <2> QED BY <2>1, <2>3
<1>7. \A t \in Needed : tables' = tables => t \in DOMAIN tables'
  BY <1>4
<1>8. CASE BeginNothing
  <2>1. /\ UNCHANGED <<version, pinned, merge, garbage, tables, manifests, bgError>>
        /\ BackgroundDone /\ bg.phase = "idle"
    BY <1>8 DEF BeginNothing, Begins, Busy, disk
  <2> QED BY <1>5, <1>6, <1>7, <2>1
<1>9. CASE BeginFlush
  <2>1. /\ UNCHANGED <<version, pinned, merge, garbage, tables, manifests, bgError>>
        /\ bg' = [NoWork EXCEPT !.phase = "flush"] /\ bg.phase = "idle"
    BY <1>9 DEF BeginFlush, Begins, Busy, disk
  <2> QED BY <1>6, <1>7, <1>f, <2>1
<1>10. CASE FlushFails
  <2>1. /\ UNCHANGED <<version, pinned, merge, garbage, manifests>> /\ bgError' = TRUE /\ GoOn
        /\ tables' = tables \/ tables' = With(tables, version.next, imm)
    BY <1>10 DEF FlushFails
  <2>2. \A t \in Needed : t \in DOMAIN tables'
    BY <1>4, <2>1 DEF With
  <2> QED BY <1>5, <1>6, <2>1, <2>2
<1>11. CASE MergeFails
  <2>1. /\ UNCHANGED <<version, pinned, garbage, tables, manifests>> /\ merge' = NoMerge
        /\ bgError' = TRUE /\ BackgroundDone
    BY <1>11 DEF MergeFails, disk
  <2> QED BY <1>5, <1>6, <1>7, <2>1
<1>12. CASE EditFails
  <2>1. /\ UNCHANGED <<version, pinned, garbage, tables, manifests>> /\ merge' \in {merge, NoMerge}
        /\ bgError' = TRUE /\ GoOn
    BY <1>12 DEF EditFails, disk
  <2> QED BY <1>5, <1>6, <1>7, <2>1
<1>13. CASE Clean
  <2>1. UNCHANGED <<version, pinned, merge, bgError>> /\ bg.phase = "clean"
    BY <1>13 DEF Clean, Busy
  <2>2. CASE garbage # {}
    <3>1. bg' = bg /\ \E x \in garbage : RemoveFile(x)
      BY <1>13, <2>2 DEF Clean
    <3> QED BY <1>3, <1>6, <2>1, <3>1, RemovalKeepsFiles
  <2>3. CASE garbage = {}
    <3>1. GoOn /\ UNCHANGED <<manifests, tables, garbage>>
      BY <1>13, <2>3 DEF Clean
    <3> QED BY <1>5, <1>6, <1>7, <2>1, <3>1
  <2> QED BY <2>2, <2>3
<1>14. CASE MergeDone
  <2>1. /\ UNCHANGED <<version, pinned, merge, garbage, tables, manifests, bgError>>
        /\ bg.phase = "merge"
        /\ bg' = [phase |-> "write", of |-> "merge",
                  edit |-> [NoEdit EXCEPT !.add = {merge.num}, !.del = merge.inputs,
                                          !.log = version.log]]
    BY <1>14 DEF MergeDone, Busy, disk
  <2>2. bg'.edit.add = {merge.num} /\ bg'.edit.log = version.log /\ bg'.phase = "write"
    BY <2>1 DEF NoEdit
  <2>3. merge.num # 0
    <3>1. merge.num > 0 /\ merge.num \in Nat
      BY <1>t, <2>1 DEF PhasesInv, ProcessTypes
    <3> QED BY <3>1
  <2>4. ProcessTables' \subseteq Needed
    BY <2>1, <2>2, <2>3 DEF ProcessTables, Needed
  <2>5. /\ manifests'[current] = manifests[current] /\ \A t \in Needed : t \in DOMAIN tables'
    BY <1>4, <2>1
  <2>6. /\ version.next <= version'.next /\ version.last <= version'.last
        /\ version.logfile <= version'.logfile /\ version'.logfile < version'.next
        /\ bg'.edit.log <= version'.logfile
    BY <1>4, <2>1, <2>2
  <2> QED BY <1>2, <1>3, <2>1, <2>2, <2>4, <2>5, <2>6, RunningStep
<1>15. ASSUME NEW T, tables' = With(tables, version.next, T) \/ tables' = tables,
              version' = [version EXCEPT !.next = @ + 1],
              UNCHANGED <<pinned, garbage, manifests, bgError>>,
              bg.phase # "sync", bg.phase # "clean", bg'.phase # "sync",
              bg'.edit.log <= version.logfile,
              \A t \in ProcessTables' \ Needed : t = version.next /\ t \in DOMAIN tables'
       PROVE  FilesInv' /\ AgreeInv' /\ NumbersInv' /\ Needed' \subseteq Needed \cup ProcessTables'
  <2>1. /\ version'.tables = version.tables /\ version'.log = version.log
        /\ version'.manifest = version.manifest /\ version'.next = version.next + 1
        /\ version'.logfile = version.logfile /\ version'.last = version.last
    BY <1>15, <1>t DEF VersionType
  <2>2. garbage' = {}
    BY <1>1, <1>15, <1>t DEF PhasesInv
  <2>3. /\ manifests'[current] = manifests[current] /\ \A t \in Needed : t \in DOMAIN tables'
    BY <1>4, <1>15 DEF With
  <2>4. /\ version.next <= version'.next /\ version.last <= version'.last
        /\ version.logfile <= version'.logfile /\ version'.logfile < version'.next
        /\ bg'.edit.log <= version'.logfile
    BY <1>4, <1>15, <2>1
  <2>5. \A t \in ProcessTables' \ Needed : t \in DOMAIN tables' /\ t < version'.next
    BY <1>4, <1>15, <2>1
  <2> QED BY <1>2, <1>3, <1>15, <2>1, <2>2, <2>3, <2>4, <2>5, RunningStep
<1>16. CASE BeginMerge
  <2>1. /\ UNCHANGED <<pinned, garbage, manifests, bgError>> /\ bg.phase = "idle"
        /\ bg' = [NoWork EXCEPT !.phase = "merge"]
        /\ merge' = [num |-> version.next, inputs |-> version.tables]
        /\ tables' = With(tables, version.next, Contents(version.tables))
        /\ version' = [version EXCEPT !.next = @ + 1]
    BY <1>16 DEF BeginMerge, Begins, Busy
  <2>2. ASSUME NEW t \in ProcessTables' \ Needed PROVE t = version.next
    <3>1. version'.tables = version.tables /\ bg'.edit.add = {} /\ merge'.num = version.next
      BY <1>f, <1>t, <2>1 DEF VersionType
    <3> QED BY <2>1, <3>1 DEF ProcessTables, Needed
  <2>3. version.next \in DOMAIN tables'
    BY <2>1 DEF With
  <2>4. bg'.edit.log <= version.logfile
    BY <1>4, <1>f, <2>1
  <2>5. FilesInv' /\ AgreeInv' /\ NumbersInv' /\ Needed' \subseteq Needed \cup ProcessTables'
    BY <1>15, <1>f, <2>1, <2>2, <2>3, <2>4
  <2> QED BY <1>16, <2>2, <2>5
<1>17. CASE Flush
  <2> DEFINE add == IF imm = {} THEN {} ELSE {version.next}
  <2>1. /\ UNCHANGED <<pinned, garbage, manifests, bgError, merge>> /\ bg.phase \in {"flush", "merge"}
        /\ bg' = [phase |-> "write", of |-> "flush",
                  edit |-> [NoEdit EXCEPT !.add = add, !.log = version.logfile]]
        /\ tables' = IF imm = {} THEN tables ELSE With(tables, version.next, imm)
        /\ version' = [version EXCEPT !.next = @ + 1]
    BY <1>17 DEF Flush, Flushing, Busy
  <2>2. bg'.edit.add = add /\ bg'.edit.log = version.logfile /\ bg'.phase = "write"
    BY <2>1 DEF NoEdit
  <2>3. ASSUME NEW t \in ProcessTables' \ Needed PROVE t = version.next /\ t \in DOMAIN tables' /\ imm # {}
    <3>1. version'.tables = version.tables
      BY <1>t, <2>1 DEF VersionType
    <3>2. t \in add
      BY <2>1, <2>2, <3>1 DEF ProcessTables, Needed
    <3> QED BY <2>1, <3>2 DEF With
  <2>4. bg'.edit.log <= version.logfile
    BY <1>4, <2>2
  <2> HIDE DEF add
  <2>5. FilesInv' /\ AgreeInv' /\ NumbersInv' /\ Needed' \subseteq Needed \cup ProcessTables'
    BY <1>15, <2>1, <2>2, <2>3, <2>4
  <2> QED BY <1>17, <2>3, <2>5
<1> QED BY <1>8, <1>9, <1>10, <1>11, <1>12, <1>13, <1>14, <1>16, <1>17 DEF BackgroundStep

\* The edit is appended: a crash may now also leave it at the end.
LEMMA EditAppendedKeepsFiles ==
    ASSUME StoreIInv, Types', WriteEdit, behind = "nothing"
    PROVE  FilesInv' /\ AgreeInv' /\ NumbersInv' /\ Needed' \subseteq Needed
<1> DEFINE e == Complete(bg.edit)
<1>i. FilesInv /\ AgreeInv /\ NumbersInv /\ ManifestTypes /\ ProcessTypes /\ PhasesInv
  BY DEF StoreIInv, Types
<1>1. /\ UNCHANGED <<up, version, pinned, merge, garbage, bgError, tables, current>>
      /\ bg.phase = "write" /\ bg' = [bg EXCEPT !.phase = "sync", !.edit = e]
      /\ manifests' = [manifests EXCEPT ![version.manifest].edits = Append(@, e)]
  BY DEF WriteEdit, Busy
<1>2. /\ up \in {"up", "closing"} /\ current = version.manifest /\ current # 0
  BY <1>1, <1>i, BusyRuns
<1>3. Running /\ Running' /\ ~Opening' /\ up' # "current"
  BY <1>1, <1>2 DEF Running, Opening
<1>4. /\ current \in DOMAIN manifests /\ manifests[current] \in Manifests
      /\ Current \in Seq(Edits) /\ Len(Current) \in Nat
      /\ manifests[current].synced \in Nat /\ manifests[current].synced <= Len(Current)
      /\ Lengths = manifests[current].synced .. Len(Current)
  BY <1>2, <1>i, ManifestFacts
<1>l. PICK len \in Nat : /\ len = Len(Current) /\ manifests[current].synced <= len
                        /\ Lengths = manifests[current].synced .. len
  BY <1>4
<1>n. /\ Needed \in SUBSET Nat /\ version.next \in Nat /\ version.last \in Nat
      /\ version.logfile \in Nat /\ version.manifest \in Nat /\ bg.edit \in Edits
      /\ \A n \in Lengths \ {0} :
            n \in 1 .. Len(Current) /\ Current[n] \in Edits /\ Last(Current) \in Edits
  BY NumberFacts
<1>v. /\ \A t \in Needed : t < version.next
      /\ Lengths \ {0} # {} /\ Last(Current).next <= version.next
      /\ Last(Current).last <= version.last
      /\ version.next > 1 /\ version.manifest < version.next /\ version.logfile < version.next
      /\ version.log <= version.logfile /\ bg.edit.log <= version.logfile
      /\ \A n \in Lengths \ {0} : Current[n].log <= version.logfile
  BY <1>3, <1>i DEF NumbersInv, VersionNumbers, FileNumbers, LogNumbers
<1>5. /\ e \in Edits /\ e.add = bg.edit.add /\ e.del = bg.edit.del /\ e.log = bg.edit.log
      /\ e.next = version.next /\ e.last = version.last
  BY <1>n DEF Complete, Edits
<1> HIDE DEF e
<1>6. Current' = Append(Current, e) /\ manifests'[current].synced = manifests[current].synced
  BY <1>1, <1>2, <1>4, <1>l DEF Current, Manifests
<1>7. /\ Current' \in Seq(Edits) /\ Len(Current') = len + 1 /\ Current'[len + 1] = e
      /\ \A n \in 1 .. len : Current'[n] = Current[n]
      /\ Last(Current)' = e
  <2>1. /\ Current' \in Seq(Edits) /\ Len(Current') = len + 1 /\ Current'[len + 1] = e
        /\ \A n \in 1 .. len : Current'[n] = Current[n]
    BY <1>4, <1>l, <1>5, <1>6
  <2>2. Last(Current)' = Current'[Len(Current')]
    BY DEF Last
  <2> QED BY <2>1, <2>2
<1> DEFINE S == manifests[current].synced
<1>8. /\ Lengths' = Lengths \cup {len + 1} /\ len + 1 \notin Lengths
  <2>1. Lengths' = S .. len + 1
    <3>1. current' # 0 /\ current' = current
      BY <1>1, <1>2
    <3> QED BY <1>6, <1>7, <3>1 DEF Lengths
  <2>2. S \in Nat /\ S <= len /\ Lengths = S .. len
    BY <1>4, <1>l
  <2> HIDE DEF S
  <2> QED BY <1>4, <1>l, <2>1, <2>2
<1>9. \A n \in Lengths : Prefix(n)' = Prefix(n) /\ TablesOf(Prefix(n))' = TablesOf(Prefix(n))
  <2>1. ASSUME NEW n \in Lengths PROVE Prefix(n)' = Prefix(n)
    <3>1. n \in 0 .. len
      BY <1>4, <1>l
    <3>2. SubSeq(Append(Current, e), 1, n) = SubSeq(Current, 1, n)
      BY <1>4, <1>l, <1>5, <3>1, PrefixFacts
    <3> QED BY <1>6, <3>2 DEF Prefix
  <2>2. ASSUME NEW n \in Lengths PROVE TablesOf(Prefix(n))' = TablesOf(Prefix(n))
    BY <2>1 DEF TablesOf
  <2> QED BY <2>1, <2>2
<1>10. /\ TablesOf(Current)' = Applied(TablesOf(Current), e)
       /\ TablesOf(Prefix(len + 1))' = TablesOf(Current)'
  <2>1. Prefix(len + 1)' = Current'
    <3>1. SubSeq(Current', 1, Len(Current')) = Current'
      BY <1>7, SubSeqFull
    <3> QED BY <1>7, <3>1 DEF Prefix
  <2>2. TablesOf(Append(Current, e)) = Applied(TablesOf(Current), e)
    BY <1>4, <1>l, <1>5, TablesAppend
  <2>3. TablesOf(Current)' = TablesOf(Append(Current, e))
    BY <1>6 DEF TablesOf
  <2>4. TablesOf(Prefix(len + 1))' = TablesOf(Current)'
    BY <2>1 DEF TablesOf
  <2> QED BY <2>2, <2>3, <2>4
<1>11. TablesOf(Current) \subseteq ManifestTables
  <2>1. len \in Lengths /\ Prefix(len) = Current
    BY <1>2, <1>i, <1>l, ManifestFacts, NumberFacts
  <2> QED BY <2>1 DEF ManifestTables
<1>12. Needed' = Needed
  <2>1. ManifestTables' = ManifestTables \cup TablesOf(Current)'
    BY <1>8, <1>9, <1>10 DEF ManifestTables
  <2>2. ProcessTables' = ProcessTables
    <3>1. bg'.edit.add = bg.edit.add
      BY <1>1, <1>5, <1>i DEF ProcessTypes
    <3> QED BY <1>1, <3>1 DEF ProcessTables
  <2>3. TablesOf(Current)' \subseteq ManifestTables \cup bg.edit.add
    BY <1>5, <1>10, <1>11 DEF Applied
  <2> QED BY <2>1, <2>2, <2>3 DEF Needed, ProcessTables
<1>13. FilesInv'
  BY <1>1, <1>3, <1>6, <1>12, <1>i DEF FilesInv
<1>14. AgreeInv'
  <2>1. bg'.phase = "sync" /\ bg'.edit = e
    BY <1>1, <1>i DEF ProcessTypes
  <2>2. ~bgError => TablesOf(Current) = version.tables
    BY <1>1, <1>3, <1>i DEF AgreeInv
  <2>3. Applied(version.tables, bg.edit)' = Applied(version.tables, e)
    BY <1>1, <2>1 DEF Applied
  <2> QED BY <1>1, <1>3, <1>10, <2>1, <2>2, <2>3 DEF AgreeInv
<1>15. EditNumbers'
  <2>1. ASSUME NEW n \in Lengths \ {0}
        PROVE  /\ Current'[n].next > 1 /\ current' < Current'[n].next
               /\ \A t \in TablesOf(Prefix(n))' : t < Current'[n].next
               /\ Current'[n].next <= Last(Current)'.next /\ Current'[n].last <= Last(Current)'.last
    <3>1. n \in 1 .. len /\ Current'[n] = Current[n]
      BY <1>l, <1>n, <1>7
    <3>2. /\ Current[n].next > 1 /\ current < Current[n].next
          /\ \A t \in TablesOf(Prefix(n)) : t < Current[n].next
          /\ Current[n].next <= Last(Current).next /\ Current[n].last <= Last(Current).last
      BY <1>i DEF NumbersInv, EditNumbers
    <3>3. /\ Current[n].next \in Nat /\ Current[n].last \in Nat
          /\ Last(Current).next \in Nat /\ Last(Current).last \in Nat
      BY <1>n DEF Edits
    <3>4. Current[n].next <= e.next /\ Current[n].last <= e.last
      BY <1>n, <1>v, <1>5, <3>2, <3>3
    <3> QED BY <1>1, <1>7, <1>9, <3>1, <3>2, <3>4
  <2>2. /\ Current'[len + 1].next > 1 /\ current' < Current'[len + 1].next
        /\ \A t \in TablesOf(Prefix(len + 1))' : t < Current'[len + 1].next
        /\ Current'[len + 1].next <= Last(Current)'.next
        /\ Current'[len + 1].last <= Last(Current)'.last
    <3>1. TablesOf(Prefix(len + 1))' \subseteq Needed
      BY <1>5, <1>10, <1>11 DEF Applied, Needed, ProcessTables
    <3> QED BY <1>1, <1>2, <1>n, <1>v, <1>5, <1>7, <3>1
  <2>3. ASSUME NEW n \in Lengths' \ {0}
        PROVE  /\ Current'[n].next > 1 /\ current' < Current'[n].next
               /\ \A t \in TablesOf(Prefix(n))' : t < Current'[n].next
               /\ Current'[n].next <= Last(Current)'.next
               /\ Current'[n].last <= Last(Current)'.last
    BY <1>8, <2>1, <2>2
  <2> QED BY <2>3 DEF EditNumbers
<1>16. VersionNumbers' /\ FileNumbers' /\ OpenedNumbers'
  <2>1. VersionNumbers'
    <3>1. Lengths' \ {0} # {}
      BY <1>v, <1>8
    <3> QED BY <1>1, <1>n, <1>v, <1>5, <1>7, <1>12, <3>1 DEF VersionNumbers
  <2> QED BY <1>1, <1>3, <1>v, <2>1 DEF FileNumbers, OpenedNumbers
<1>17. LogNumbers'
  <2>1. ASSUME NEW n \in Lengths' \ {0} PROVE Current'[n].log <= version.logfile
    <3>1. CASE n = len + 1
      BY <1>v, <1>5, <1>7, <3>1
    <3>2. CASE n # len + 1
      <4>1. n \in Lengths \ {0}
      BY <1>8, <3>2
      <4> QED BY <1>l, <1>n, <1>v, <1>7, <4>1
    <3> QED BY <3>1, <3>2
  <2>2. bg'.edit.log = bg.edit.log
    BY <1>1, <1>5, <1>i DEF ProcessTypes
  <2> QED BY <1>1, <1>v, <2>1, <2>2 DEF LogNumbers
<1> QED BY <1>12, <1>13, <1>14, <1>15, <1>16, <1>17 DEF NumbersInv

\* It can also be lost behind a part of another, and leaves the edits as they are.
LEMMA WriteEditKeepsFiles ==
    ASSUME StoreIInv, Types', PhasesInv', WriteEdit
    PROVE  FilesInv' /\ AgreeInv' /\ NumbersInv' /\ Needed' \subseteq Needed
<1>i. NumbersInv /\ ProcessTypes /\ PhasesInv
  BY DEF StoreIInv, Types
<1>1. CASE behind = "nothing"
  BY <1>1, EditAppendedKeepsFiles
<1>2. CASE behind # "nothing"
  <2>1. /\ UNCHANGED <<up, version, pinned, merge, garbage, bgError, tables, manifests, current>>
        /\ bg.phase = "write" /\ bg' = [bg EXCEPT !.phase = "sync", !.edit = Complete(bg.edit)]
    BY <1>2 DEF WriteEdit, Busy
  <2>2. up \in {"up", "closing"}
    BY <1>i, <2>1, BusyRuns
  <2>3. Running /\ Running' /\ bgError
    BY <1>2, <1>i, <2>1, <2>2 DEF Running, PhasesInv
  <2>4. bg'.edit.add = bg.edit.add /\ bg'.edit.log = bg.edit.log
    BY <1>i, <2>1 DEF ProcessTypes, Complete, Edits
  <2>5. ProcessTables' = ProcessTables
    BY <2>1, <2>4 DEF ProcessTables
  <2>6. ProcessTables' \subseteq Needed
    BY <2>5 DEF Needed
  <2>7. /\ version.next <= version'.next /\ version.last <= version'.last
        /\ version.logfile <= version'.logfile /\ version'.logfile < version'.next
        /\ bg'.edit.log <= version'.logfile
    <3>1. version.logfile < version.next /\ bg.edit.log <= version.logfile
      BY <1>i, <2>3 DEF NumbersInv, FileNumbers, LogNumbers
    <3> QED BY <2>1, <2>4, <3>1, NumberFacts
  <2>8. \A t \in Needed : t \in DOMAIN tables'
    BY <2>1, NumberFacts
  <2>9. FilesInv' /\ AgreeInv' /\ NumbersInv' /\ Needed' \subseteq Needed \cup ProcessTables'
    BY <2>1, <2>3, <2>6, <2>7, <2>8, RunningStep
  <2> QED BY <2>6, <2>9
<1> QED BY <1>1, <1>2

\* The edit is synced and installed: what the manifest and the version named before it may
\* be obsolete now, what they name after it is not.
LEMMA InstallKeepsFiles ==
    ASSUME StoreIInv, Types', Install
    PROVE  FilesInv' /\ AgreeInv' /\ NumbersInv' /\ Needed' \subseteq Needed
<1>i. /\ FilesInv /\ AgreeInv /\ NumbersInv /\ LogTypes /\ TableTypes /\ ManifestTypes
      /\ ProcessTypes /\ VersionType /\ PhasesInv
  BY DEF StoreIInv, Types
<1>1. /\ UNCHANGED <<up, pinned, bgError, tables, current>> /\ bg.phase = "sync"
      /\ manifests' = [manifests EXCEPT ![version.manifest].synced =
                                            Len(manifests[version.manifest].edits)]
      /\ version' = [version EXCEPT !.tables = Applied(@, bg.edit), !.log = bg.edit.log]
      /\ merge' \in {merge, NoMerge}
      /\ garbage' = IF bgError THEN {} ELSE Obsolete(version', {merge'.num})
      /\ bg' = [NoWork EXCEPT !.phase = "clean"]
  BY DEF Install, Busy
<1>2. /\ up \in {"up", "closing"} /\ current = version.manifest /\ current # 0
  BY <1>1, <1>i, BusyRuns
<1>3. Running /\ Running' /\ ~Opening' /\ up' # "current"
  BY <1>1, <1>2 DEF Running, Opening
<1>4. /\ current \in DOMAIN manifests /\ manifests[current] \in Manifests
      /\ Current \in Seq(Edits) /\ Len(Current) \in Nat /\ Len(Current) \in Lengths
      /\ manifests[current].synced \in Nat /\ Lengths \subseteq 0 .. Len(Current)
  BY <1>2, <1>i, ManifestFacts
<1>l. PICK len \in Nat : len = Len(Current) /\ len \in Lengths /\ Lengths \subseteq 0 .. len
  BY <1>4
<1>n. /\ Needed \in SUBSET Nat /\ version.next \in Nat /\ version.last \in Nat
      /\ version.logfile \in Nat /\ version.manifest \in Nat /\ bg.edit \in Edits
  BY NumberFacts
<1>v. /\ \A t \in Needed : t < version.next
      /\ Lengths \ {0} # {} /\ Last(Current).next <= version.next
      /\ Last(Current).last <= version.last
      /\ version.next > 1 /\ version.manifest < version.next /\ version.logfile < version.next
      /\ bg.edit.log <= version.logfile
      /\ \A n \in Lengths \ {0} : Current[n].log <= version.logfile
  BY <1>3, <1>i DEF NumbersInv, VersionNumbers, FileNumbers, LogNumbers
<1>5. /\ version'.tables = Applied(version.tables, bg.edit) /\ version'.log = bg.edit.log
      /\ version'.logfile = version.logfile /\ version'.manifest = version.manifest
      /\ version'.next = version.next /\ version'.last = version.last
  BY <1>1, <1>i DEF VersionType
<1>6. /\ bg'.phase = "clean" /\ bg'.edit.add = {} /\ bg'.edit.log = 0 /\ merge'.num \in {merge.num, 0}
  BY <1>1 DEF NoWork, NoEdit, NoMerge
<1>7. Current' = Current /\ manifests'[current].synced = len /\ Last(Current)' = Last(Current)
  <2>1. Current' = Current /\ manifests'[current].synced = len
    BY <1>1, <1>2, <1>4, <1>l DEF Current, Manifests
  <2> QED BY <2>1 DEF Last
<1>8. Lengths' = {len} /\ len # 0
  <2>1. Lengths' = len .. len
    <3>1. current' # 0 /\ current' = current
      BY <1>1, <1>2
    <3> QED BY <1>l, <1>7, <3>1 DEF Lengths
  <2>2. len # 0
    <3>1. PICK n \in Lengths : n # 0
      BY <1>v
    <3>2. n \in 0 .. len
      BY <1>l, <3>1
    <3> QED BY <3>1, <3>2
  <2> QED BY <1>4, <1>l, <2>1, <2>2
<1>9. /\ Prefix(len)' = Prefix(len) /\ Prefix(len) = Current
      /\ TablesOf(Prefix(len))' = TablesOf(Current) /\ TablesOf(Current)' = TablesOf(Current)
      /\ TablesOf(Current) \subseteq ManifestTables
  <2>1. Prefix(len)' = Prefix(len) /\ Prefix(len) = Current
    BY <1>l, <1>2, <1>7, NumberFacts DEF Prefix
  <2>2. TablesOf(Prefix(len))' = TablesOf(Current) /\ TablesOf(Current)' = TablesOf(Current)
    BY <1>7, <2>1 DEF TablesOf
  <2>3. TablesOf(Current) \subseteq ManifestTables
    BY <1>4, <1>l, <2>1 DEF ManifestTables
  <2> QED BY <2>1, <2>2, <2>3
<1>10. /\ ManifestTables' = TablesOf(Current)
       /\ ProcessTables' = version'.tables \cup pinned \cup ({merge'.num} \ {0})
       /\ Needed' \subseteq Needed
  <2>1. ManifestTables' = TablesOf(Current)
    BY <1>8, <1>9 DEF ManifestTables
  <2>2. ProcessTables' = version'.tables \cup pinned \cup ({merge'.num} \ {0})
    BY <1>1, <1>6 DEF ProcessTables
  <2>3. version'.tables \subseteq Needed
    BY <1>5 DEF Applied, Needed, ProcessTables
  <2> QED BY <1>6, <1>9, <2>1, <2>2, <2>3 DEF Needed, ProcessTables
<1>11. ~bgError => TablesOf(Current) = version'.tables
  BY <1>1, <1>3, <1>5, <1>i DEF AgreeInv
<1>12. FilesInv'
  <2>1. Needed' \subseteq DOMAIN tables'
    BY <1>1, <1>10, <1>i DEF FilesInv
  <2>2. ASSUME NEW t \in Needed' PROVE <<"table", t>> \notin garbage'
    <3>1. CASE bgError
      BY <1>1, <3>1
    <3>2. CASE ~bgError
      <4>1. t \in version'.tables \cup pinned \cup {merge'.num}
        BY <1>10, <1>11, <3>2 DEF Needed
      <4>2. \A x \in Obsolete(version', {merge'.num}) :
               x[1] = "table" => x[2] \notin version'.tables \cup pinned \cup {merge'.num}
        BY <1>i, ObsoleteFacts
      <4> QED BY <1>1, <3>2, <4>1, <4>2
    <3> QED BY <3>1, <3>2
  <2>3. <<"manifest", current>> \notin garbage'
    <3>1. \A x \in Obsolete(version', {merge'.num}) :
               x[1] = "manifest" => x[2] < version'.manifest
      BY <1>i, ObsoleteFacts
    <3>2. ~(version'.manifest < version'.manifest)
      BY <1>5, <1>n
    <3> QED BY <1>1, <1>2, <1>5, <3>1, <3>2
  <2>4. manifests'[current].synced > 0
    BY <1>4, <1>l, <1>7, <1>8
  <2> QED BY <1>1, <1>3, <2>1, <2>2, <2>3, <2>4 DEF FilesInv
<1>13. AgreeInv'
  BY <1>1, <1>3, <1>6, <1>9, <1>11 DEF AgreeInv
<1>14. EditNumbers'
  <2>1. /\ Current[len].next > 1 /\ current < Current[len].next
        /\ \A t \in TablesOf(Prefix(len)) : t < Current[len].next
        /\ Current[len].next <= Last(Current).next /\ Current[len].last <= Last(Current).last
    BY <1>4, <1>l, <1>8, <1>i DEF NumbersInv, EditNumbers
  <2>2. ASSUME NEW n \in Lengths' \ {0}
        PROVE  /\ Current'[n].next > 1 /\ current' < Current'[n].next
               /\ \A t \in TablesOf(Prefix(n))' : t < Current'[n].next
               /\ Current'[n].next <= Last(Current)'.next
               /\ Current'[n].last <= Last(Current)'.last
    <3>1. n = len
      BY <1>8
    <3>2. TablesOf(Prefix(n))' = TablesOf(Prefix(len))
      BY <1>9, <3>1
    <3> QED BY <1>1, <1>7, <2>1, <3>1, <3>2
  <2> QED BY <2>2 DEF EditNumbers
<1>15. VersionNumbers' /\ FileNumbers' /\ OpenedNumbers' /\ LogNumbers'
  <2>1. VersionNumbers'
    BY <1>5, <1>7, <1>8, <1>10, <1>v DEF VersionNumbers
  <2>2. FileNumbers'
    BY <1>3, <1>5, <1>v DEF FileNumbers
  <2>3. OpenedNumbers'
    BY <1>3 DEF OpenedNumbers
  <2>4. LogNumbers'
    <3>1. Current'[len].log <= version'.logfile
      BY <1>4, <1>l, <1>5, <1>7, <1>8, <1>v
    <3>2. 0 <= version'.logfile
      BY <1>5, <1>n
    <3> QED BY <1>5, <1>6, <1>8, <1>v, <3>1, <3>2 DEF LogNumbers
  <2> QED BY <2>1, <2>2, <2>3, <2>4
<1> QED BY <1>10, <1>12, <1>13, <1>14, <1>15 DEF NumbersInv

-----------------------------------------------------------------------------
(* Opening.                                                                    *)

LEMMA NewDBKeepsFiles ==
    ASSUME StoreIInv, Types', NewDB
    PROVE  FilesInv' /\ AgreeInv' /\ NumbersInv' /\ Needed' \subseteq Needed
<1> DEFINE e == [NoEdit EXCEPT !.next = 2]
           f == [edits |-> <<e>>, synced |-> 0]
<1>i. FilesInv /\ NumbersInv /\ PhasesInv
  BY DEF StoreIInv
<1>1. /\ UNCHANGED <<up, version, pinned, merge, bg, garbage, bgError, tables>> /\ up = "down"
      /\ manifests' = With(manifests, 1, f) /\ current' = 1
  BY DEF NewDB, process
<1>2. /\ up' = "down" /\ version' = NoVersion /\ bg' = NoWork /\ garbage' = {} /\ pinned' = {}
      /\ merge' = NoMerge
  BY <1>1, <1>i DEF PhasesInv, Running
<1>3. ~Opening' /\ ~Running' /\ up' # "current" /\ up' # "manifest"
  BY <1>2 DEF Opening, Running
<1>4. e \in Edits /\ e.next = 2 /\ e.add = {} /\ e.last = 0
  BY Constants DEF NoEdit, Edits
<1> HIDE DEF e
<1>5. manifests'[1] = f
  BY <1>1 DEF With
<1>6. Current' = <<e>> /\ manifests'[current'].synced = 0
  BY <1>1, <1>5 DEF Current
<1>7. Current' \in Seq(Edits) /\ Len(Current') = 1 /\ Current'[1] = e
  BY <1>4, <1>6
<1>8. Lengths' = {0, 1}
  <2>1. Lengths' = 0 .. 1
    BY <1>1, <1>6, <1>7 DEF Lengths
  <2> QED BY <2>1
<1>9. Last(Current)' = e
  BY <1>7 DEF Last
<1>10. TablesOf(Prefix(0))' = {} /\ TablesOf(Prefix(1))' = {}
  <2>1. Prefix(0)' = <<>>
    <3>1. Len(SubSeq(Current', 1, 0)) = 0 /\ SubSeq(Current', 1, 0) \in Seq(Edits)
      BY <1>7, PrefixFacts
    <3> QED BY <3>1, EmptySeq DEF Prefix
  <2>2. Prefix(1)' = Current'
    <3>1. SubSeq(Current', 1, Len(Current')) = Current'
      BY <1>7, SubSeqFull
    <3> QED BY <1>7, <3>1 DEF Prefix
  <2>3. TablesOf(Current') = {}
    BY <1>4, <1>7, TablesOfOne
  <2> QED BY <2>1, <2>2, <2>3, TablesOfNothing
<1>11. Needed' = {}
  <2>1. ManifestTables' = {}
    BY <1>8, <1>10 DEF ManifestTables
  <2>2. ProcessTables' = {}
    BY <1>2 DEF ProcessTables, NoVersion, NoMerge, NoWork, NoEdit
  <2> QED BY <2>1, <2>2 DEF Needed
<1>12. FilesInv'
  BY <1>1, <1>2, <1>3, <1>11 DEF FilesInv
<1>13. EditNumbers'
  <2>1. ASSUME NEW n \in Lengths' \ {0}
        PROVE  /\ Current'[n].next > 1 /\ current' < Current'[n].next
               /\ \A t \in TablesOf(Prefix(n))' : t < Current'[n].next
               /\ Current'[n].next <= Last(Current)'.next
               /\ Current'[n].last <= Last(Current)'.last
    <3>1. n = 1
      BY <1>8
    <3>2. TablesOf(Prefix(n))' = {}
      BY <1>10, <3>1
    <3> QED BY <1>1, <1>4, <1>7, <1>9, <3>1, <3>2
  <2> QED BY <2>1 DEF EditNumbers
<1>14. FileNumbers'
  <2>1. version'.next = 2 /\ version'.manifest = 0
    BY <1>2 DEF NoVersion
  <2> QED BY <1>3, <2>1 DEF FileNumbers
<1>15. AgreeInv' /\ VersionNumbers' /\ OpenedNumbers' /\ LogNumbers'
  BY <1>3 DEF AgreeInv, VersionNumbers, OpenedNumbers, LogNumbers
<1> QED BY <1>11, <1>12, <1>13, <1>14, <1>15 DEF NumbersInv

\* A step of opening that leaves the manifest of CURRENT alone.
LEMMA OpeningStep ==
    ASSUME StoreIInv, PhasesInv', current' = current, manifests'[current] = manifests[current],
           ~Running', up' # "current", tables' \in [DOMAIN tables' -> SUBSET Batch],
           \A t \in Needed : t \in DOMAIN tables',
           \A t \in ProcessTables' \ Needed : t \in DOMAIN tables',
           Opening' => current # 0, FileNumbers', VersionNumbers'
    PROVE  FilesInv' /\ AgreeInv' /\ NumbersInv' /\ Needed' \subseteq Needed \cup ProcessTables'
<1>f. /\ Current' = Current /\ Lengths' = Lengths
      /\ \A n \in Lengths : Prefix(n)' = Prefix(n)
      /\ ManifestTables' = ManifestTables
  BY ManifestUnchanged
<1>i. FilesInv /\ NumbersInv
  BY DEF StoreIInv
<1>1. garbage' = {}
  BY DEF PhasesInv
<1>2. Needed' \subseteq DOMAIN tables'
  BY <1>f DEF Needed
<1>3. FilesInv'
  BY <1>1, <1>2, <1>i DEF FilesInv
<1>4. AgreeInv' /\ OpenedNumbers' /\ LogNumbers'
  BY DEF AgreeInv, OpenedNumbers, LogNumbers
<1>5. EditNumbers'
  <2>1. \A n \in Lengths : TablesOf(Prefix(n))' = TablesOf(Prefix(n))
    BY <1>f DEF TablesOf
  <2>2. Last(Current)' = Last(Current)
    BY <1>f DEF Last
  <2> QED BY <1>f, <1>i, <2>1, <2>2 DEF NumbersInv, EditNumbers
<1>6. Needed' \subseteq Needed \cup ProcessTables'
  BY <1>f DEF Needed
<1> QED BY <1>3, <1>4, <1>5, <1>6 DEF NumbersInv

LEMMA RecoverManifestKeepsFiles ==
    ASSUME StoreIInv, Types', PhasesInv', RecoverManifest
    PROVE  FilesInv' /\ AgreeInv' /\ NumbersInv' /\ Needed' \subseteq Needed
<1>i. /\ FilesInv /\ NumbersInv /\ PhasesInv /\ ManifestTypes /\ TableTypes
  BY DEF StoreIInv, Types
<1>1. /\ UNCHANGED <<pinned, merge, bg, garbage, bgError, tables, manifests, current>>
      /\ up = "down" /\ current # 0
  BY DEF RecoverManifest, disk
<1>2. /\ version = NoVersion /\ bg = NoWork /\ pinned = {} /\ merge = NoMerge
  BY <1>1, <1>i DEF PhasesInv, Running
<1>3. /\ manifests'[current] = manifests[current] /\ tables' \in [DOMAIN tables' -> SUBSET Batch]
      /\ \A t \in Needed : t \in DOMAIN tables'
  BY <1>1, <1>i DEF FilesInv, TableTypes
<1>f. /\ Current' = Current /\ Lengths' = Lengths /\ ManifestTables' = ManifestTables
      /\ Last(Current)' = Last(Current)
  BY <1>1, ManifestUnchanged DEF Last
<1>4. CASE up' = "corrupt"
  <2>1. version' = version
    BY <1>4 DEF RecoverManifest
  <2>2. ~Running' /\ ~Opening' /\ up' # "current" /\ up' # "manifest"
    BY <1>4 DEF Running, Opening
  <2>3. FileNumbers' /\ VersionNumbers'
    BY <1>i, <2>1, <2>2 DEF NumbersInv, FileNumbers, VersionNumbers
  <2>4. ProcessTables' \subseteq Needed
    BY <1>1, <2>1 DEF ProcessTables, Needed
  <2> QED BY <1>1, <1>3, <2>2, <2>3, <2>4, OpeningStep
<1>5. CASE up' # "corrupt"
  <2> DEFINE last == Last(Current)
  <2>1. /\ up' = "logs" /\ Current # <<>>
        /\ version' = [tables |-> TablesOf(Current), log |-> last.log, logfile |-> 0,
                       manifest |-> last.next, next |-> Max({last.next, last.log}) + 1,
                       last |-> last.last]
    BY <1>5 DEF RecoverManifest, Current
  <2>2. ~Running' /\ Opening' /\ up' # "current" /\ up' # "manifest"
    BY <2>1 DEF Running, Opening
  <2>3. /\ last \in Edits /\ Len(Current) \in Nat /\ Len(Current) > 0 /\ Len(Current) \in Lengths
        /\ last = Current[Len(Current)] /\ Prefix(Len(Current)) = Current
    BY <1>1, <1>i, <2>1, ManifestFacts, NumberFacts
  <2>4. last.next \in Nat /\ last.log \in Nat /\ last.last \in Nat /\ current \in Nat
    BY <2>3, NumberFacts DEF Edits
  <2>5. Max({last.next, last.log}) \in Nat /\ last.next <= Max({last.next, last.log})
    <3> DEFINE S == {last.next, last.log}
    <3>1. /\ S \in SUBSET Nat /\ S # {} /\ last.next + last.log \in Nat
          /\ \A h \in S : h <= last.next + last.log
      BY <2>4
    <3>2. last.next \in S
      OBVIOUS
    <3> HIDE DEF S, last
    <3>3. Max(S) \in S /\ \A h \in S : h <= Max(S)
      BY <3>1, MaxOf
    <3> QED BY <3>1, <3>2, <3>3 DEF S
  <2>6. /\ last.next > 1 /\ current < last.next
        /\ \A t \in TablesOf(Current) : t < last.next
    BY <1>i, <2>3 DEF NumbersInv, EditNumbers
  <2> HIDE DEF last
  <2>7. /\ version'.next \in Nat /\ last.next < version'.next /\ version'.manifest = last.next
        /\ version'.tables = TablesOf(Current) /\ version'.last = last.last
    BY <2>1, <2>4, <2>5
  <2>8. ProcessTables' = TablesOf(Current)
    BY <1>1, <1>2, <2>7 DEF ProcessTables, NoMerge, NoWork, NoEdit
  <2>9. TablesOf(Current) \subseteq ManifestTables
    BY <2>3 DEF ManifestTables
  <2>10. Needed' = ManifestTables
    BY <1>f, <2>8, <2>9 DEF Needed
  <2>11. ASSUME NEW t \in ManifestTables PROVE t < version'.next
    <3>1. PICK n \in Lengths : t \in TablesOf(Prefix(n))
      BY DEF ManifestTables
    <3>2. n # 0
      <4>1. Prefix(0) = <<>>
        <5>1. Current \in Seq(Edits)
          BY <1>1, <1>i, ManifestFacts
        <5>2. Len(SubSeq(Current, 1, 0)) = 0 /\ SubSeq(Current, 1, 0) \in Seq(Edits)
          BY <5>1, PrefixFacts
        <5> QED BY <5>2, EmptySeq DEF Prefix
      <4> QED BY <3>1, <4>1, TablesOfNothing
    <3>3. t < Current[n].next /\ Current[n].next <= last.next
      BY <1>i, <3>1, <3>2 DEF NumbersInv, EditNumbers, last
    <3>4. Current[n].next \in Nat /\ t \in Nat
      <4>1. Current[n] \in Edits /\ TablesOf(Prefix(n)) \subseteq Needed /\ Needed \in SUBSET Nat
        BY <3>1, <3>2, NumberFacts DEF Needed
      <4> QED BY <3>1, <4>1 DEF Edits
    <3> QED BY <2>4, <2>7, <3>3, <3>4
  <2>12. VersionNumbers'
    <3>1. Lengths' \ {0} # {}
      BY <1>f, <2>3
    <3>2. Last(Current)' = last
      BY <1>f DEF last
    <3>3. last.next <= version'.next /\ last.last <= version'.last
      BY <2>4, <2>7
    <3> QED BY <2>10, <2>11, <3>1, <3>2, <3>3 DEF VersionNumbers
  <2>13. FileNumbers'
    BY <1>1, <2>2, <2>4, <2>6, <2>7 DEF FileNumbers
  <2>14. ProcessTables' \subseteq Needed
    BY <2>8, <2>9 DEF Needed
  <2> QED BY <1>1, <1>3, <2>2, <2>12, <2>13, <2>14, OpeningStep
<1> QED BY <1>4, <1>5

LEMMA RecoverLogsKeepsFiles ==
    ASSUME StoreIInv, Types', PhasesInv', RecoverLogs
    PROVE  /\ FilesInv' /\ AgreeInv' /\ NumbersInv'
           /\ Needed' \subseteq Needed \cup RecoveredTables
<1>i. /\ FilesInv /\ NumbersInv /\ PhasesInv /\ LogTypes /\ VersionType /\ LogsBounded
      /\ TableTypes /\ TableTypes'
  BY DEF StoreIInv, Types
<1>1. /\ UNCHANGED <<pinned, merge, garbage, bgError, manifests, current>>
      /\ up = "logs" /\ up' = "newlog"
      /\ tables' = [t \in DOMAIN tables \cup RecoveredTables |->
                       IF t \in RecoveredTables THEN InLog(LogOf(t)) ELSE tables[t]]
      /\ bg' = [phase |-> "open", of |-> "open", edit |-> [NoEdit EXCEPT !.add = RecoveredTables]]
      /\ version' = [version EXCEPT !.next = NextRecovered, !.last = RecoveredLast]
  BY DEF RecoverLogs, NextRecovered
<1>2. bg = NoWork /\ ~Running' /\ Opening /\ Opening' /\ up' \notin {"manifest", "current"}
  BY <1>1, <1>i DEF PhasesInv, Running, Opening
<1>3. /\ version'.tables = version.tables /\ version'.manifest = version.manifest
      /\ version'.next = NextRecovered /\ version'.last = RecoveredLast
      /\ bg'.edit.add = RecoveredTables
  BY <1>1, <1>i DEF VersionType, NoEdit
<1>4. /\ NextRecovered \in Nat /\ version.next <= NextRecovered
      /\ \A t \in RecoveredTables : t < NextRecovered
      /\ RecoveredLast \in Nat /\ version.last <= RecoveredLast
  BY <1>i, RecoveredCounters
<1>5. DOMAIN tables' = DOMAIN tables \cup RecoveredTables
  BY <1>1
<1>f. /\ Current' = Current /\ Lengths' = Lengths /\ ManifestTables' = ManifestTables
      /\ Last(Current)' = Last(Current)
  BY <1>1, ManifestUnchanged DEF Last
<1>6. Needed' = Needed \cup RecoveredTables /\ ProcessTables' \subseteq Needed \cup RecoveredTables
  <2>1. ProcessTables' = ProcessTables \cup RecoveredTables
    BY <1>1, <1>2, <1>3 DEF ProcessTables, NoWork, NoEdit
  <2> QED BY <1>f, <2>1 DEF Needed
<1>n. /\ version.next \in Nat /\ version.last \in Nat /\ version.manifest \in Nat
      /\ Needed \in SUBSET Nat /\ Needed \subseteq DOMAIN tables
      /\ \A n \in Lengths \ {0} : Last(Current) \in Edits
  BY NumberFacts
<1>v. /\ \A t \in Needed : t < version.next
      /\ Lengths \ {0} # {} /\ Last(Current).next <= version.next
      /\ Last(Current).last <= version.last
      /\ version.next > 1 /\ version.manifest < version.next /\ version.manifest > 1
      /\ version.manifest > current /\ current # 0
  BY <1>2, <1>i DEF NumbersInv, VersionNumbers, FileNumbers, FilesInv
<1>7. Last(Current).next \in Nat /\ Last(Current).last \in Nat
  BY <1>n, <1>v DEF Edits
<1>8. VersionNumbers'
  <2>1. ASSUME NEW t \in Needed' PROVE t < version'.next
    <3>1. CASE t \in Needed
      BY <1>n, <1>v, <1>3, <1>4, <3>1
    <3>2. CASE t \in RecoveredTables
      BY <1>3, <1>4, <3>2
    <3> QED BY <1>6, <3>1, <3>2
  <2>2. Last(Current)'.next <= version'.next /\ Last(Current)'.last <= version'.last
    BY <1>f, <1>n, <1>v, <1>3, <1>4, <1>7
  <2> QED BY <1>f, <1>v, <2>1, <2>2 DEF VersionNumbers
<1>9. FileNumbers'
  <2>1. version'.next > 1 /\ version'.manifest < version'.next
    BY <1>n, <1>v, <1>3, <1>4
  <2> QED BY <1>1, <1>2, <1>3, <1>v, <2>1 DEF FileNumbers
<1>10. /\ \A t \in Needed : t \in DOMAIN tables'
       /\ \A t \in ProcessTables' \ Needed : t \in DOMAIN tables'
       /\ tables' \in [DOMAIN tables' -> SUBSET Batch]
       /\ manifests'[current] = manifests[current]
  BY <1>1, <1>5, <1>6, <1>i, <1>n DEF TableTypes
<1> QED BY <1>1, <1>2, <1>6, <1>8, <1>9, <1>10, <1>v, OpeningStep

LEMMA OpenLogKeepsFiles ==
    ASSUME StoreIInv, Types', PhasesInv', OpenLog
    PROVE  FilesInv' /\ AgreeInv' /\ NumbersInv' /\ Needed' \subseteq Needed
<1>i. /\ FilesInv /\ NumbersInv /\ PhasesInv /\ VersionType /\ TableTypes
  BY DEF StoreIInv, Types
<1>1. /\ UNCHANGED <<pinned, merge, bg, garbage, bgError, tables, manifests, current>>
      /\ up = "newlog" /\ up' = "manifest"
      /\ version' = [version EXCEPT !.logfile = version.next, !.next = @ + 1]
  BY DEF OpenLog
<1>2. ~Running' /\ Opening /\ Opening' /\ up' # "current"
  BY <1>1 DEF Running, Opening
<1>3. /\ version'.tables = version.tables /\ version'.manifest = version.manifest
      /\ version'.next = version.next + 1 /\ version'.last = version.last
      /\ version'.logfile = version.next
  BY <1>1, <1>i DEF VersionType
<1>f. /\ Current' = Current /\ Lengths' = Lengths /\ ManifestTables' = ManifestTables
      /\ Last(Current)' = Last(Current)
  BY <1>1, ManifestUnchanged DEF Last
<1>4. Needed' = Needed /\ ProcessTables' \subseteq Needed
  <2>1. ProcessTables' = ProcessTables
    BY <1>1, <1>3 DEF ProcessTables
  <2> QED BY <1>f, <2>1 DEF Needed
<1>n. /\ version.next \in Nat /\ version.last \in Nat /\ version.manifest \in Nat
      /\ Needed \in SUBSET Nat /\ Needed \subseteq DOMAIN tables
      /\ \A n \in Lengths \ {0} : Last(Current) \in Edits
  BY NumberFacts
<1>v. /\ \A t \in Needed : t < version.next
      /\ Lengths \ {0} # {} /\ Last(Current).next <= version.next
      /\ Last(Current).last <= version.last
      /\ version.next > 1 /\ version.manifest < version.next /\ version.manifest > 1
      /\ version.manifest > current /\ current # 0
  BY <1>2, <1>i DEF NumbersInv, VersionNumbers, FileNumbers, FilesInv
<1>7. Last(Current).next \in Nat /\ Last(Current).last \in Nat
  BY <1>n, <1>v DEF Edits
<1>8. VersionNumbers'
  <2>1. ASSUME NEW t \in Needed PROVE t < version.next + 1
    BY <1>n, <1>v
  <2>2. Last(Current).next <= version.next + 1
    BY <1>n, <1>v, <1>7
  <2> QED BY <1>f, <1>v, <1>3, <1>4, <2>1, <2>2 DEF VersionNumbers
<1>9. FileNumbers'
  <2>1. version'.next > 1 /\ version'.manifest < version'.next /\ version'.logfile < version'.next
    BY <1>n, <1>v, <1>3
  <2> QED BY <1>1, <1>2, <1>3, <1>v, <2>1 DEF FileNumbers
<1>10. /\ \A t \in Needed : t \in DOMAIN tables'
       /\ tables' \in [DOMAIN tables' -> SUBSET Batch]
       /\ manifests'[current] = manifests[current]
  BY <1>1, <1>i, <1>n DEF TableTypes
<1> QED BY <1>1, <1>2, <1>4, <1>8, <1>9, <1>10, <1>v, OpeningStep

\* The new manifest does not overwrite the one CURRENT names.
LEMMA OpenManifestKeepsFiles ==
    ASSUME StoreIInv, Types', PhasesInv', OpenManifest
    PROVE  FilesInv' /\ AgreeInv' /\ NumbersInv' /\ Needed' \subseteq Needed
<1> DEFINE s == [NoEdit EXCEPT !.add = version.tables]
           e == [Complete(bg.edit) EXCEPT !.log = version.logfile]
           f == [edits |-> <<s, e>>, synced |-> 2]
<1>i. /\ FilesInv /\ NumbersInv /\ PhasesInv /\ VersionType /\ ManifestTypes
  BY DEF StoreIInv, Types
<1>1. /\ UNCHANGED <<version, pinned, merge, bg, garbage, bgError, tables, current>>
      /\ up = "manifest" /\ up' = "current"
      /\ manifests' = With(manifests, version.manifest, f)
  BY DEF OpenManifest
<1>2. ~Running' /\ Opening /\ Opening'
  BY <1>1 DEF Running, Opening
<1>n. /\ version.next \in Nat /\ version.last \in Nat /\ version.manifest \in Nat
      /\ version.tables \in SUBSET Nat /\ version.logfile \in Nat
      /\ Needed \in SUBSET Nat /\ Needed \subseteq DOMAIN tables /\ bg.edit \in Edits
      /\ current \in Nat
  BY NumberFacts
<1>v. /\ \A t \in Needed : t < version.next
      /\ Lengths \ {0} # {} /\ Last(Current).next <= version.next
      /\ Last(Current).last <= version.last
      /\ version.next > 1 /\ version.manifest < version.next /\ version.manifest > 1
      /\ version.manifest > current /\ current # 0 /\ version.logfile < version.next
  BY <1>1, <1>2, <1>i DEF NumbersInv, VersionNumbers, FileNumbers, FilesInv
<1>3. manifests'[version.manifest] = f /\ version.manifest \in DOMAIN manifests'
  BY <1>1 DEF With
<1>4. manifests'[current] = manifests[current]
  <2>1. current \in DOMAIN manifests /\ current # version.manifest
    BY <1>i, <1>n, <1>v, ManifestFacts
  <2> QED BY <1>1, <2>1 DEF With
<1>f. /\ Current' = Current /\ Lengths' = Lengths
      /\ \A n \in Lengths : Prefix(n)' = Prefix(n)
      /\ ManifestTables' = ManifestTables /\ Last(Current)' = Last(Current)
  BY <1>1, <1>4, ManifestUnchanged DEF Last
<1>5. Needed' = Needed
  <2>1. ProcessTables' = ProcessTables
    BY <1>1 DEF ProcessTables
  <2> QED BY <1>f, <2>1 DEF Needed
<1>6. FilesInv'
  <2>1. garbage' = {}
    BY <1>2 DEF PhasesInv
  <2> QED BY <1>1, <1>4, <1>5, <1>i, <1>v, <2>1 DEF FilesInv
<1>7. /\ s \in Edits /\ s = [NoEdit EXCEPT !.add = version'.tables]
      /\ e \in Edits /\ e.add = bg.edit.add /\ e.del = bg.edit.del
      /\ e.next = version.next /\ e.last = version.last /\ e.log = version.logfile
  BY <1>1, <1>n, Constants DEF Complete, Edits, NoEdit
<1>8. bg.edit.del = {}
  BY <1>1, <1>i DEF PhasesInv
<1> HIDE DEF s, e
<1>9. /\ manifests'[version.manifest].edits = <<s, e>> /\ manifests'[version.manifest].synced = 2
      /\ Len(<<s, e>>) = 2 /\ <<s, e>>[1] = s /\ <<s, e>>[2] = e
  BY <1>3
<1>10. AgreeInv'
  <2>1. Opened(manifests[version.manifest].edits)'
    BY <1>1, <1>7, <1>8, <1>9 DEF Opened
  <2> QED BY <1>1, <1>2, <1>3, <1>9, <1>n, <1>v, <2>1 DEF AgreeInv
<1>11. EditNumbers'
  <2>1. \A n \in Lengths : TablesOf(Prefix(n))' = TablesOf(Prefix(n))
    BY <1>f DEF TablesOf
  <2> QED BY <1>1, <1>f, <1>i, <2>1 DEF NumbersInv, EditNumbers
<1>12. VersionNumbers' /\ FileNumbers' /\ LogNumbers'
  BY <1>1, <1>2, <1>5, <1>f, <1>v DEF VersionNumbers, FileNumbers, LogNumbers
<1>13. OpenedNumbers'
  <2>1. version.tables \cup bg.edit.add \subseteq Needed
    BY DEF Needed, ProcessTables
  <2>2. /\ e.next > 1 /\ version.manifest < e.next /\ e.next <= version.next
        /\ e.last = version.last /\ e.log = version.logfile
        /\ \A t \in version.tables \cup bg.edit.add : t < e.next
    BY <1>7, <1>n, <1>v, <2>1
  <2>3. manifests'[version'.manifest].edits[2] = e
    BY <1>1, <1>9
  <2> QED BY <1>1, <2>2, <2>3 DEF OpenedNumbers
<1> QED BY <1>5, <1>6, <1>10, <1>11, <1>12, <1>13 DEF NumbersInv

\* From now on the new manifest counts: it names the tables of the version and of the edit.
LEMMA OpenCurrentKeepsFiles ==
    ASSUME StoreIInv, Types', PhasesInv', OpenCurrent
    PROVE  FilesInv' /\ AgreeInv' /\ NumbersInv' /\ Needed' \subseteq Needed
<1>i. /\ FilesInv /\ AgreeInv /\ NumbersInv /\ PhasesInv /\ LogTypes /\ TableTypes /\ ManifestTypes
      /\ VersionType
  BY DEF StoreIInv, Types
<1>1. /\ UNCHANGED <<pinned, merge, bgError, tables, manifests>>
      /\ up = "current" /\ up' = "clean" /\ bg' = NoWork /\ current' = version.manifest
      /\ garbage' = Obsolete(version', {})
      /\ version' = [version EXCEPT !.tables = Applied(@, bg.edit), !.log = version.logfile]
  BY DEF OpenCurrent
<1>2. Opening /\ ~Opening' /\ Running' /\ up' # "current"
  BY <1>1 DEF Running, Opening
<1>3. pinned = {} /\ merge = NoMerge /\ bg.edit.del = {}
  BY <1>1, <1>i DEF PhasesInv
<1> DEFINE E == manifests[version.manifest].edits
<1>4. /\ version.manifest \in DOMAIN manifests /\ version.manifest # 0
      /\ manifests[version.manifest].synced = 2 /\ E \in Seq(Edits)
      /\ Len(E) = 2 /\ E[1].add = version.tables
      /\ E[2].add = bg.edit.add /\ E[2].del = {}
  <2>1. /\ version.manifest \in DOMAIN manifests /\ version.manifest # 0
        /\ manifests[version.manifest].synced = 2 /\ Opened(E)
    BY <1>1, <1>i DEF AgreeInv
  <2>2. E \in Seq(Edits)
    <3>1. manifests[version.manifest] \in Manifests
      BY <1>i, <2>1 DEF ManifestTypes
    <3> QED BY <3>1 DEF Manifests
  <2>3. [NoEdit EXCEPT !.add = version.tables].add = version.tables
    BY DEF NoEdit
  <2> QED BY <2>1, <2>2, <2>3 DEF Opened
<1>5. Current' = E /\ manifests'[current'].synced = 2 /\ current' # 0
  BY <1>1, <1>4 DEF Current
<1> HIDE DEF E
<1>6. Lengths' = {2}
  <2>1. Lengths' = 2 .. 2
    BY <1>4, <1>5 DEF Lengths
  <2> QED BY <2>1
<1>7. /\ Prefix(2)' = E /\ TablesOf(Prefix(2))' = version.tables \cup bg.edit.add
      /\ TablesOf(Current)' = version.tables \cup bg.edit.add
  <2>1. Prefix(2)' = E
    <3>1. SubSeq(E, 1, Len(E)) = E
      BY <1>4, SubSeqFull
    <3> QED BY <1>4, <1>5, <3>1 DEF Prefix
  <2>2. TablesOf(E) = version.tables \cup bg.edit.add
    BY <1>4, TablesOfTwo
  <2>3. TablesOf(Prefix(2))' = TablesOf(E) /\ TablesOf(Current)' = TablesOf(E)
    BY <1>5, <2>1 DEF TablesOf
  <2> QED BY <2>1, <2>2, <2>3
<1>8. /\ version'.tables = version.tables \cup bg.edit.add /\ version'.log = version.logfile
      /\ version'.logfile = version.logfile /\ version'.manifest = version.manifest
      /\ version'.next = version.next /\ version'.last = version.last
  BY <1>1, <1>3, <1>i DEF VersionType, Applied
<1>9. Needed' = version.tables \cup bg.edit.add
  <2>1. ManifestTables' = version.tables \cup bg.edit.add
    BY <1>6, <1>7 DEF ManifestTables
  <2>2. ProcessTables' = version.tables \cup bg.edit.add
    BY <1>1, <1>3, <1>8 DEF ProcessTables, NoMerge, NoWork, NoEdit
  <2> QED BY <2>1, <2>2 DEF Needed
<1>10. Needed' \subseteq Needed
  BY <1>9 DEF Needed, ProcessTables
<1>n. /\ version.next \in Nat /\ version.last \in Nat /\ version.manifest \in Nat
      /\ version.logfile \in Nat /\ Needed \in SUBSET Nat /\ Needed \subseteq DOMAIN tables
  BY NumberFacts
<1>v. /\ \A t \in Needed : t < version.next
      /\ version.next > 1 /\ version.manifest < version.next /\ version.logfile < version.next
  BY <1>1, <1>2, <1>i DEF NumbersInv, VersionNumbers, FileNumbers
<1>e. /\ E[2].next > 1 /\ version.manifest < E[2].next
      /\ E[2].next <= version.next /\ E[2].last = version.last
      /\ \A t \in version.tables \cup bg.edit.add : t < E[2].next
      /\ E[2].log = version.logfile
  BY <1>1, <1>i DEF NumbersInv, OpenedNumbers, E
<1>11. E[2] \in Edits /\ E[2].next \in Nat /\ E[2].last \in Nat
  <2>0. E \in Seq(Edits) /\ Len(E) = 2
    BY <1>4
  <2>1. E[2] \in Edits
    BY <2>0
  <2> QED BY <2>1 DEF Edits
<1>12. FilesInv'
  <2>1. Needed' \subseteq DOMAIN tables'
    BY <1>1, <1>10, <1>n
  <2>2. ASSUME NEW t \in Needed' PROVE <<"table", t>> \notin garbage'
    <3>1. \A x \in Obsolete(version', {}) :
             x[1] = "table" => x[2] \notin version'.tables \cup pinned \cup {}
      BY <1>i, ObsoleteFacts
    <3> QED BY <1>1, <1>8, <1>9, <3>1
  <2>3. <<"manifest", current'>> \notin garbage'
    <3>1. \A x \in Obsolete(version', {}) : x[1] = "manifest" => x[2] < version'.manifest
      BY <1>i, ObsoleteFacts
    <3>2. ~(version.manifest < version.manifest)
      BY <1>n
    <3> QED BY <1>1, <1>8, <3>1, <3>2
  <2>4. manifests'[current'].synced > 0
    BY <1>5
  <2> QED BY <1>2, <2>1, <2>2, <2>3, <2>4 DEF FilesInv
<1>13. AgreeInv'
  <2>1. bg'.phase # "sync"
    BY <1>1 DEF NoWork
  <2> QED BY <1>2, <1>7, <1>8, <2>1 DEF AgreeInv
<1>14. Last(Current)' = E[2] /\ Current'[2] = E[2]
  BY <1>4, <1>5 DEF Last
<1>15. EditNumbers'
  <2>1. ASSUME NEW n \in Lengths' \ {0}
        PROVE  /\ Current'[n].next > 1 /\ current' < Current'[n].next
               /\ \A t \in TablesOf(Prefix(n))' : t < Current'[n].next
               /\ Current'[n].next <= Last(Current)'.next
               /\ Current'[n].last <= Last(Current)'.last
    <3>1. n = 2
      BY <1>6
    <3>2. TablesOf(Prefix(n))' = version.tables \cup bg.edit.add
      BY <1>7, <3>1
    <3> QED BY <1>1, <1>e, <1>11, <1>14, <3>1, <3>2
  <2> QED BY <2>1 DEF EditNumbers
<1>16. VersionNumbers'
  <2>1. Lengths' \ {0} # {}
    BY <1>6
  <2> QED BY <1>8, <1>10, <1>14, <1>e, <1>v, <1>11, <1>n, <2>1 DEF VersionNumbers
<1>17. FileNumbers' /\ OpenedNumbers'
  BY <1>2, <1>8, <1>v DEF FileNumbers, OpenedNumbers
<1>18. LogNumbers'
  <2>1. bg'.edit.log = 0
    BY <1>1 DEF NoWork, NoEdit
  <2> QED BY <1>6, <1>8, <1>14, <1>e, <1>n, <2>1 DEF LogNumbers
<1> QED BY <1>10, <1>12, <1>13, <1>15, <1>16, <1>17, <1>18 DEF NumbersInv

LEMMA OpenDoneKeepsFiles ==
    ASSUME StoreIInv, Types', PhasesInv', OpenDone
    PROVE  FilesInv' /\ AgreeInv' /\ NumbersInv' /\ Needed' \subseteq Needed
<1>i. NumbersInv
  BY DEF StoreIInv
<1>1. /\ UNCHANGED <<version, pinned, merge, bg, bgError, current>>
      /\ up = "clean" /\ up' \in {"clean", "up"}
  BY DEF OpenDone
<1>2. Running /\ Running'
  BY <1>1 DEF Running
<1>3. /\ manifests'[current] = manifests[current] /\ garbage' \subseteq garbage
      /\ \A t \in Needed : t \in DOMAIN tables'
  <2>1. CASE garbage # {}
    <3>1. \E x \in garbage : RemoveFile(x)
      BY <2>1 DEF OpenDone
    <3> QED BY <1>2, <3>1, RemovalKeepsFiles
  <2>2. CASE garbage = {}
    <3>1. UNCHANGED <<manifests, tables, garbage>>
      BY <2>2 DEF OpenDone
    <3> QED BY <3>1, NumberFacts
  <2> QED BY <2>1, <2>2
<1>4. /\ version.next \in Nat /\ version.last \in Nat /\ version.logfile \in Nat
      /\ version.logfile < version.next /\ bg.edit.log <= version.logfile
  BY <1>2, <1>i, NumberFacts DEF NumbersInv, FileNumbers, LogNumbers
<1>5. ProcessTables' \subseteq Needed
  BY <1>1 DEF ProcessTables, Needed
<1>6. /\ version.next <= version'.next /\ version.last <= version'.last
      /\ version.logfile <= version'.logfile /\ version'.logfile < version'.next
      /\ bg'.edit.log <= version'.logfile
  BY <1>1, <1>4
<1> QED BY <1>1, <1>2, <1>3, <1>5, <1>6, RunningStep

LEMMA CrashKeepsFiles ==
    ASSUME StoreIInv, Types', Crash \/ MachineCrash \/ Closed
    PROVE  FilesInv' /\ AgreeInv' /\ NumbersInv' /\ Needed' \subseteq Needed
<1>1. Gone /\ tables' = tables /\ current' = current
  BY DEF Crash, MachineCrash, Closed, disk
<1>2. \/ current = 0 \/ manifests'[current] = manifests[current]
      \/ \E cut \in Lengths : manifests'[current] = [edits |-> Prefix(cut), synced |-> cut]
  <2>1. CASE Crash \/ Closed
    BY <2>1 DEF Crash, Closed, disk
  <2>2. CASE MachineCrash
    <3>1. PICK cut : /\ \A m \in DOMAIN manifests : cut[m] \in Cuts(manifests[m], manifests[m].edits)
                     /\ manifests' = [m \in DOMAIN manifests |->
                           [edits |-> SubSeq(manifests[m].edits, 1, cut[m]), synced |-> cut[m]]]
      BY <2>2 DEF MachineCrash
    <3>2. CASE current # 0
      <4>1. /\ current \in DOMAIN manifests /\ Len(Current) \in Nat
            /\ Lengths = manifests[current].synced .. Len(Current) /\ manifests[current].synced \in Nat
        BY <3>2, ManifestFacts DEF StoreIInv, Types
      <4>2. cut[current] \in Cuts(manifests[current], Current)
        BY <3>1, <4>1 DEF Current
      <4>3. cut[current] \in Lengths
        BY <4>1, <4>2 DEF Cuts
      <4>4. manifests'[current] = [edits |-> Prefix(cut[current]), synced |-> cut[current]]
        BY <3>1, <4>1 DEF Prefix, Current
      <4> QED BY <4>3, <4>4
    <3> QED BY <3>2
  <2> QED BY <2>1, <2>2
<1> QED BY <1>1, <1>2, GoneStep

-----------------------------------------------------------------------------
(* The invariant.                                                              *)

LEMMA FilesStep ==
    ASSUME StoreIInv, [StoreNext]_storeVars
    PROVE  /\ StoreIInv'
           /\ \A t \in Needed' \ Needed :
                 \/ t = version.next /\ (BeginMerge \/ (Flush /\ imm # {}))
                 \/ RecoverLogs /\ t \in RecoveredTables
<1> DEFINE Keeps == /\ FilesInv' /\ AgreeInv' /\ NumbersInv'
                    /\ \A t \in Needed' \ Needed :
                          \/ t = version.next /\ (BeginMerge \/ (Flush /\ imm # {}))
                          \/ RecoverLogs /\ t \in RecoveredTables
<1>0. ASSUME FilesInv' /\ AgreeInv' /\ NumbersInv', Needed' \subseteq Needed PROVE Keeps
  BY <1>0
<1> HIDE DEF Keeps
<1>1. Types' /\ PhasesInv'
  BY TypesStep, PhasesStep
<1>2. ASSUME UNCHANGED storeVars PROVE Keeps
  <2>1. UNCHANGED <<up, version, pinned, bgError, bg, merge, garbage, tables, manifests, current>>
    BY <1>2 DEF storeVars, process, disk
  <2>2. /\ Current' = Current /\ Lengths' = Lengths
        /\ \A n \in Lengths : Prefix(n)' = Prefix(n)
        /\ ManifestTables' = ManifestTables
    BY <2>1, ManifestUnchanged
  <2>3. /\ Needed' = Needed /\ Last(Current)' = Last(Current)
        /\ TablesOf(Current)' = TablesOf(Current)
        /\ \A n \in Lengths : TablesOf(Prefix(n))' = TablesOf(Prefix(n))
        /\ Applied(version.tables, bg.edit)' = Applied(version.tables, bg.edit)
        /\ Opened(manifests[version.manifest].edits)' = Opened(manifests[version.manifest].edits)
        /\ Opening' = Opening /\ Running' = Running
    BY <2>1, <2>2 DEF Needed, ProcessTables, Last, TablesOf, Applied, Opened, Opening, Running
  <2>4. FilesInv /\ AgreeInv /\ NumbersInv
    BY DEF StoreIInv
  <2>5. FilesInv'
    BY <2>1, <2>3, <2>4 DEF FilesInv
  <2>6. AgreeInv'
    BY <2>1, <2>3, <2>4 DEF AgreeInv
  <2>7. EditNumbers' /\ VersionNumbers'
    BY <2>1, <2>2, <2>3, <2>4 DEF NumbersInv, EditNumbers, VersionNumbers
  <2>8. FileNumbers' /\ OpenedNumbers' /\ LogNumbers'
    BY <2>1, <2>2, <2>3, <2>4 DEF NumbersInv, FileNumbers, OpenedNumbers, LogNumbers
  <2>9. NumbersInv'
    BY <2>7, <2>8 DEF NumbersInv
  <2> QED BY <1>0, <2>3, <2>5, <2>6, <2>9
<1>3. ASSUME BackgroundStep PROVE Keeps
  <2>1. CASE WriteEdit \/ Install
    BY <1>0, <1>1, <2>1, WriteEditKeepsFiles, InstallKeepsFiles
  <2>2. CASE ~WriteEdit /\ ~Install
    BY <1>1, <1>3, <2>2, BackgroundKeepsFiles DEF Keeps
  <2> QED BY <2>1, <2>2
<1>4. ASSUME OpenStep PROVE Keeps
  <2>1. CASE RecoverLogs
    BY <1>1, <2>1, RecoverLogsKeepsFiles DEF Keeps
  <2>2. CASE ~RecoverLogs
    BY <1>0, <1>1, <1>4, <2>2, NewDBKeepsFiles, RecoverManifestKeepsFiles, OpenLogKeepsFiles,
       OpenManifestKeepsFiles, OpenCurrentKeepsFiles, OpenDoneKeepsFiles DEF OpenStep
  <2> QED BY <2>1, <2>2
<1>5. ASSUME WriteStep \/ Pin \/ Unpin \/ Close \/ (\E w \in Writers : Enqueue(w))
      PROVE  Keeps
  BY <1>0, <1>1, <1>5, WritersKeepFiles
<1>6. ASSUME Crash \/ MachineCrash \/ Closed PROVE Keeps
  BY <1>0, <1>1, <1>6, CrashKeepsFiles
<1>7. Keeps
  BY <1>2, <1>3, <1>4, <1>5, <1>6 DEF StoreNext
<1> QED BY <1>1, <1>7 DEF Keeps, StoreIInv

LEMMA FilesInit ==
    ASSUME StoreInit
    PROVE  StoreIInv
<1>1. /\ up = "down" /\ queue = <<>> /\ lead = NoLead /\ mem = {} /\ imm = NoTable
      /\ pc = [w \in Writers |-> "idle"] /\ result = [w \in Writers |-> "none"]
      /\ version = NoVersion /\ pinned = {} /\ bgError = FALSE
      /\ bg = NoWork /\ merge = NoMerge /\ garbage = {}
      /\ logs = <<>> /\ tables = <<>> /\ manifests = <<>> /\ current = 0
  BY DEF StoreInit
<1>2. ~Opening /\ ~Running /\ Lengths = {}
  BY <1>1 DEF Opening, Running, Lengths
<1>3. NoVersion.next = 2 /\ NoVersion.manifest = 0 /\ NoVersion.tables = {}
      /\ NoMerge.num = 0 /\ NoWork.phase = "idle" /\ NoWork.edit = NoEdit /\ NoEdit.add = {}
      /\ NoEdit.log = 0
  BY DEF NoVersion, NoMerge, NoWork, NoEdit
<1>4. WriterTypes
  <2>1. queue \in Seq(Writers) /\ Len(queue) = 0
    BY <1>1, EmptySeq
  <2> QED BY <1>1, <2>1, NoLeadType DEF WriterTypes
<1>5. VersionType /\ ProcessTypes
  BY <1>1, Constants DEF VersionType, ProcessTypes
<1>6. DOMAIN <<>> = {}
  OBVIOUS
<1>7. LogTypes /\ TableTypes /\ ManifestTypes /\ LogsBounded
  <2>1. DOMAIN logs = {} /\ DOMAIN tables = {} /\ DOMAIN manifests = {}
    BY <1>1, <1>6
  <2>2. logs = [l \in {} |-> 0] /\ tables = [l \in {} |-> 0] /\ manifests = [l \in {} |-> 0]
    BY <1>1
  <2>3. 0 \in Nat
    OBVIOUS
  <2> QED BY <1>1, <2>1, <2>2, <2>3 DEF LogTypes, TableTypes, ManifestTypes, LogsBounded
<1>8. Needed = {}
  BY <1>1, <1>2, <1>3 DEF Needed, ManifestTables, ProcessTables
<1>9. PhasesInv
  BY <1>1, <1>2, <1>3 DEF PhasesInv, Behinds, StoreInit
<1>10. FilesInv /\ AgreeInv
  BY <1>1, <1>2, <1>8 DEF FilesInv, AgreeInv
<1>11. NumbersInv
  BY <1>1, <1>2, <1>3 DEF NumbersInv, EditNumbers, VersionNumbers, FileNumbers, OpenedNumbers, LogNumbers
<1> QED BY <1>4, <1>5, <1>7, <1>9, <1>10, <1>11 DEF StoreIInv, Types

LEMMA FilesImply ==
    ASSUME StoreIInv
    PROVE  StoreInv
<1>t. /\ WriterTypes /\ VersionType /\ ProcessTypes /\ LogTypes /\ TableTypes /\ ManifestTypes
      /\ PhasesInv /\ FilesInv
  BY DEF StoreIInv, Types
<1>1. StoreTypeOK
  <2>1. \A l \in DOMAIN logs : logs[l].synced \in 0 .. Len(logs[l].recs)
    BY <1>t, LogRecords DEF LogTypes
  <2>2. ASSUME NEW m \in DOMAIN manifests
        PROVE  manifests[m].synced \in 0 .. Len(manifests[m].edits)
    <3>1. manifests[m] \in Manifests /\ manifests[m].synced <= Len(manifests[m].edits)
      BY <1>t DEF ManifestTypes
    <3>2. manifests[m].synced \in Nat /\ Len(manifests[m].edits) \in Nat
      BY <3>1 DEF Manifests
    <3> QED BY <3>1, <3>2
  <2>3. lead.phase \in {"none", "room", "log", "sync", "insert"}
    BY <1>t DEF WriterTypes
  <2>4. bg.phase \in {"idle", "flush", "merge", "write", "sync", "clean", "open"}
    BY <1>t DEF ProcessTypes
  <2>5. behind \in Behinds
    BY <1>t DEF PhasesInv
  <2> QED BY <1>t, <2>1, <2>2, <2>3, <2>4, <2>5
          DEF StoreTypeOK, Behinds, WriterTypes, ProcessTypes, TableTypes, ManifestTypes
<1>2. ASSUME current # 0, NEW n \in manifests[current].synced .. Len(Current)
      PROVE  Openable(Current, n)
  <2>1. n \in Lengths
    BY <1>2 DEF Lengths
  <2>2. CASE n = 0
    <3>1. manifests[current].synced \in Nat
      BY <1>2, <1>t, ManifestFacts
    <3>2. ~(manifests[current].synced > 0)
      BY <2>2, <3>1
    <3>3. current = 1
      BY <1>2, <1>t, <3>2 DEF FilesInv
    <3> QED BY <2>2, <3>3 DEF Openable
  <2>3. CASE n # 0
    <3>1. TablesOf(Prefix(n)) \subseteq DOMAIN tables
      BY <1>t, <2>1 DEF FilesInv, Needed, ManifestTables
    <3> QED BY <2>3, <3>1 DEF Openable, Prefix
  <2> QED BY <2>2, <2>3
<1>3. version.tables \cup pinned \cup ({merge.num} \ {0}) \subseteq DOMAIN tables
  BY <1>t DEF FilesInv, Needed, ProcessTables
<1>4. NoFileMissing
  BY <1>2, <1>3 DEF NoFileMissing, Current
<1> QED BY <1>1, <1>4 DEF StoreInv

\* db_impl.cc, version_set.cc: whatever a crash of the process or of the machine leaves, the
\* next open finds every table that the manifest names, and RemoveObsoleteFiles never
\* removes one that the version, an iterator or a merge needs.
THEOREM NoFileIsMissing == StoreSpec => []StoreInv
<1>1. StoreInit => StoreIInv
  BY FilesInit
<1>2. StoreIInv /\ [StoreNext]_storeVars => StoreIInv'
  BY FilesStep
<1>3. StoreIInv => StoreInv
  BY FilesImply
<1> QED BY <1>1, <1>2, <1>3, PTL DEF StoreSpec

-----------------------------------------------------------------------------
(* Sequence numbers.                                                           *)

LEMMA StoredFacts ==
    ASSUME StoreIInv
    PROVE  /\ \A t \in Needed : t \in DOMAIN tables /\ tables[t] \in SUBSET Batch
           /\ \A t \in Needed : \A b \in tables[t] : b \in Contents(Needed)
           /\ \A b \in Contents(Needed) : \E t \in Needed : b \in tables[t]
           /\ \A l \in DOMAIN logs : l \in Nat /\ InLog(l) \in SUBSET Batch
           /\ Stored \in SUBSET Batch /\ \A b \in Stored : b[2] \in Nat
           /\ imm # NoTable => imm \subseteq InMemory
<1>t. ProcessTypes /\ LogTypes /\ TableTypes /\ FilesInv
  BY DEF StoreIInv, Types
<1>1. \A t \in Needed : t \in DOMAIN tables /\ tables[t] \in SUBSET Batch
  BY <1>t DEF FilesInv, TableTypes
<1>2. ASSUME NEW l \in DOMAIN logs PROVE l \in Nat /\ InLog(l) \in SUBSET Batch
  BY <1>t, LogRecords DEF LogTypes
<1>3. InMemory \in SUBSET Batch
  BY <1>t DEF ProcessTypes, InMemory
<1>4. Stored \in SUBSET Batch
  BY <1>1, <1>2, <1>3 DEF Stored, Contents, InLogs
<1>5. \A b \in Batch : b[2] \in Nat
  BY DEF Batch
<1>6. imm # NoTable => imm \subseteq InMemory
  <2>1. ASSUME imm \in SUBSET Batch PROVE <<"none", 0>> \notin imm
    BY <2>1 DEF Batch
  <2> QED BY <1>t, <2>1 DEF ProcessTypes, InMemory, NoTable
<1> QED BY <1>1, <1>2, <1>4, <1>5, <1>6 DEF Contents

\* A table that is needed is never written again.
LEMMA TablesKept ==
    ASSUME StoreIInv, [StoreNext]_storeVars, NEW t \in Needed, t \in DOMAIN tables'
    PROVE  tables'[t] = tables[t]
<1>t. VersionType /\ ProcessTypes /\ LogTypes /\ LogsBounded /\ PhasesInv /\ NumbersInv
  BY DEF StoreIInv, Types
<1>1. t \in DOMAIN tables /\ t \in Nat /\ version.next \in Nat
  BY NumberFacts
<1>2. ASSUME Opening \/ Running PROVE t < version.next
  BY <1>2, <1>t DEF NumbersInv, VersionNumbers
<1>3. ASSUME NEW X, Opening \/ Running, tables' = With(tables, version.next, X)
      PROVE  tables'[t] = tables[t]
  BY <1>1, <1>2, <1>3 DEF With
<1>4. ASSUME NEW x, RemoveFile(x) PROVE tables'[t] = tables[t]
  BY <1>4 DEF RemoveFile, Without
<1>5. ASSUME BackgroundStep PROVE tables'[t] = tables[t]
  <2>1. CASE Clean
    BY <1>4, <2>1 DEF Clean
  <2>2. CASE BeginMerge \/ Flush \/ FlushFails
    <3>1. up \in {"up", "closing"}
      <4>1. BeginMerge => up = "up"
        BY DEF BeginMerge, Begins
      <4>2. ~BeginMerge => bg.phase \in {"flush", "merge"}
        BY <2>2 DEF Flush, FlushFails, Flushing, Busy
      <4> QED BY <1>t, <4>1, <4>2, BusyRuns
    <3>2. tables' = tables \/ \E X : tables' = With(tables, version.next, X)
      BY <2>2 DEF BeginMerge, Flush, FlushFails
    <3>3. Running
      BY <3>1 DEF Running
    <3> QED BY <1>3, <3>2, <3>3
  <2>3. CASE ~Clean /\ ~BeginMerge /\ ~Flush /\ ~FlushFails
    BY <1>5, <2>3 DEF BackgroundStep, BeginNothing, BeginFlush, MergeDone, MergeFails, WriteEdit,
                      Install, EditFails, disk
  <2> QED BY <2>1, <2>2, <2>3
<1>6. ASSUME OpenStep PROVE tables'[t] = tables[t]
  <2>1. CASE OpenDone
    BY <1>4, <2>1 DEF OpenDone
  <2>2. CASE RecoverLogs
    <3>1. Opening
      BY <2>2 DEF RecoverLogs, Opening
    <3>2. t \notin RecoveredTables
      <4>1. ASSUME NEW l \in LogsWithData, t = RecoveredTable(l) PROVE FALSE
        <5>1. version.next <= t
          BY <1>t, <4>1, RecoveredNumbers
        <5> QED BY <1>1, <1>2, <3>1, <5>1
      <4> QED BY <4>1 DEF RecoveredTables
    <3> QED BY <1>1, <2>2, <3>2 DEF RecoverLogs
  <2>3. CASE ~OpenDone /\ ~RecoverLogs
    BY <1>6, <2>3 DEF OpenStep, NewDB, RecoverManifest, OpenLog, OpenManifest, OpenCurrent, disk
  <2> QED BY <2>1, <2>2, <2>3
<1>7. ASSUME ~BackgroundStep, ~OpenStep PROVE tables' = tables
  BY <1>7 DEF StoreNext, WriteStep, AtFront, RoomError, RoomFound, SwitchMemTable, SwitchFails,
              AddRecord, AddRecordFails, SyncLog, SyncLogFails, InsertInto, Enqueue, Pin, Unpin,
              Crash, MachineCrash, Close, Closed, disk, storeVars
<1> QED BY <1>5, <1>6, <1>7

\* What a table holds was in a table that is needed before, in memory or in a log that the
\* recovery read.
LEMMA ContentsStep ==
    ASSUME StoreIInv, [StoreNext]_storeVars, NEW t \in Needed', NEW b \in tables'[t]
    PROVE  \/ b \in Contents(Needed) \cup InMemory
           \/ RecoverLogs /\ \E l \in LogsFrom(version.log) : b \in InLog(l)
<1>1. /\ StoreIInv'
      /\ \A s \in Needed' \ Needed :
            \/ s = version.next /\ (BeginMerge \/ (Flush /\ imm # {}))
            \/ RecoverLogs /\ s \in RecoveredTables
  BY FilesStep
<1>2. CASE t \in Needed
  <2>1. t \in DOMAIN tables'
    BY <1>1 DEF StoreIInv, FilesInv
  <2> QED BY <1>2, <2>1, TablesKept, StoredFacts
<1>3. CASE t = version.next /\ BeginMerge
  <2>1. tables'[t] = Contents(version.tables)
    BY <1>3 DEF BeginMerge, With
  <2>2. version.tables \subseteq Needed
    BY DEF Needed, ProcessTables
  <2> QED BY <2>1, <2>2 DEF Contents
<1>4. CASE t = version.next /\ Flush /\ imm # {}
  <2>1. tables'[t] = imm /\ imm # NoTable
    BY <1>4 DEF Flush, Flushing, With
  <2> QED BY <2>1, StoredFacts
<1>5. CASE RecoverLogs /\ t \in RecoveredTables
  <2>1. tables'[t] = InLog(LogOf(t))
    BY <1>5 DEF RecoverLogs
  <2>2. VersionType /\ LogTypes /\ LogsBounded
    BY DEF StoreIInv, Types
  <2>3. PICK l \in LogsWithData : t = RecoveredTable(l)
    BY <1>5 DEF RecoveredTables
  <2>4. LogOf(t) = l
    BY <2>2, <2>3, RecoveredNumbers
  <2> QED BY <1>5, <2>1, <2>3, <2>4 DEF LogsWithData
<1> QED BY <1>1, <1>2, <1>3, <1>4, <1>5

LEMMA MemoryStep ==
    ASSUME StoreIInv, [StoreNext]_storeVars, NEW b \in InMemory'
    PROVE  b \in InMemory \/ (InsertInto /\ b \in Numbered)
<1>0. ASSUME mem' \subseteq mem \cup imm, imm' \subseteq mem \cup imm PROVE b \in InMemory
  <2>1. b \in mem' \cup imm' /\ b \notin NoTable
    <3>1. mem' \in SUBSET Batch
      BY TypesStep DEF StoreIInv, Types, ProcessTypes
    <3>2. \A c \in NoTable : c \notin Batch
      BY DEF NoTable, Batch
    <3> QED BY <3>1, <3>2 DEF InMemory
  <2> QED BY <1>0, <2>1 DEF InMemory
<1>1. CASE mem' = mem /\ imm' = imm
  BY <1>1 DEF InMemory
<1>2. CASE Install
  <2>1. mem' = mem /\ (imm' = imm \/ imm' = NoTable)
    BY <1>2 DEF Install
  <2> QED BY <2>1 DEF InMemory
<1>3. CASE SwitchMemTable
  <2>1. mem' = {} /\ imm' = mem
    BY <1>3 DEF SwitchMemTable
  <2> QED BY <1>0, <2>1
<1>4. CASE InsertInto
  BY <1>4 DEF InsertInto, InMemory
<1>5. CASE Gone
  BY <1>5 DEF Gone, InMemory
<1>6. CASE ~Install /\ ~SwitchMemTable /\ ~InsertInto /\ ~Gone
  <2>1. WriteStep => mem' = mem /\ imm' = imm
    BY <1>6 DEF WriteStep, AtFront, RoomError, RoomFound, SwitchFails, AddRecord,
                AddRecordFails, SyncLog, SyncLogFails
  <2>2. BackgroundStep => mem' = mem /\ imm' = imm
    BY <1>6 DEF BackgroundStep, BeginNothing, BeginFlush, BeginMerge, Flush, FlushFails,
                MergeDone, MergeFails, WriteEdit, EditFails, Clean
  <2>3. OpenStep => mem' = mem /\ imm' = imm
    BY DEF OpenStep, NewDB, RecoverManifest, RecoverLogs, OpenLog, OpenManifest, OpenCurrent,
           OpenDone, process
  <2>4. (\E w \in Writers : Enqueue(w)) \/ Pin \/ Unpin \/ Close \/ UNCHANGED storeVars
            => mem' = mem /\ imm' = imm
    BY DEF Enqueue, Pin, Unpin, Close, storeVars, process
  <2>5. ~Crash /\ ~MachineCrash /\ ~Closed
    BY <1>6 DEF Crash, MachineCrash, Closed
  <2> QED BY <1>1, <2>1, <2>2, <2>3, <2>4, <2>5 DEF StoreNext
<1> QED BY <1>1, <1>2, <1>3, <1>4, <1>5, <1>6

\* Only a group that is being written adds to what is stored.
LEMMA StoredStep ==
    ASSUME StoreIInv, [StoreNext]_storeVars, NEW b \in Stored'
    PROVE  b \in Stored \/ ((AddRecord \/ InsertInto) /\ b \in Numbered)
<1>t. WriterTypes /\ VersionType /\ LogTypes
  BY DEF StoreIInv, Types
<1>1. CASE b \in InMemory'
  BY <1>1, MemoryStep DEF Stored
<1>2. ASSUME NEW t \in Needed', b \in tables'[t] PROVE b \in Stored
  <2>1. \/ b \in Contents(Needed) \cup InMemory
        \/ \E l \in LogsFrom(version.log) : b \in InLog(l)
    BY <1>2, ContentsStep
  <2> QED BY <2>1 DEF Stored, InLogs, LogsFrom
<1>3. ASSUME NEW l \in DOMAIN logs', b \in InLog(l)'
      PROVE  b \in Stored \/ (AddRecord /\ b \in Numbered)
  <2>1. \/ l \in DOMAIN logs /\ b \in InLog(l)
        \/ AddRecord /\ l = version.logfile /\ b \in Numbered
    BY <1>3, <1>t, LogStep
  <2> QED BY <2>1 DEF Stored, InLogs
<1>4. \/ b \in InMemory' \/ (\E t \in Needed' : b \in tables'[t])
      \/ \E l \in DOMAIN logs' : b \in InLog(l)'
  BY DEF Stored, InLogs, Contents
<1> QED BY <1>1, <1>2, <1>3, <1>4

\* What is being written stays so or is counted; the log changes only in between.
LEMMA WritingStep ==
    ASSUME StoreIInv, [StoreNext]_storeVars, Counting
    PROVE  /\ AddRecord => Writing = {} /\ Writing' = Numbered
           /\ InsertInto => Writing = Numbered
           /\ Counting' =>
                 /\ version.last <= version'.last
                 /\ \A b \in Writing : b \in Writing' \/ b[2] <= version'.last
                 /\ InsertInto => \A b \in Numbered : b[2] <= version'.last
                 /\ version'.logfile = version.logfile \/ Writing = {}
<1>t. WriterTypes /\ VersionType /\ PhasesInv
  BY DEF StoreIInv, Types
<1>n. /\ version.last \in Nat /\ GroupCount \in Nat
      /\ \A b \in Numbered : b[2] \in Nat /\ version.last < b[2]
                             /\ b[2] <= version.last + GroupCount
      /\ \A n \in Nat : [version EXCEPT !.last = @ + n].last = version.last + n
      /\ \A n \in Nat : [version EXCEPT !.last = @ + n].logfile = version.logfile
  BY <1>t, NumberedType DEF VersionType
<1>1. CASE AddRecord
  <2>1. /\ version' = version /\ lead.phase = "log" /\ lead'.phase \in {"sync", "insert"}
        /\ lead'.group = lead.group
    BY <1>1, <1>t DEF AddRecord, WriterTypes
  <2>2. Writing = {} /\ Numbered' = Numbered
    BY <2>1 DEF Writing, Numbered
  <2>3. Writing' = Numbered
    BY <2>1, <2>2 DEF Writing
  <2>4. ~InsertInto
    BY <2>1 DEF InsertInto
  <2> QED BY <1>n, <2>1, <2>2, <2>3, <2>4
<1>2. CASE SyncLog
  <2>1. /\ version' = version /\ lead.phase = "sync" /\ lead'.phase = "insert"
        /\ lead'.group = lead.group
    BY <1>2, <1>t DEF SyncLog, WriterTypes
  <2>2. Numbered' = Numbered
    BY <2>1 DEF Numbered
  <2>3. Writing' = Writing
    BY <2>1, <2>2 DEF Writing
  <2>4. ~InsertInto /\ ~AddRecord
    BY <2>1 DEF InsertInto, AddRecord
  <2> QED BY <1>n, <2>1, <2>3, <2>4
<1>3. CASE SyncLogFails \/ InsertInto
  <2>1. /\ version' = [version EXCEPT !.last = @ + GroupCount]
        /\ lead.phase \in {"sync", "insert"} /\ ~AddRecord
    BY <1>3 DEF SyncLogFails, InsertInto, AddRecord
  <2>2. version'.last = version.last + GroupCount /\ version'.logfile = version.logfile
    BY <1>n, <2>1
  <2>3. Writing = Numbered
    BY <2>1 DEF Writing
  <2> QED BY <1>n, <2>1, <2>2, <2>3
<1>4. CASE WriteStep /\ ~AddRecord /\ ~SyncLog /\ ~SyncLogFails /\ ~InsertInto
  <2>1. lead.phase \notin {"sync", "insert"}
    BY <1>4 DEF WriteStep, AtFront, RoomError, RoomFound, SwitchMemTable, SwitchFails, Switches,
                AddRecordFails, NoLead
  <2>2. \/ version' = version \/ version' = [version EXCEPT !.last = @ + GroupCount]
        \/ version' = [version EXCEPT !.logfile = version.next, !.next = @ + 1]
    BY <1>4 DEF WriteStep, AtFront, RoomError, RoomFound, SwitchMemTable, SwitchFails,
                AddRecordFails
  <2>3. version.last <= version'.last
    <3>1. CASE version' = [version EXCEPT !.last = @ + GroupCount]
      BY <1>n, <3>1
    <3>2. CASE version' = [version EXCEPT !.logfile = version.next, !.next = @ + 1]
      BY <1>n, <1>t, <3>2 DEF VersionType
    <3> QED BY <1>n, <2>2, <3>1, <3>2
  <2>4. Writing = {}
    BY <2>1 DEF Writing
  <2> QED BY <1>4, <2>3, <2>4
<1>5. ASSUME ~WriteStep
      PROVE  /\ ~AddRecord /\ ~InsertInto
             /\ Counting' => /\ version.last <= version'.last
                             /\ \A b \in Writing : b \in Writing' \/ b[2] <= version'.last
                             /\ version'.logfile = version.logfile \/ Writing = {}
  <2>1. ~AddRecord /\ ~InsertInto
    BY <1>5 DEF WriteStep
  <2>2. ASSUME version'.last = version.last, version'.logfile = version.logfile, lead' = lead
        PROVE  /\ version.last <= version'.last
               /\ \A b \in Writing : b \in Writing'
               /\ version'.logfile = version.logfile
    <3>1. Numbered' = Numbered
      BY <2>2 DEF Numbered
    <3>2. Writing' = Writing
      BY <2>2, <3>1 DEF Writing
    <3> QED BY <1>n, <2>2, <3>2
  <2>3. ASSUME BackgroundStep PROVE version'.last = version.last /\ version'.logfile = version.logfile
                                    /\ lead' = lead
    <3>1. \/ version' = version \/ version' = [version EXCEPT !.next = @ + 1]
          \/ version' = [version EXCEPT !.tables = Applied(@, bg.edit), !.log = bg.edit.log]
      BY <2>3 DEF BackgroundStep, BeginNothing, BeginFlush, BeginMerge, Flush, FlushFails,
                  MergeDone, MergeFails, WriteEdit, Install, EditFails, Clean
    <3>2. lead' = lead
      BY <2>3 DEF BackgroundStep, BeginNothing, BeginFlush, BeginMerge, Flush, FlushFails,
                  MergeDone, MergeFails, WriteEdit, Install, EditFails, Clean
    <3> QED BY <1>t, <3>1, <3>2 DEF VersionType
  <2>4. ASSUME OpenStep, up \notin {"up", "closing"}
        PROVE  Writing = {}
    BY <1>t, <2>4 DEF PhasesInv, Writing, NoLead
  <2>5. ASSUME OpenStep PROVE up \notin {"up", "closing"} /\ version.last <= version'.last
    <3>1. up \notin {"up", "closing", "logs"}
      BY <2>5 DEF Counting, Running, OpenStep, NewDB, RecoverManifest, RecoverLogs, OpenLog,
                  OpenManifest, OpenCurrent, OpenDone
    <3>2. \/ version' = version
          \/ version' = [version EXCEPT !.logfile = version.next, !.next = @ + 1]
          \/ version' = [version EXCEPT !.tables = Applied(@, bg.edit), !.log = version.logfile]
      BY <2>5, <3>1 DEF OpenStep, NewDB, RecoverManifest, RecoverLogs, OpenLog, OpenManifest,
                        OpenCurrent, OpenDone, Counting, Running, process
    <3>3. version'.last = version.last
      BY <1>t, <3>2 DEF VersionType
    <3> QED BY <1>n, <3>1, <3>3
  <2>6. (\E w \in Writers : Enqueue(w)) \/ Pin \/ Unpin \/ Close \/ UNCHANGED storeVars
            => version' = version /\ lead' = lead
    BY DEF Enqueue, Pin, Unpin, Close, storeVars, process
  <2>7. Crash \/ MachineCrash \/ Closed => ~Counting'
    BY DEF Crash, MachineCrash, Closed, Gone, Counting, Running
  <2> QED BY <1>5, <2>1, <2>2, <2>3, <2>4, <2>5, <2>6, <2>7 DEF StoreNext
<1> QED BY <1>1, <1>2, <1>3, <1>4, <1>5 DEF WriteStep

\* No batch gets a number that another has.
LEMMA NumbersUsedOnceStep ==
    ASSUME StoreIInv, SequenceInv, [StoreNext]_storeVars
    PROVE  NumbersUsedOnce'
<1>t. WriterTypes /\ VersionType /\ PhasesInv /\ VersionSequences /\ NumbersUsedOnce
  BY DEF StoreIInv, Types, SequenceInv
<1>n. /\ version.last \in Nat /\ \A b \in Stored : b[2] \in Nat
      /\ \A b \in Numbered : b[2] \in Nat /\ version.last < b[2]
      /\ \A b, c \in Numbered : b[2] = c[2] => b = c
  BY <1>t, NumberedType, StoredFacts DEF VersionType
<1>1. ASSUME AddRecord \/ InsertInto PROVE Counting
  <2>1. up \in {"up", "closing"}
    BY <1>1, <1>t DEF AddRecord, InsertInto, PhasesInv, NoLead
  <2> QED BY <2>1 DEF Counting, Running
<1>2. ASSUME AddRecord \/ InsertInto, NEW b \in Numbered, NEW c \in Stored, b[2] = c[2] PROVE b = c
  <2>1. c[2] <= version.last \/ c \in Writing
    BY <1>1, <1>2, <1>t DEF VersionSequences
  <2>2. Writing \subseteq Numbered
    BY DEF Writing
  <2>3. ~(c[2] <= version.last)
    BY <1>2, <1>n
  <2> QED BY <1>2, <1>n, <2>1, <2>2, <2>3
<1>3. ASSUME NEW b \in Stored', NEW c \in Stored', b[2] = c[2] PROVE b = c
  <2>1. b \in Stored \/ ((AddRecord \/ InsertInto) /\ b \in Numbered)
    BY StoredStep
  <2>2. c \in Stored \/ ((AddRecord \/ InsertInto) /\ c \in Numbered)
    BY StoredStep
  <2>3. CASE b \in Stored /\ c \in Stored
    BY <1>3, <1>t, <2>3 DEF NumbersUsedOnce
  <2>4. CASE (AddRecord \/ InsertInto) /\ b \in Numbered /\ c \in Stored
    BY <1>2, <1>3, <2>4
  <2>5. CASE (AddRecord \/ InsertInto) /\ c \in Numbered /\ b \in Stored
    BY <1>2, <1>3, <2>5
  <2>6. CASE b \in Numbered /\ c \in Numbered
    BY <1>3, <1>n, <2>6
  <2> QED BY <2>1, <2>2, <2>3, <2>4, <2>5, <2>6
<1> QED BY <1>3 DEF NumbersUsedOnce

\* What the manifest ends with bounds what its tables hold: the logs that are read from it on
\* hold the rest.
LEMMA RecoveryCounts ==
    ASSUME StoreIInv, SequenceInv, RecoverLogs
    PROVE  /\ version'.last \in Nat
           /\ \A b \in Stored : b[2] <= version'.last
<1>t. /\ VersionType /\ LogTypes /\ LogsBounded /\ PhasesInv /\ FilesInv /\ ManifestTypes
      /\ EditNumbers /\ VersionNumbers /\ EditSequences /\ OpenedSequences
  BY DEF StoreIInv, Types, SequenceInv, NumbersInv
<1>1. /\ up = "logs" /\ version' = [version EXCEPT !.next = NextRecovered, !.last = RecoveredLast]
  BY DEF RecoverLogs, NextRecovered
<1>2. Opening /\ current # 0
  BY <1>1, <1>t DEF Opening, FilesInv
<1>3. /\ version'.last = RecoveredLast /\ RecoveredLast \in Nat /\ version.last <= RecoveredLast
      /\ version.last \in Nat
      /\ \A l \in LogsFrom(version.log) : \A b \in InLog(l) : b[2] <= RecoveredLast
  BY <1>1, <1>t, RecoveredCounters DEF VersionType
<1>4. /\ version.tables = TablesOf(Current) /\ version.last = Last(Current).last
      /\ version.log = Last(Current).log
  BY <1>1, <1>t DEF OpenedSequences
<1>5. PICK n \in Nat : n = Len(Current) /\ n \in Lengths \ {0}
  <2>1. Lengths \ {0} # {} /\ Len(Current) \in Nat /\ Len(Current) \in Lengths
        /\ Lengths \subseteq 0 .. Len(Current)
    BY <1>2, <1>t, ManifestFacts DEF VersionNumbers
  <2>2. PICK m \in Lengths : m # 0
    BY <2>1
  <2>3. m \in 0 .. Len(Current)
    BY <2>1
  <2>4. Len(Current) # 0
    BY <2>1, <2>2, <2>3
  <2> QED BY <2>1, <2>4
<1>6. /\ Last(Current) = Current[n] /\ Prefix(n) = Current
  BY <1>2, <1>5, NumberFacts DEF Last
<1>7. ASSUME NEW b \in Stored, b[2] <= version.last PROVE b[2] <= version'.last
  BY <1>3, <1>7, StoredFacts
<1>8. ASSUME NEW t \in Needed, NEW b \in tables[t] PROVE b[2] <= version.last
  <2>1. pinned = {} /\ merge = NoMerge /\ bg = NoWork
    BY <1>1, <1>t DEF PhasesInv
  <2>2. ProcessTables = TablesOf(Prefix(n))
    BY <1>4, <1>6, <2>1 DEF ProcessTables, NoMerge, NoWork, NoEdit
  <2>3. PICK m \in Lengths : t \in TablesOf(Prefix(m))
    BY <1>5, <2>2 DEF Needed, ManifestTables
  <2>4. m # 0
    <3>1. Prefix(0) = <<>>
      BY DEF Prefix
    <3> QED BY <2>3, <3>1, TablesOfNothing
  <2>5. b[2] <= Current[m].last /\ Current[m].last <= Last(Current).last
    BY <1>t, <2>3, <2>4 DEF EditSequences, EditNumbers
  <2>6. Current[m] \in Edits /\ Last(Current) \in Edits
    BY <2>4, NumberFacts
  <2>7. b[2] \in Nat
    BY StoredFacts DEF Stored
  <2>8. Current[m].last \in Nat /\ Last(Current).last \in Nat
    BY <2>6 DEF Edits
  <2> QED BY <1>4, <2>5, <2>7, <2>8
<1>9. ASSUME NEW l \in DOMAIN logs, NEW b \in InLog(l) PROVE b[2] <= version'.last
  <2>1. b \in Stored
    BY DEF Stored, InLogs
  <2>2. CASE l >= version.log
    BY <1>3, <2>2 DEF LogsFrom
  <2>3. CASE ~(l >= version.log)
    <3>1. l < Current[n].log
      <4>1. l \in Nat /\ version.log \in Nat
        BY NumberFacts, StoredFacts
      <4> QED BY <1>4, <1>6, <2>3, <4>1
    <3>2. b[2] <= version.last
      BY <1>4, <1>5, <1>6, <1>t, <3>1 DEF EditSequences
    <3> QED BY <1>7, <2>1, <3>2
  <2> QED BY <2>2, <2>3
<1>10. InMemory = {}
  BY <1>1, <1>t DEF PhasesInv, InMemory
<1>11. ASSUME NEW b \in Stored PROVE b[2] <= version'.last
  <2>1. CASE \E t \in Needed : b \in tables[t]
    BY <1>7, <1>8, <2>1
  <2>2. CASE \E l \in DOMAIN logs : b \in InLog(l)
    BY <1>9, <2>2
  <2> QED BY <1>10, <2>1, <2>2 DEF Stored, Contents, InLogs
<1> QED BY <1>3, <1>11

LEMMA VersionSequencesStep ==
    ASSUME StoreIInv, SequenceInv, [StoreNext]_storeVars
    PROVE  VersionSequences'
<1>t. /\ WriterTypes /\ VersionType /\ LogTypes /\ PhasesInv /\ VersionSequences
  BY DEF StoreIInv, Types, SequenceInv
<1>i. /\ StoreIInv' /\ version'.last \in Nat /\ version.last \in Nat
      /\ \A b \in Stored : b[2] \in Nat
  <2>1. StoreIInv'
    BY FilesStep
  <2>2. version'.last \in Nat
    BY <2>1 DEF StoreIInv, Types, VersionType
  <2> QED BY <2>1, <2>2, NumberFacts, StoredFacts
<1>1. CASE RecoverLogs
  <2>1. ~AddRecord /\ ~InsertInto
    BY <1>1, <1>t DEF AddRecord, InsertInto, RecoverLogs, PhasesInv, NoLead
  <2>2. ASSUME NEW b \in Stored' PROVE b[2] <= version'.last
    BY <1>1, <2>1, RecoveryCounts, StoredStep
  <2> QED BY <2>2 DEF VersionSequences, Stored, InLogs
<1>2. CASE ~RecoverLogs /\ Counting'
  <2>1. Counting
    BY <1>2 DEF Counting, Running, StoreNext, WriteStep, AtFront, RoomError, RoomFound,
        SwitchMemTable, SwitchFails, AddRecord, AddRecordFails, SyncLog, SyncLogFails, InsertInto,
        BackgroundStep, BeginNothing, BeginFlush, BeginMerge, Flush, FlushFails, MergeDone,
        MergeFails, WriteEdit, Install, EditFails, Clean, OpenStep, NewDB, RecoverManifest, OpenLog,
        OpenManifest, OpenCurrent, OpenDone, Enqueue, Pin, Unpin, Crash, MachineCrash, Close,
        Closed, Gone, storeVars, process
  <2>2. /\ AddRecord => Writing = {} /\ Writing' = Numbered
        /\ version.last <= version'.last
        /\ \A b \in Writing : b \in Writing' \/ b[2] <= version'.last
        /\ InsertInto => \A b \in Numbered : b[2] <= version'.last
        /\ version'.logfile = version.logfile \/ Writing = {}
    BY <1>2, <2>1, WritingStep
  <2>3. /\ \A b \in Stored : b[2] <= version.last \/ b \in Writing
        /\ \A b \in InMemory \cup Contents(Needed) : b[2] <= version.last
        /\ \A l \in DOMAIN logs \ {version.logfile} :
              \A b \in InLog(l) : b[2] <= version.last
    BY <1>t, <2>1 DEF VersionSequences
  <2>4. ASSUME NEW b \in Stored, b[2] <= version.last PROVE b[2] <= version'.last
    BY <1>i, <2>2, <2>4
  <2>5. ASSUME NEW b \in Stored' PROVE b[2] <= version'.last \/ b \in Writing'
    <3>1. b \in Stored \/ ((AddRecord \/ InsertInto) /\ b \in Numbered)
      BY StoredStep
    <3> QED BY <2>2, <2>3, <2>4, <3>1
  <2>6. ASSUME NEW b \in InMemory' PROVE b[2] <= version'.last
    <3>1. CASE b \in InMemory
      <4>1. b \in Stored
        BY <3>1 DEF Stored
      <4> QED BY <2>3, <2>4, <3>1, <4>1
    <3> QED BY <2>2, <3>1, MemoryStep
  <2>7. ASSUME NEW t \in Needed', NEW b \in tables'[t] PROVE b[2] <= version'.last
    <3>1. b \in Contents(Needed) \cup InMemory
      BY <1>2, ContentsStep
    <3>2. b \in Stored
      BY <3>1 DEF Stored
    <3> QED BY <2>3, <2>4, <3>1, <3>2
  <2>8. ASSUME NEW l \in DOMAIN logs' \ {version'.logfile}, NEW b \in InLog(l)'
        PROVE  b[2] <= version'.last
    <3>1. \/ l \in DOMAIN logs /\ b \in InLog(l)
          \/ AddRecord /\ l = version.logfile /\ b \in Numbered
      BY <1>t, LogStep
    <3>2. ~(AddRecord /\ l = version.logfile)
      BY DEF AddRecord
    <3>3. b \in Stored
      BY <3>1, <3>2 DEF Stored, InLogs
    <3>4. CASE l # version.logfile
      BY <2>3, <2>4, <3>1, <3>3, <3>4
    <3>5. CASE l = version.logfile
      BY <2>2, <2>3, <2>4, <3>3, <3>5
    <3> QED BY <3>4, <3>5
  <2>9. \A b \in (InMemory \cup Contents(Needed))' : b[2] <= version'.last
    BY <2>6, <2>7 DEF Contents
  <2> QED BY <2>5, <2>8, <2>9, SMTT(30) DEF VersionSequences
<1> QED BY <1>1, <1>2 DEF VersionSequences

\* An edit counts the numbers of its tables and of the logs it makes obsolete: what a step
\* leaves of that.
EditCounts(n) ==
    /\ \A t \in TablesOf(Prefix(n)) : \A b \in tables[t] : b[2] <= Current[n].last
    /\ \A l \in DOMAIN logs :
          l < Current[n].log => \A b \in InLog(l) : b[2] <= Current[n].last

LEMMA SameEditCounts ==
    ASSUME StoreIInv, SequenceInv, [StoreNext]_storeVars, NEW n \in Lengths \ {0},
           Current'[n] = Current[n], TablesOf(Prefix(n))' = TablesOf(Prefix(n)),
           TablesOf(Prefix(n)) \subseteq DOMAIN tables'
    PROVE  EditCounts(n)'
<1>t. /\ WriterTypes /\ VersionType /\ LogTypes /\ PhasesInv /\ EditSequences /\ LogNumbers
  BY DEF StoreIInv, Types, SequenceInv, NumbersInv
<1>1. ASSUME NEW t \in TablesOf(Prefix(n)), NEW b \in tables'[t] PROVE b[2] <= Current[n].last
  <2>1. t \in Needed /\ t \in DOMAIN tables'
    BY NumberFacts DEF Needed
  <2>2. tables'[t] = tables[t]
    BY <2>1, TablesKept
  <2> QED BY <1>1, <1>t, <2>2 DEF EditSequences
<1>2. ASSUME NEW l \in DOMAIN logs', l < Current[n].log, NEW b \in InLog(l)'
      PROVE  b[2] <= Current[n].last
  <2>1. \/ l \in DOMAIN logs /\ b \in InLog(l)
        \/ AddRecord /\ l = version.logfile
    BY <1>t, LogStep
  <2>2. ASSUME AddRecord, l = version.logfile PROVE FALSE
    <3>1. Running
      BY <1>t, <2>2 DEF AddRecord, PhasesInv, NoLead, Running
    <3>2. Current[n].log <= version.logfile
      BY <1>t, <3>1 DEF LogNumbers
    <3>3. Current[n].log \in Nat /\ version.logfile \in Nat
      BY NumberFacts DEF Edits
    <3> QED BY <1>2, <2>2, <3>2, <3>3
  <2> QED BY <1>2, <1>t, <2>1, <2>2 DEF EditSequences
<1> QED BY <1>1, <1>2 DEF EditCounts

\* Steps that leave the manifest of CURRENT as it is.
LEMMA SameManifestCounts ==
    ASSUME StoreIInv, SequenceInv, [StoreNext]_storeVars,
           current' = current, current # 0 => manifests'[current] = manifests[current]
    PROVE  EditSequences'
<1>1. CASE current = 0
  BY <1>1 DEF EditSequences, Lengths
<1>2. CASE current # 0
  <2>1. /\ Current' = Current /\ Lengths' = Lengths
        /\ \A n \in Lengths : Prefix(n)' = Prefix(n)
    BY <1>2, ManifestUnchanged
  <2>2. StoreIInv'
    BY FilesStep
  <2>3. ASSUME NEW n \in Lengths \ {0} PROVE EditCounts(n)'
    <3>1. TablesOf(Prefix(n))' = TablesOf(Prefix(n))
      BY <2>1 DEF TablesOf
    <3>2. TablesOf(Prefix(n))' \subseteq Needed'
      BY <2>1, <2>3 DEF Needed, ManifestTables
    <3>3. TablesOf(Prefix(n)) \subseteq DOMAIN tables'
      BY <2>2, <3>1, <3>2 DEF StoreIInv, FilesInv
    <3> QED BY <2>1, <3>1, <3>3, SameEditCounts
  <2> QED BY <2>1, <2>3 DEF EditSequences, EditCounts
<1> QED BY <1>1, <1>2

LEMMA EditAppendedCounts ==
    ASSUME StoreIInv, SequenceInv, WriteEdit, behind = "nothing"
    PROVE  EditSequences'
<1>t. /\ ProcessTypes /\ VersionType /\ ManifestTypes /\ ManifestTypes' /\ PhasesInv
      /\ VersionSequences
  <2>1. [StoreNext]_storeVars
    BY DEF StoreNext, BackgroundStep
  <2> QED BY <2>1, FilesStep DEF StoreIInv, Types, SequenceInv
<1> DEFINE e == Complete(bg.edit)
<1>1. /\ UNCHANGED <<version, tables, logs, current>> /\ bg.phase = "write"
      /\ manifests' = [manifests EXCEPT ![version.manifest].edits = Append(@, e)]
      /\ [StoreNext]_storeVars
  BY DEF WriteEdit, Busy, StoreNext, BackgroundStep
<1>2. /\ up \in {"up", "closing"} /\ current = version.manifest /\ current # 0
  BY <1>1, <1>t, BusyRuns
<1>3. Counting
  BY <1>2 DEF Counting, Running
<1>4. /\ current \in DOMAIN manifests /\ Current \in Seq(Edits) /\ Len(Current) \in Nat
      /\ manifests[current].synced \in Nat /\ manifests[current].synced <= Len(Current)
      /\ Lengths = manifests[current].synced .. Len(Current)
      /\ manifests[current] \in Manifests
  BY <1>2, <1>t, ManifestFacts
<1>5. e \in Edits /\ e.add = bg.edit.add /\ e.last = version.last /\ e.log = bg.edit.log
  <2>1. bg.edit \in Edits /\ version.next \in Nat /\ version.last \in Nat
    BY NumberFacts
  <2> QED BY <2>1 DEF Complete, Edits
<1> HIDE DEF e
<1>6. /\ Current' = Append(Current, e) /\ manifests'[current].synced = manifests[current].synced
  BY <1>1, <1>2, <1>4 DEF Current, Manifests
<1>7. PICK len \in Nat : len = Len(Current)
  BY <1>4
<1>8. /\ Len(Append(Current, e)) = len + 1 /\ Append(Current, e)[len + 1] = e
      /\ \A n \in 1 .. len : Append(Current, e)[n] = Current[n]
  BY <1>4, <1>5, <1>7
<1>9. Lengths' = manifests[current].synced .. len + 1
  BY <1>1, <1>2, <1>6, <1>8 DEF Lengths
<1>10. ASSUME NEW n \in Lengths \ {0} PROVE EditCounts(n)'
  <2>1. n \in 1 .. len
    BY <1>7, NumberFacts
  <2>2. Current'[n] = Current[n]
    BY <1>6, <1>8, <2>1
  <2>3. Prefix(n)' = Prefix(n)
    BY <1>4, <1>5, <1>6, <1>7, <2>1, PrefixFacts DEF Prefix
  <2>4. TablesOf(Prefix(n))' = TablesOf(Prefix(n))
    BY <2>3 DEF TablesOf
  <2>5. TablesOf(Prefix(n)) \subseteq DOMAIN tables'
    BY <1>1, NumberFacts DEF Needed
  <2> QED BY <1>1, <2>2, <2>4, <2>5, SameEditCounts
<1>11. ASSUME NEW n \in Nat, n = len + 1 PROVE EditCounts(n)'
  <2>1. Current'[n] = e
    BY <1>6, <1>8, <1>11
  <2>2. Prefix(n)' = Append(Current, e)
    <3>1. SubSeq(Append(Current, e), 1, n) = Append(Current, e)
      BY <1>4, <1>5, <1>8, <1>11, SubSeqFull
    <3> QED BY <1>6, <3>1 DEF Prefix
  <2>3. TablesOf(Prefix(n))' \subseteq Needed
    <3>1. TablesOf(Prefix(n))' = Applied(TablesOf(Current), e)
      <4>1. TablesOf(Append(Current, e)) = Applied(TablesOf(Current), e)
        BY <1>4, <1>5, TablesAppend
      <4>2. TablesOf(Prefix(n))' = TablesOf(Append(Current, e))
        BY <2>2 DEF TablesOf
      <4> QED BY <4>1, <4>2
    <3>2. TablesOf(Current) \subseteq ManifestTables
      <4>1. len \in Lengths /\ Prefix(len) = Current
        BY <1>2, <1>4, <1>7, NumberFacts
      <4> QED BY <4>1, NumberFacts
    <3> QED BY <1>5, <3>1, <3>2 DEF Applied, Needed, ProcessTables
  <2>4. ASSUME NEW t \in TablesOf(Prefix(n))', NEW b \in tables'[t] PROVE b[2] <= e.last
    <3>1. b \in Contents(Needed)
      BY <1>1, <2>3, <2>4 DEF Contents
    <3> QED BY <1>3, <1>5, <1>t, <3>1 DEF VersionSequences
  <2>5. ASSUME NEW l \in DOMAIN logs', l < e.log, NEW b \in InLog(l)' PROVE b[2] <= e.last
    <3>1. l \in DOMAIN logs /\ b \in InLog(l)
      BY <1>1, <2>5 DEF InLog
    <3>2. l # version.logfile
      <4>1. bg.edit.log <= version.logfile
        BY <1>2 DEF StoreIInv, NumbersInv, LogNumbers, Running
      <4> QED BY <1>5, <2>5, <3>1, <4>1, NumberFacts, StoredFacts
    <3> QED BY <1>3, <1>5, <1>t, <3>1, <3>2 DEF VersionSequences
  <2> QED BY <2>1, <2>4, <2>5 DEF EditCounts
<1>12. ASSUME NEW n \in Lengths' \ {0} PROVE EditCounts(n)'
  <2>1. n \in Lengths \ {0} \/ (n \in Nat /\ n = len + 1)
    BY <1>4, <1>7, <1>9
  <2> QED BY <1>10, <1>11, <2>1
<1> QED BY <1>12 DEF EditSequences, EditCounts

LEMMA WriteEditCounts ==
    ASSUME StoreIInv, SequenceInv, WriteEdit
    PROVE  EditSequences'
<1>1. CASE behind = "nothing"
  BY <1>1, EditAppendedCounts
<1>2. CASE behind # "nothing"
  <2>1. /\ [StoreNext]_storeVars /\ manifests' = manifests /\ current' = current
    BY <1>2 DEF WriteEdit, StoreNext, BackgroundStep
  <2> QED BY <2>1, SameManifestCounts
<1> QED BY <1>1, <1>2

LEMMA InstallCounts ==
    ASSUME StoreIInv, SequenceInv, Install
    PROVE  EditSequences'
<1>t. ProcessTypes /\ VersionType /\ ManifestTypes /\ PhasesInv
  BY DEF StoreIInv, Types
<1>1. /\ UNCHANGED <<tables, logs, current>> /\ bg.phase = "sync"
      /\ manifests' = [manifests EXCEPT ![version.manifest].synced =
                                            Len(manifests[version.manifest].edits)]
      /\ [StoreNext]_storeVars
  BY DEF Install, Busy, StoreNext, BackgroundStep
<1>2. /\ up \in {"up", "closing"} /\ current = version.manifest /\ current # 0
  BY <1>1, <1>t, BusyRuns
<1>3. /\ current \in DOMAIN manifests /\ Len(Current) \in Nat
      /\ Lengths = manifests[current].synced .. Len(Current)
      /\ Len(Current) \in Lengths /\ manifests[current] \in Manifests
  BY <1>2, <1>t, ManifestFacts
<1>4. Current' = Current /\ manifests'[current].synced = Len(Current)
  BY <1>1, <1>2, <1>3 DEF Current, Manifests
<1>5. Lengths' \subseteq Lengths
  BY <1>1, <1>2, <1>3, <1>4 DEF Lengths
<1>6. ASSUME NEW n \in Lengths \ {0} PROVE EditCounts(n)'
  <2>1. TablesOf(Prefix(n))' = TablesOf(Prefix(n))
    BY <1>4 DEF TablesOf, Prefix
  <2>2. TablesOf(Prefix(n)) \subseteq DOMAIN tables'
    BY <1>1, NumberFacts DEF Needed
  <2> QED BY <1>1, <1>4, <2>1, <2>2, SameEditCounts
<1> QED BY <1>5, <1>6 DEF EditSequences, EditCounts

LEMMA NewDBCounts ==
    ASSUME StoreIInv, NewDB
    PROVE  EditSequences'
<1> DEFINE e == [NoEdit EXCEPT !.next = 2]
<1>1. /\ manifests' = With(manifests, 1, [edits |-> <<e>>, synced |-> 0]) /\ current' = 1
      /\ logs' = logs
  BY DEF NewDB
<1>2. Current' = <<e>> /\ manifests'[current'].synced = 0
  BY <1>1 DEF Current, With
<1>3. Lengths' = 0 .. 1
  BY <1>1, <1>2 DEF Lengths
<1>4. ASSUME NEW n \in Lengths' \ {0} PROVE EditCounts(n)'
  <2>1. n = 1
    BY <1>3
  <2>2. e.add = {} /\ e.log = 0 /\ e \in Edits
    BY DEF NoEdit, Edits
  <2> HIDE DEF e
  <2> DEFINE E == <<e>>
  <2>e. E \in Seq(Edits) /\ Len(E) = 1 /\ E[1] = e
    BY <2>2
  <2> HIDE DEF E
  <2>3. Current'[n] = e /\ Prefix(n)' = E
    <3>1. SubSeq(E, 1, 1) = E
      BY <2>e, SubSeqFull
    <3>2. Current' = E
      BY <1>2 DEF E
    <3> QED BY <2>1, <2>e, <3>1, <3>2 DEF Prefix
  <2>4. TablesOf(Prefix(n))' = {}
    <3>1. TablesOf(E) = {}
      BY <2>2, <2>e, TablesOfOne
    <3> QED BY <2>3, <3>1 DEF TablesOf
  <2>5. \A l \in DOMAIN logs' : ~(l < e.log)
    BY <1>1, <2>2, StoredFacts
  <2> QED BY <2>3, <2>4, <2>5 DEF EditCounts
<1> QED BY <1>4 DEF EditSequences, EditCounts

LEMMA OpenCurrentCounts ==
    ASSUME StoreIInv, SequenceInv, OpenCurrent
    PROVE  EditSequences'
<1>t. /\ AgreeInv /\ NumbersInv /\ ManifestTypes /\ VersionSequences
  BY DEF StoreIInv, Types, SequenceInv
<1>1. /\ UNCHANGED <<tables, logs, manifests>> /\ up = "current" /\ current' = version.manifest
  BY DEF OpenCurrent
<1>2. Counting
  BY <1>1 DEF Counting
<1> DEFINE E == manifests[version.manifest].edits
<1>3. /\ version.manifest \in DOMAIN manifests /\ version.manifest # 0
      /\ manifests[version.manifest].synced = 2
      /\ Len(E) = 2 /\ E[1] = [NoEdit EXCEPT !.add = version.tables]
      /\ E[2].add = bg.edit.add /\ E[2].del = {}
      /\ E[2].last = version.last /\ E[2].log = version.logfile
  BY <1>1, <1>t DEF AgreeInv, Opened, NumbersInv, OpenedNumbers
<1>4. E \in Seq(Edits)
  BY <1>3, <1>t DEF ManifestTypes, Manifests
<1>5. Current' = E
  BY <1>1 DEF Current
<1>6. TablesOf(E) = version.tables \cup bg.edit.add
  <2>1. E[1].add = version.tables
    BY <1>3 DEF NoEdit
  <2> QED BY <1>3, <1>4, <2>1, TablesOfTwo
<1> HIDE DEF E
<1>7. Lengths' = {2}
  <2>1. current' # 0 /\ manifests'[current'].synced = 2 /\ Len(Current)' = 2
    BY <1>1, <1>3, <1>5
  <2>2. 2 .. 2 = {2}
    OBVIOUS
  <2> QED BY <2>1, <2>2 DEF Lengths
<1>8. EditCounts(2)'
  <2>1. Prefix(2)' = E
    <3>1. SubSeq(E, 1, 2) = E
      BY <1>3, <1>4, SubSeqFull
    <3> QED BY <1>5, <3>1 DEF Prefix
  <2>2. TablesOf(Prefix(2))' = TablesOf(E)
    BY <2>1 DEF TablesOf
  <2>3. ASSUME NEW t \in TablesOf(E), NEW b \in tables'[t] PROVE b[2] <= E[2].last
    <3>1. b \in Contents(Needed)
      BY <1>1, <1>6, <2>3 DEF Contents, Needed, ProcessTables
    <3> QED BY <1>2, <1>3, <1>t, <3>1 DEF VersionSequences
  <2>4. ASSUME NEW l \in DOMAIN logs', l < E[2].log, NEW b \in InLog(l)' PROVE b[2] <= E[2].last
    <3>1. l \in DOMAIN logs /\ b \in InLog(l)
      BY <1>1, <2>4 DEF InLog
    <3>2. l # version.logfile
      BY <1>3, <2>4, <3>1, NumberFacts, StoredFacts
    <3> QED BY <1>2, <1>3, <1>t, <3>1, <3>2 DEF VersionSequences
  <2> QED BY <1>5, <2>2, <2>3, <2>4 DEF EditCounts
<1>9. ASSUME NEW n \in Lengths' \ {0} PROVE EditCounts(n)'
  BY <1>7, <1>8
<1> QED BY <1>9 DEF EditSequences, EditCounts

LEMMA MachineCrashCounts ==
    ASSUME StoreIInv, SequenceInv, MachineCrash
    PROVE  EditSequences'
<1>1. current' = current /\ tables' = tables /\ [StoreNext]_storeVars
  BY DEF MachineCrash, StoreNext
<1>2. CASE current = 0
  BY <1>1, <1>2 DEF EditSequences, Lengths
<1>3. CASE current # 0
  <2>1. /\ current \in DOMAIN manifests /\ Current \in Seq(Edits) /\ Len(Current) \in Nat
        /\ manifests[current].synced \in Nat
        /\ Lengths = manifests[current].synced .. Len(Current)
    BY <1>3, ManifestFacts DEF StoreIInv, Types
  <2>2. PICK n \in Lengths : manifests'[current] = [edits |-> Prefix(n), synced |-> n]
    <3>1. PICK cut : /\ \A m \in DOMAIN manifests : cut[m] \in Cuts(manifests[m], manifests[m].edits)
                     /\ manifests' = [m \in DOMAIN manifests |->
                           [edits |-> SubSeq(manifests[m].edits, 1, cut[m]), synced |-> cut[m]]]
      BY DEF MachineCrash
    <3>2. cut[current] \in Cuts(manifests[current], Current)
      BY <2>1, <3>1 DEF Current
    <3>3. cut[current] \in Lengths
      BY <2>1, <3>2 DEF Cuts
    <3> QED BY <2>1, <3>1, <3>3 DEF Prefix, Current
  <2>3. /\ Current' = Prefix(n) /\ n \in 0 .. Len(Current) /\ Len(Prefix(n)) = n
        /\ \A i \in 1 .. n : Prefix(n)[i] = Current[i]
        /\ Prefix(n) \in Seq(Edits)
    BY <1>1, <2>1, <2>2, PrefixFacts DEF Current, Prefix
  <2>4. Lengths' = {n}
    BY <1>1, <1>3, <2>2, <2>3 DEF Lengths
  <2>5. ASSUME n # 0 PROVE EditCounts(n)'
    <3>1. n \in 1 .. n
      BY <2>3, <2>5
    <3>2. Current'[n] = Current[n]
      BY <2>3, <3>1
    <3>3. Prefix(n)' = Prefix(n)
      <4>1. SubSeq(Prefix(n), 1, n) = Prefix(n)
        BY <2>3, SubSeqFull
      <4> QED BY <2>3, <4>1 DEF Prefix
    <3>4. TablesOf(Prefix(n))' = TablesOf(Prefix(n))
      BY <3>3 DEF TablesOf
    <3>5. TablesOf(Prefix(n)) \subseteq DOMAIN tables'
      BY <1>1, NumberFacts DEF Needed
    <3> QED BY <1>1, <2>5, <3>2, <3>4, <3>5, SameEditCounts
  <2> QED BY <2>4, <2>5 DEF EditSequences, EditCounts
<1> QED BY <1>2, <1>3

LEMMA EditSequencesStep ==
    ASSUME StoreIInv, SequenceInv, [StoreNext]_storeVars
    PROVE  EditSequences'
<1>t. PhasesInv /\ FilesInv /\ NumbersInv /\ VersionType /\ ManifestTypes
  BY DEF StoreIInv, Types
<1>1. ASSUME NEW x \in garbage, RemoveFile(x), Running, current' = current
      PROVE  EditSequences'
  BY <1>1, RemovalKeepsFiles, SameManifestCounts
<1>2. ASSUME BackgroundStep PROVE EditSequences'
  <2>1. CASE Clean
    <3>1. current' = current /\ Running
      <4>1. ProcessTypes /\ bg.phase \notin {"idle", "open"}
        BY <2>1 DEF StoreIInv, Types, Clean, Busy
      <4> QED BY <1>t, <2>1, <4>1, BusyRuns DEF Clean, Running
    <3>2. CASE garbage # {}
      BY <1>1, <2>1, <3>1, <3>2 DEF Clean
    <3>3. CASE garbage = {}
      BY <2>1, <3>1, <3>3, SameManifestCounts DEF Clean
    <3> QED BY <3>2, <3>3
  <2>2. CASE ~Clean /\ ~WriteEdit /\ ~Install
    <3>1. current' = current /\ manifests' = manifests
      BY <1>2, <2>2 DEF BackgroundStep, BeginNothing, BeginFlush, BeginMerge, Flush, FlushFails,
                        MergeDone, MergeFails, EditFails, disk
    <3> QED BY <3>1, SameManifestCounts
  <2> QED BY <2>1, <2>2, WriteEditCounts, InstallCounts
<1>3. ASSUME OpenStep PROVE EditSequences'
  <2>1. CASE OpenDone
    <3>1. current' = current /\ Running
      BY <2>1 DEF OpenDone, Running
    <3>2. CASE garbage # {}
      BY <1>1, <2>1, <3>1, <3>2 DEF OpenDone
    <3>3. CASE garbage = {}
      BY <2>1, <3>1, <3>3, SameManifestCounts DEF OpenDone
    <3> QED BY <3>2, <3>3
  <2>2. CASE OpenManifest
    <3>1. current # version.manifest
      <4>1. version.manifest > current
        BY <1>t, <2>2 DEF NumbersInv, FileNumbers, OpenManifest, Opening
      <4> QED BY <4>1, NumberFacts
    <3>2. current' = current /\ (current # 0 => manifests'[current] = manifests[current])
      <4>1. current # 0 => current \in DOMAIN manifests
        BY <1>t, ManifestFacts
      <4> QED BY <2>2, <3>1, <4>1 DEF OpenManifest, With
    <3> QED BY <3>2, SameManifestCounts
  <2>3. CASE RecoverManifest \/ RecoverLogs \/ OpenLog
    <3>1. current' = current /\ manifests' = manifests
      BY <2>3 DEF RecoverManifest, RecoverLogs, OpenLog, disk
    <3> QED BY <3>1, SameManifestCounts
  <2> QED BY <1>3, <2>1, <2>2, <2>3, NewDBCounts, OpenCurrentCounts DEF OpenStep
<1>4. ASSUME ~BackgroundStep, ~OpenStep, ~MachineCrash PROVE EditSequences'
  <2>1. current' = current /\ manifests' = manifests
    BY <1>4 DEF StoreNext, WriteStep, AtFront, RoomError, RoomFound, SwitchMemTable, SwitchFails,
                AddRecord, AddRecordFails, SyncLog, SyncLogFails, InsertInto, Enqueue, Pin, Unpin,
                Crash, Close, Closed, disk, storeVars
  <2> QED BY <2>1, SameManifestCounts
<1> QED BY <1>2, <1>3, <1>4, MachineCrashCounts

LEMMA OpenedSequencesStep ==
    ASSUME StoreIInv, SequenceInv, [StoreNext]_storeVars
    PROVE  OpenedSequences'
<1>1. ASSUME RecoverManifest, up' = "logs" PROVE OpenedSequences'
  <2>1. /\ current' = current /\ manifests' = manifests /\ version' =
             [tables |-> TablesOf(Current), log |-> Last(Current).log, logfile |-> 0,
              manifest |-> Last(Current).next,
              next |-> Max({Last(Current).next, Last(Current).log}) + 1,
              last |-> Last(Current).last]
    BY <1>1 DEF RecoverManifest, disk, Current
  <2>2. Current' = Current
    BY <2>1 DEF Current
  <2>3. TablesOf(Current)' = TablesOf(Current) /\ Last(Current)' = Last(Current)
    BY <2>2 DEF TablesOf, Last
  <2> QED BY <2>1, <2>3 DEF OpenedSequences
<1>2. ASSUME ~RecoverManifest, up' = "logs"
      PROVE  up = "logs" /\ UNCHANGED <<version, current, manifests>>
  <2>1. ASSUME BackgroundStep PROVE FALSE
    <3>1. up \in {"up", "closing"}
      <4>1. BeginNothing \/ BeginFlush \/ BeginMerge => up \in {"up", "closing"}
        BY DEF BeginNothing, BeginFlush, BeginMerge, Begins
      <4>2. ~BeginNothing /\ ~BeginFlush /\ ~BeginMerge => bg.phase \notin {"idle", "open"}
        BY <2>1 DEF BackgroundStep, Flush, FlushFails, MergeDone, MergeFails, WriteEdit, Install,
                    EditFails, Clean, Flushing, Busy
      <4> QED BY <4>1, <4>2, BusyRuns DEF StoreIInv, Types
    <3>2. up' = up
      BY <2>1 DEF BackgroundStep, BeginNothing, BeginFlush, BeginMerge, Flush, FlushFails,
                  MergeDone, MergeFails, WriteEdit, Install, EditFails, Clean
    <3> QED BY <1>2, <3>1, <3>2
  <2>2. ASSUME WriteStep PROVE FALSE
    <3>1. lead.phase # "none" \/ queue # <<>>
      BY <2>2 DEF WriteStep, AtFront, RoomError, RoomFound, SwitchMemTable, SwitchFails, AddRecord,
                  AddRecordFails, SyncLog, SyncLogFails, InsertInto, Switches
    <3>2. up \in {"up", "closing"}
      BY <3>1 DEF StoreIInv, PhasesInv, NoLead
    <3>3. up' = up
      BY <2>2 DEF WriteStep, AtFront, RoomError, RoomFound, SwitchMemTable, SwitchFails, AddRecord,
                  AddRecordFails, SyncLog, SyncLogFails, InsertInto
    <3> QED BY <1>2, <3>2, <3>3
  <2>3. ASSUME OpenStep PROVE FALSE
    BY <1>2, <2>3 DEF OpenStep, NewDB, RecoverLogs, OpenLog, OpenManifest, OpenCurrent, OpenDone,
                      process
  <2>4. CASE (\E w \in Writers : Enqueue(w)) \/ Pin \/ Unpin \/ Close \/ Crash \/ MachineCrash
             \/ Closed \/ UNCHANGED storeVars
    BY <1>2, <2>4 DEF Enqueue, Pin, Unpin, Close, Crash, MachineCrash, Closed, Gone, storeVars,
                      process, disk
  <2> QED BY <2>1, <2>2, <2>3, <2>4 DEF StoreNext
<1>3. CASE up = "logs" /\ UNCHANGED <<version, current, manifests>>
  <2>1. Current' = Current
    BY <1>3 DEF Current
  <2>2. TablesOf(Current)' = TablesOf(Current) /\ Last(Current)' = Last(Current)
    BY <2>1 DEF TablesOf, Last
  <2>3. OpenedSequences
    BY DEF SequenceInv
  <2> QED BY <1>3, <2>2, <2>3 DEF OpenedSequences
<1>4. CASE up' # "logs"
  BY <1>4 DEF OpenedSequences
<1> QED BY <1>1, <1>2, <1>3, <1>4

LEMMA SequencesInit ==
    ASSUME StoreInit
    PROVE  SequenceInv
<1>1. /\ up = "down" /\ mem = {} /\ imm = NoTable /\ version = NoVersion /\ pinned = {}
      /\ bg = NoWork /\ merge = NoMerge /\ logs = <<>> /\ current = 0
  BY DEF StoreInit
<1>2. Lengths = {} /\ ~Counting
  BY <1>1 DEF Lengths, Counting, Running
<1>3. Stored = {}
  <2>1. Needed = {}
    BY <1>1, <1>2 DEF Needed, ManifestTables, ProcessTables, NoVersion, NoMerge, NoWork, NoEdit
  <2>2. DOMAIN logs = {}
    BY <1>1
  <2> QED BY <1>1, <2>1, <2>2 DEF Stored, InMemory, Contents, InLogs
<1> QED BY <1>1, <1>2, <1>3 DEF SequenceInv, NumbersUsedOnce, EditSequences, OpenedSequences,
                               VersionSequences

LEMMA SequencesImply ==
    ASSUME StoreIInv, SequenceInv
    PROVE  SequenceFresh
<1>1. Recoverable \subseteq Stored
  <2>1. CASE current = 0 \/ Current = <<>>
    BY <2>1 DEF Recoverable, Current
  <2>2. CASE current # 0 /\ Current # <<>>
    <3>1. Recoverable = Contents(TablesOf(Current))
                        \cup UNION {InLog(l) : l \in LogsFrom(Last(Current).log)}
      BY <2>2 DEF Recoverable, Current
    <3>2. Len(Current) \in Lengths /\ Prefix(Len(Current)) = Current
      BY <2>2, ManifestFacts, NumberFacts DEF StoreIInv, Types
    <3>3. TablesOf(Current) \subseteq Needed
      BY <3>2, NumberFacts DEF Needed
    <3> QED BY <3>1, <3>3 DEF Stored, Contents, InLogs, LogsFrom
  <2> QED BY <2>1, <2>2
<1>2. Visible \subseteq Stored
  <2>1. CASE up \in {"up", "closing"}
    <3>1. Visible = InMemory \cup Contents(version.tables)
      BY <2>1 DEF Visible, InMemory
    <3>2. version.tables \subseteq Needed
      BY DEF Needed, ProcessTables
    <3> QED BY <3>1, <3>2 DEF Stored, Contents
  <2>2. CASE up \notin {"up", "closing"}
    BY <1>1, <2>2 DEF Visible
  <2> QED BY <2>1, <2>2
<1>3. \A b, c \in Visible \cup Recoverable : b[2] = c[2] => b = c
  BY <1>1, <1>2 DEF SequenceInv, NumbersUsedOnce
<1>4. ASSUME up = "up", lead.phase \notin {"sync", "insert"}, NEW b \in Visible \cup Recoverable
      PROVE  b[2] <= version.last
  <2>1. Writing = {} /\ Counting /\ b \in Stored
    BY <1>1, <1>2, <1>4 DEF Writing, Counting, Running
  <2> QED BY <2>1 DEF SequenceInv, VersionSequences
<1> QED BY <1>3, <1>4 DEF SequenceFresh

\* db_impl.cc Write, RecoverLogFile, version_set.cc LogAndApply: over crashes, failed writes
\* and edits, and whatever a crash leaves of the manifest and the logs, no two batches that
\* a reader may find have one sequence number, and the counter is behind none of them.
THEOREM NumbersStayFresh == StoreSpec => []SequenceFresh
<1> DEFINE IInv == StoreIInv /\ SequenceInv
<1>1. StoreInit => IInv
  BY FilesInit, SequencesInit
<1>2. IInv /\ [StoreNext]_storeVars => IInv'
  <2> SUFFICES ASSUME StoreIInv, SequenceInv, [StoreNext]_storeVars PROVE IInv'
    OBVIOUS
  <2>1. StoreIInv'
    BY FilesStep
  <2>2. SequenceInv'
    BY NumbersUsedOnceStep, EditSequencesStep, OpenedSequencesStep, VersionSequencesStep
       DEF SequenceInv
  <2> QED BY <2>1, <2>2
<1>3. IInv => SequenceFresh
  BY SequencesImply
<1> HIDE DEF IInv
<1> QED BY <1>1, <1>2, <1>3, PTL DEF StoreSpec
=============================================================================
