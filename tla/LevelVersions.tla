--------------------------- MODULE LevelVersions ---------------------------
(* The tables of the local store on iOS (leveldb, below Firestore's offline    *)
(* cache): how the memtable is written to a table and at which level, how      *)
(* compactions are picked, merged and installed, and how a read finds its way  *)
(* through the levels.  db/version_set.cc and the compaction half of           *)
(* db/db_impl.cc.                                                              *)
(*                                                                             *)
(* There is one background thread: a version is only changed by Flush, Move    *)
(* and Install, and never by two of them at once; writes, reads and snapshots  *)
(* go on while a compaction runs with the mutex released.  Crashes, logs and   *)
(* the manifest are in LevelStore and LevelLog.                                *)
EXTENDS Integers, Sequences, FiniteSets, SequencesExt, FiniteSetsExt

CONSTANTS
    Keys,               \* user keys, 1..n
    NumLevels,          \* config::kNumLevels
    MaxMemCompactLevel, \* config::kMaxMemCompactLevel
    L0Trigger,          \* config::kL0_CompactionTrigger
    LevelBytes,         \* MaxBytesForLevel of the levels above 0
    TargetFileSize,     \* Options::max_file_size; a size is a number of entries
    GrandparentBytes,   \* MaxGrandParentOverlapBytes
    ExpandedBytes,      \* ExpandedCompactionByteSizeLimit
    AllowedSeeks,       \* reads a table may delay before it is compacted
    ManualRanges,       \* ranges <<begin, end>> given to CompactRange
    Writes,             \* the writes there are, as pairs of a key and a Boolean
    Readers,            \* user keys whose reads are counted as seeks
    MaxSeq, MaxFiles, MaxSnapshots  \* bounds: writes and table numbers of a
                                    \* behaviour, snapshots held at a time

VARIABLES
    mem, imm,        \* the memtables: sets of entries
    files,           \* current_->files_: for each level its tables
    lastSeq,         \* last_sequence_
    nextFile,        \* next_file_number_
    snapshots,       \* sequence numbers of the snapshots that are held
    compactPointer,  \* compact_pointer_, for each level the last key compacted
    seekFile,        \* file_to_compact_ and its level, or NoFile
    manual,          \* the call of CompactRange under way, or NoManual
    compaction,      \* the compaction whose merge runs, or NoCompaction
    written,         \* history: every entry ever written
    leftOut,         \* history: user keys of which a compaction took only a part
    crossed          \* history: a memtable went into a gap of a running merge

versionVars == <<mem, imm, files, lastSeq, nextFile, snapshots, compactPointer,
                 seekFile, manual, compaction, written, leftOut, crossed>>

-----------------------------------------------------------------------------
(* Keys and tables.                                                            *)

Levels == 0 .. NumLevels - 1
Entries == [k : Keys, s : 1 .. MaxSeq, del : BOOLEAN]

\* InternalKeyComparator::Compare: user keys ascending, numbers descending
Before(a, b) == a.k < b.k \/ (a.k = b.k /\ a.s > b.s)

NoKey == [k |-> 0, s |-> 0, del |-> FALSE]     \* an empty compact_pointer_
Smallest(f) == CHOOSE e \in f.data : \A x \in f.data : x = e \/ Before(e, x)
Largest(f)  == CHOOSE e \in f.data : \A x \in f.data : x = e \/ Before(x, e)

Size(f) == Cardinality(f.data)
TotalFileSize(S) == MapThenSumSet(Size, S)

\* Builder::BySmallestKey: the order of files_[level]
InOrder(S) ==
    SetToSortSeq(S, LAMBDA f, g : \/ Before(Smallest(f), Smallest(g))
                                  \/ Smallest(f) = Smallest(g) /\ f.num < g.num)

\* user keys only: how ranges are compared with tables everywhere but in FindFile
Overlaps(f, b, e) == Largest(f).k >= b /\ Smallest(f).k <= e

\* The hull of a range and the tables of S it touches
Widened(S, r) ==
    LET T == {f \in S : Overlaps(f, r[1], r[2])}
    IN  <<Min({r[1]} \cup {Smallest(f).k : f \in T}),
          Max({r[2]} \cup {Largest(f).k : f \in T})>>

\* Version::GetOverlappingInputs.  At level 0 the search starts again, with a
\* wider range, whenever a table sticks out of it.
GetOverlappingInputs(level, b, e) ==
    LET S == files[level]
        r == IF level = 0
             THEN FoldLeft(LAMBDA w, f : Widened(S, w), <<b, e>>, SetToSeq(S))
             ELSE <<b, e>>
    IN  {f \in S : Overlaps(f, r[1], r[2])}

\* VersionSet::GetRange: the first and the last key of some tables
RangeStart(S) == CHOOSE a \in {Smallest(f) : f \in S} :
                    \A f \in S : ~Before(Smallest(f), a)
RangeEnd(S)   == CHOOSE a \in {Largest(f) : f \in S} :
                    \A f \in S : ~Before(a, Largest(f))

-----------------------------------------------------------------------------
(* Reads.                                                                      *)

Visible(S, k, s) == {e \in S : e.k = k /\ e.s <= s}
Newest(S) == CHOOSE e \in S : \A x \in S : x.s <= e.s

\* TableCache::Get and SaveValue: the first entry at or after <<k, s>>, if it is
\* an entry of k
InTable(f, k, s) == Visible(f.data, k, s)

\* Version::ForEachOverlapping: the tables a read of <<k, s>> is sent to, in
\* order: the tables of level 0 that may hold k, newest first, and of every
\* other level the first table whose last key is not before <<k, s>> (FindFile)
ForEachOverlapping(k, s) ==
    LET key == [k |-> k, s |-> s, del |-> FALSE]
        first(level) == {f \in files[level] :
            /\ ~Before(Largest(f), key)
            /\ \A g \in files[level] : ~Before(Largest(g), key) =>
                   \/ g = f
                   \/ Before(Smallest(f), Smallest(g))}
        ask(level) == {f \in first(level) : Smallest(f).k <= k}
    IN  SetToSortSeq({f \in files[0] : Overlaps(f, k, k)},
                     LAMBDA f, g : f.num > g.num)
        \o FoldLeft(LAMBDA q, level : q \o SetToSeq(ask(level)), <<>>,
                    [i \in 1 .. NumLevels - 1 |-> i])

\* Version::Get: the tables that are looked into, up to the first that has the key
Searched(k, s) ==
    LET q == ForEachOverlapping(k, s)
        hits == {i \in DOMAIN q : InTable(q[i], k, s) # {}}
    IN  IF hits = {} THEN q ELSE SubSeq(q, 1, Min(hits))

\* DBImpl::Get: the memtables, then the version.  0 stands for NotFound, a value
\* is told by the number of the write that stored it.
Value(S) == IF S = {} \/ Newest(S).del THEN 0 ELSE Newest(S).s
Read(k, s) ==
    IF Visible(mem, k, s) # {} THEN Value(Visible(mem, k, s))
    ELSE IF Visible(imm, k, s) # {} THEN Value(Visible(imm, k, s))
    ELSE LET q == Searched(k, s)
         IN  IF q = <<>> THEN 0 ELSE Value(InTable(Last(q), k, s))

\* Version::UpdateStats: the first of two tables is charged one seek, and is
\* compacted when it has no seeks left and no other table waits
NoFile == [level |-> 0, num |-> 0]
LevelOf(f) == CHOOSE level \in Levels : f \in files[level]
UpdateStats(f) ==
    LET g == [f EXCEPT !.seeks = IF @ > 0 THEN @ - 1 ELSE 0]   \* bound: not below 0
    IN  /\ files' = [files EXCEPT ![LevelOf(f)] = (@ \ {f}) \cup {g}]
        /\ seekFile' = IF g.seeks = 0 /\ seekFile = NoFile
                       THEN [level |-> LevelOf(f), num |-> f.num]
                       ELSE seekFile

\* DBImpl::Get after the read, and RecordReadSample from an iterator, which asks
\* for the first two tables that may hold the key, found or not
Charge(k, s) ==
    /\ s \in snapshots \cup {lastSeq}
    /\ \E q \in {Searched(k, s), ForEachOverlapping(k, s)} :
          /\ Len(q) >= 2
          /\ UpdateStats(q[1])
    /\ UNCHANGED <<mem, imm, lastSeq, nextFile, snapshots, compactPointer, manual,
                   compaction, written, leftOut, crossed>>

-----------------------------------------------------------------------------
(* Writes, snapshots and the memtable.                                         *)

\* MemTable::Add for the one entry of a batch
Write(k, del) ==
    /\ lastSeq < MaxSeq
    /\ LET e == [k |-> k, s |-> lastSeq + 1, del |-> del]
       IN  mem' = mem \cup {e} /\ written' = written \cup {e}
    /\ lastSeq' = lastSeq + 1
    /\ UNCHANGED <<imm, files, nextFile, snapshots, compactPointer, seekFile,
                   manual, compaction, leftOut, crossed>>

GetSnapshot ==
    /\ lastSeq > 0 /\ Cardinality(snapshots) < MaxSnapshots
    /\ snapshots' = snapshots \cup {lastSeq}
    /\ UNCHANGED <<mem, imm, files, lastSeq, nextFile, compactPointer, seekFile,
                   manual, compaction, written, leftOut, crossed>>

ReleaseSnapshot(s) ==
    /\ snapshots' = snapshots \ {s}
    /\ UNCHANGED <<mem, imm, files, lastSeq, nextFile, compactPointer, seekFile,
                   manual, compaction, written, leftOut, crossed>>

\* MakeRoomForWrite: the full memtable is put aside
SwitchMemTable ==
    /\ mem # {} /\ imm = {}
    /\ mem' = {} /\ imm' = mem
    /\ UNCHANGED <<files, lastSeq, nextFile, snapshots, compactPointer, seekFile,
                   manual, compaction, written, leftOut, crossed>>

\* Version::PickLevelForMemTableOutput: below level 0 as long as nothing overlaps
\* there and not too much one level further
PickLevelForMemTableOutput(b, e) ==
    LET free(level) == \A f \in files[level] : ~Overlaps(f, b, e)
        light(level) == level >= NumLevels \/
            TotalFileSize(GetOverlappingInputs(level, b, e)) <= GrandparentBytes
        ok(level) == \A i \in 1 .. level : free(i) /\ light(i + 1)
    IN  IF free(0) THEN Max({i \in 0 .. MaxMemCompactLevel : ok(i)}) ELSE 0

NewTable(num, data) == [num |-> num, data |-> data, seeks |-> AllowedSeeks]

NoCompaction == [level |-> -1]

\* The gap of a merge: between its first and its last key, in none of its tables
InGap(f, level) ==
    /\ compaction # NoCompaction
    /\ level = compaction.level + 1
    /\ Overlaps(f, compaction.from, compaction.to)

\* CompactMemTable: by the background thread before anything else, or between two
\* keys of a merge.  A version starts without a table that has used up its seeks.
Flush ==
    /\ imm # {} /\ nextFile <= MaxFiles
    /\ LET f == NewTable(nextFile, imm)
           level == PickLevelForMemTableOutput(Smallest(f).k, Largest(f).k)
       IN  /\ files' = [files EXCEPT ![level] = @ \cup {f}]
           /\ crossed' = (crossed \/ InGap(f, level))
    /\ imm' = {}
    /\ nextFile' = nextFile + 1
    /\ seekFile' = NoFile
    /\ UNCHANGED <<mem, lastSeq, snapshots, compactPointer, manual, compaction,
                   written, leftOut>>

-----------------------------------------------------------------------------
(* Picking a compaction.                                                       *)

\* MaxBytesForLevel and VersionSet::Finalize: the level that is fullest against
\* its limit, a number of tables at level 0 and of bytes above it
Fullness(level) == IF level = 0 THEN Cardinality(files[0])
                   ELSE TotalFileSize(files[level])
Capacity(level) == IF level = 0 THEN L0Trigger ELSE LevelBytes * 10 ^ (level - 1)
Fuller(a, b) == Fullness(a) * Capacity(b) > Fullness(b) * Capacity(a)
CompactionLevel ==
    CHOOSE a \in 0 .. NumLevels - 2 : \A b \in 0 .. NumLevels - 2 :
        /\ ~Fuller(b, a)
        /\ b < a => Fuller(a, b)
SizeCompaction == Fullness(CompactionLevel) >= Capacity(CompactionLevel)

\* AddBoundaryInputs and FindSmallestBoundaryFile: as long as the last key taken
\* goes on in another table of the level, with older entries, that table too
AddBoundaryInputs(S, taken) ==
    LET boundary(key) == {f \in S : Smallest(f).k = key.k /\ Before(key, Smallest(f))}
        more(acc, x) ==
            LET b == boundary(acc.key)
                f == CHOOSE g \in b : \A h \in b : ~Before(Smallest(h), Smallest(g))
            IN  IF b = {} THEN acc ELSE [set |-> acc.set \cup {f}, key |-> Largest(f)]
    IN  FoldLeft(more, [set |-> taken, key |-> RangeEnd(taken)], SetToSeq(S)).set

\* The tables of a level in the range of some tables (GetRange, GetOverlappingInputs)
InRangeOf(S, level) == GetOverlappingInputs(level, RangeStart(S).k, RangeEnd(S).k)

\* Compaction: its inputs, the level after for the size of outputs, and all deeper ones
NewCompaction(level, inputs0, inputs1) ==
    [level |-> level, inputs0 |-> inputs0, inputs1 |-> inputs1,
     grandparents |-> IF level + 2 < NumLevels THEN InRangeOf(inputs0 \cup inputs1, level + 2)
                      ELSE {},
     base |-> UNION {files[i] : i \in {j \in Levels : j >= level + 2}}]

\* More tables of this level are taken if that costs none of the next
Expanded(level, in0, in1, exp0, exp1) ==
    IF /\ in1 # {}
       /\ Cardinality(exp0) > Cardinality(in0)
       /\ TotalFileSize(in1) + TotalFileSize(exp0) < ExpandedBytes
       /\ Cardinality(exp1) = Cardinality(in1)
    THEN NewCompaction(level, exp0, exp1)
    ELSE NewCompaction(level, in0, in1)
ExpandTo(level, in0, in1, exp0) == Expanded(level, in0, in1, exp0, InRangeOf(exp0, level + 1))
Expand(level, in0, in1) ==
    ExpandTo(level, in0, in1,
             AddBoundaryInputs(files[level], InRangeOf(in0 \cup in1, level)))

\* VersionSet::SetupOtherInputs: what continues the tables picked, and the tables of
\* the next level
WithNextLevel(level, in0) == Expand(level, in0, InRangeOf(in0, level + 1))
SetupOtherInputs(level, picked) ==
    WithNextLevel(level, AddBoundaryInputs(files[level], picked))

\* VersionSet::PickCompaction: because of size, in turn over the keys of the level,
\* else because of seeks.  At level 0 every table that overlaps comes along.
Picked ==
    LET level == CompactionLevel
        later == {f \in files[level] : Before(compactPointer[level], Largest(f))}
        S == IF later # {} THEN later ELSE files[level]
    IN  IF SizeCompaction
        THEN [level |-> level, tables |-> {Head(InOrder(S))}]
        ELSE [level |-> seekFile.level,
              tables |-> {f \in files[seekFile.level] : f.num = seekFile.num}]
WithOverlapping(p) ==
    SetupOtherInputs(p.level, IF p.level > 0 THEN p.tables ELSE InRangeOf(p.tables, 0))
PickCompaction == WithOverlapping(Picked)
NeedsCompaction == SizeCompaction \/ seekFile # NoFile

\* VersionSet::CompactRange: the tables of a range, above level 0 only so many
\* that one table could hold them
FirstOf(q) ==
    LET total(i) == TotalFileSize(ToSet(SubSeq(q, 1, i)))
        full == {i \in DOMAIN q : total(i) >= TargetFileSize}
    IN  IF full = {} THEN ToSet(q) ELSE ToSet(SubSeq(q, 1, Min(full)))
CompactRange(level, b, e) ==
    IF level = 0 THEN GetOverlappingInputs(level, b, e)
    ELSE FirstOf(InOrder(GetOverlappingInputs(level, b, e)))

-----------------------------------------------------------------------------
(* The merge.                                                                  *)

\* Compaction::IsBaseLevelForKey: no table of a deeper level may hold the key
IsBaseLevelForKey(c, k) == \A f \in c.base : ~Overlaps(f, k, k)

\* Compaction::ShouldStopBefore: the output would overlap too much of the
\* grandparents and is closed; the count starts again with every output
Passing(acc, past) ==
    LET bytes == acc.overlapped + (IF acc.seen THEN TotalFileSize(past) ELSE 0)
    IN  IF bytes > GrandparentBytes
        THEN [acc EXCEPT !.past = @ \cup past, !.overlapped = 0, !.open = {},
                         !.outputs = IF acc.open = {} THEN @ ELSE Append(@, acc.open)]
        ELSE [acc EXCEPT !.past = @ \cup past, !.overlapped = bytes]
StopBefore(c, acc, e) ==
    Passing(acc, {f \in c.grandparents : Before(Largest(f), e)} \ acc.past)

\* Mutant of MergeStep: only the newest entry of a key is kept, whatever snapshots see.
MergeStepForgetsSnapshots(c, acc, e) ==
    LET added == IF acc.key = e.k THEN acc.open ELSE acc.open \cup {e}
    IN  [acc EXCEPT !.key = e.k, !.last = e.s, !.seen = TRUE, !.open = added]

\* One turn of the loop of DoCompactionWork: the current output is closed before
\* the key if it would overlap too much, the entry is dropped if a newer one hides
\* it from every snapshot or if it is a deletion of nothing, and the output is
\* closed after the key if it is big enough.
Hidden(c, acc, e) == acc.key = e.k /\ acc.last <= c.smallestSnapshot
Obsolete(c, e) == e.del /\ e.s <= c.smallestSnapshot /\ IsBaseLevelForKey(c, e.k)
CloseIfBig(acc) ==
    IF Cardinality(acc.open) < TargetFileSize THEN acc
    ELSE [acc EXCEPT !.outputs = Append(@, acc.open), !.open = {}]
AddEntry(c, acc, e) ==
    CloseIfBig([acc EXCEPT !.key = e.k, !.last = e.s, !.seen = TRUE,
                           !.open = IF Hidden(c, acc, e) \/ Obsolete(c, e) THEN @
                                    ELSE @ \cup {e}])
MergeStep(c, acc, e) == AddEntry(c, StopBefore(c, acc, e), e)

\* DoCompactionWork, with MakeInputIterator: all entries of the inputs in order
NoOutput == [key |-> 0, last |-> 0, seen |-> FALSE, past |-> {}, overlapped |-> 0,
             outputs |-> <<>>, open |-> {}]
Outputs(acc) == IF acc.open = {} THEN acc.outputs ELSE Append(acc.outputs, acc.open)
Merge(c) ==
    LET entries == UNION {f.data : f \in c.inputs0 \cup c.inputs1}
    IN  Outputs(FoldLeft(LAMBDA acc, e : MergeStep(c, acc, e), NoOutput,
                         SetToSortSeq(entries, Before)))

SmallestSnapshot == IF snapshots = {} THEN lastSeq ELSE Min(snapshots)

\* User keys that end a table of the next level that is taken and go on in one
\* that is not
PartOnly(c) ==
    {k \in Keys : \E f \in c.inputs1, g \in files[c.level + 1] \ c.inputs1 :
        Largest(f).k = k /\ Smallest(g).k = k /\ Before(Largest(f), Smallest(g))}

\* The start of DoCompactionWork.  Everything the merge reads is fixed here; only
\* the numbers of the outputs are taken one by one while it runs, which is here.
Begin(c) ==
    \E outputs \in {Merge([smallestSnapshot |-> SmallestSnapshot] @@ c)} :
        /\ nextFile + Len(outputs) <= MaxFiles + 1
        /\ nextFile' = nextFile + Len(outputs)
        /\ compaction' = [level |-> c.level, manual |-> manual.queued,
               nums |-> <<{f.num : f \in c.inputs0}, {f.num : f \in c.inputs1}>>,
               from |-> RangeStart(c.inputs0 \cup c.inputs1).k,
               to |-> RangeEnd(c.inputs0 \cup c.inputs1).k,
               last |-> RangeEnd(c.inputs0).k,
               outputs |-> {NewTable(nextFile + i - 1, outputs[i]) :
                               i \in DOMAIN outputs}]
        /\ compactPointer' = [compactPointer EXCEPT ![c.level] = RangeEnd(c.inputs0)]
        /\ leftOut' = leftOut \cup PartOnly(c)

Idle == compaction = NoCompaction /\ imm = {}

-----------------------------------------------------------------------------
(* The background thread.                                                      *)

\* Compaction::IsTrivialMove and the move in BackgroundCompaction
IsTrivialMove(c) ==
    /\ Cardinality(c.inputs0) = 1 /\ c.inputs1 = {}
    /\ TotalFileSize(c.grandparents) <= GrandparentBytes

NoManual == [level |-> -1, queued |-> FALSE]

AutomaticTurn == Idle /\ ~manual.queued /\ NeedsCompaction

Move ==
    /\ AutomaticTurn
    /\ \E c \in {PickCompaction} : \E f \in c.inputs0 :
           /\ IsTrivialMove(c)
           /\ files' = [files EXCEPT ![c.level] = @ \ {f},
                                     ![c.level + 1] = @ \cup {NewTable(f.num, f.data)}]
           /\ compactPointer' = [compactPointer EXCEPT ![c.level] = Largest(f)]
    /\ seekFile' = NoFile
    /\ UNCHANGED <<mem, imm, lastSeq, nextFile, snapshots, manual, compaction,
                   written, leftOut, crossed>>

BeginAutomatic ==
    /\ AutomaticTurn
    /\ \E c \in {PickCompaction} : ~IsTrivialMove(c) /\ Begin(c)
    /\ UNCHANGED <<mem, imm, files, lastSeq, snapshots, seekFile, manual, written,
                   crossed>>

\* The turn of a manual compaction: of what CompactRange finds, or the end of it
BeginManual ==
    /\ Idle /\ manual.queued
    /\ \E tables \in {CompactRange(manual.level, manual.from, manual.to)} \ {{}} :
           \E c \in {SetupOtherInputs(manual.level, tables)} : Begin(c)
    /\ UNCHANGED <<mem, imm, files, lastSeq, snapshots, seekFile, manual, written,
                   crossed>>

\* InstallCompactionResults, LogAndApply with Builder::Apply and SaveTo, and the
\* rest of BackgroundCompaction: one that was manual from its start goes on after the
\* last key it took
Install ==
    /\ compaction # NoCompaction
    /\ files' = [level \in Levels |->
          LET gone == CASE level = compaction.level     -> compaction.nums[1]
                        [] level = compaction.level + 1 -> compaction.nums[2]
                        [] OTHER -> {}
          IN  {f \in files[level] : f.num \notin gone}
              \cup (IF level = compaction.level + 1 THEN compaction.outputs ELSE {})]
    /\ seekFile' = NoFile
    /\ manual' = IF compaction.manual
                 THEN [manual EXCEPT !.from = compaction.last, !.queued = FALSE]
                 ELSE manual
    /\ compaction' = NoCompaction
    /\ UNCHANGED <<mem, imm, lastSeq, nextFile, snapshots, compactPointer, written,
                   leftOut, crossed>>

-----------------------------------------------------------------------------
(* DBImpl::CompactRange, TEST_CompactMemTable and TEST_CompactRange.           *)

\* The deepest level with a table of the range is the last that is written to
ManualStart(r) ==
    /\ manual = NoManual
    /\ manual' = [level |-> 0, from |-> r[1], to |-> r[2], range |-> r,
                  max |-> Max({1} \cup {level \in 1 .. NumLevels - 1 :
                              \E f \in files[level] : Overlaps(f, r[1], r[2])}),
                  phase |-> "switch", queued |-> FALSE]
    /\ UNCHANGED <<mem, imm, files, lastSeq, nextFile, snapshots, compactPointer,
                   seekFile, compaction, written, leftOut, crossed>>

\* The write of no batch puts the memtable aside, as soon as there is room for it
ManualSwitch ==
    /\ manual # NoManual /\ manual.phase = "switch"
    /\ imm = {}
    /\ mem' = {} /\ imm' = mem
    /\ manual' = [manual EXCEPT !.phase = "wait"]
    /\ UNCHANGED <<files, lastSeq, nextFile, snapshots, compactPointer, seekFile,
                   compaction, written, leftOut, crossed>>

\* The caller queues its compaction, at first and again after every part of it
ManualQueue ==
    /\ manual # NoManual /\ ~manual.queued
    /\ manual.phase = "wait" => imm = {}
    /\ manual.phase # "switch"
    /\ manual' = [manual EXCEPT !.phase = "compact", !.queued = TRUE]
    /\ UNCHANGED <<mem, imm, files, lastSeq, nextFile, snapshots, compactPointer,
                   seekFile, compaction, written, leftOut, crossed>>

\* Nothing of the range is left at this level: the next level, or the return
ManualDone ==
    /\ Idle /\ manual.queued
    /\ CompactRange(manual.level, manual.from, manual.to) = {}
    /\ manual' = IF manual.level + 1 < manual.max
                 THEN [manual EXCEPT !.level = @ + 1, !.from = manual.range[1],
                                     !.queued = FALSE]
                 ELSE NoManual
    /\ UNCHANGED <<mem, imm, files, lastSeq, nextFile, snapshots, compactPointer,
                   seekFile, compaction, written, leftOut, crossed>>

-----------------------------------------------------------------------------

Init ==
    /\ mem = {} /\ imm = {} /\ written = {}
    /\ files = [level \in Levels |-> {}]
    /\ lastSeq = 0 /\ nextFile = 1
    /\ snapshots = {}
    /\ compactPointer = [level \in Levels |-> NoKey]
    /\ seekFile = NoFile
    /\ manual = NoManual /\ compaction = NoCompaction
    /\ leftOut = {} /\ crossed = FALSE

Next ==
    \/ \E w \in Writes : Write(w[1], w[2])
    \/ \E k \in Readers, s \in 1 .. MaxSeq : Charge(k, s)
    \/ GetSnapshot
    \/ \E s \in snapshots : ReleaseSnapshot(s)
    \/ SwitchMemTable \/ Flush
    \/ Move \/ BeginAutomatic \/ BeginManual \/ Install
    \/ \E r \in ManualRanges : ManualStart(r)
    \/ ManualSwitch \/ ManualQueue \/ ManualDone

VersionSpec == Init /\ [][Next]_versionVars

-----------------------------------------------------------------------------
(* Properties.                                                                 *)

\* What a read has to return: the newest write of the key that it may see
LastWrite(k, s) == Value(Visible(written, k, s))

\* A read, of now or of any snapshot that is held, returns the newest write it may
\* see, whatever was flushed, moved and merged meanwhile -- but for keys of which
\* a compaction took only a part, and unless a memtable was put into a gap.
ReadsKept ==
    ~crossed => \A k \in Keys \ leftOut, s \in snapshots \cup {lastSeq} :
                    Read(k, s) = LastWrite(k, s)

\* The tables of a level above 0 do not overlap, by their internal keys, unless a
\* memtable was put into a gap of a merge that was running.
Disjoint(level) ==
    \A f, g \in files[level] : f = g \/ Before(Largest(f), Smallest(g))
                                     \/ Before(Largest(g), Smallest(f))
LevelsInOrder == ~crossed => \A level \in 1 .. NumLevels - 1 : Disjoint(level)

\* "Must not overlap", MaybeAddFile (version_set.cc:689), without exception.
LevelsNeverOverlap == \A level \in 1 .. NumLevels - 1 : Disjoint(level)

\* "there is no data in higher levels ... Therefore this deletion marker is
\* obsolete" (db_impl.cc:962): a deleted key stays deleted.
DeletedStaysDeleted ==
    ~crossed => \A k \in Keys : LastWrite(k, lastSeq) = 0 => Read(k, lastSeq) = 0
=============================================================================
