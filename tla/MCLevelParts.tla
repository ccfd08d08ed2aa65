---------------------------- MODULE MCLevelParts ----------------------------
(* The parts of the libraries that are models of their own, each on a small    *)
(* instance, checked side by side: a behaviour belongs to one part.  The POSIX *)
(* environment, the list of the memtable, the cache, the iterators, the logs   *)
(* and the encoder have their own variables, which stay as they start in the   *)
(* other parts; v1 .. v13 are those of the rest.                               *)
EXTENDS PosixLocks, PosixReaders, PosixWriter, PosixBackground, LevelSkipList,
        LevelCache, LevelIterator, LevelLog, NanoEncode

VARIABLES part, v1, v2, v3, v4, v5, v6, v7, v8, v9, v10, v11, v12, v13

others == <<v1, v2, v3, v4, v5, v6, v7, v8, v9, v10, v11, v12, v13>>

\* The variables from one on are not used
Zero4 ==
    /\ v4 = 0 /\ v5 = 0 /\ v6 = 0 /\ v7 = 0 /\ v8 = 0
    /\ v9 = 0 /\ v10 = 0 /\ v11 = 0 /\ v12 = 0 /\ v13 = 0
Zero3 == v3 = 0 /\ Zero4
Zero1 == v1 = 0 /\ v2 = 0 /\ Zero3
-----------------------------------------------------------------------------
\* Four cells of payload in a block; offsets in a first, a later and a trailing cell
RecordSizes == {0, 1, 3, 5}
LogOffsets  == {0, 1, 3, 7}

\* Three keys in three levels; a key is written, another is written and deleted
Versions == INSTANCE LevelVersions WITH
    Keys <- 1 .. 3, NumLevels <- 3, MaxMemCompactLevel <- 1, L0Trigger <- 2,
    LevelBytes <- 4, TargetFileSize <- 2, GrandparentBytes <- 4, ExpandedBytes <- 10,
    AllowedSeeks <- 1, ManualRanges <- {<<0, 9>>},
    Writes <- {<<1, FALSE>>, <<2, FALSE>>, <<2, TRUE>>}, Readers <- {2},
    MaxSeq <- 4, MaxFiles <- 6, MaxSnapshots <- 1,
    mem <- v1, imm <- v2, files <- v3, lastSeq <- v4, nextFile <- v5, snapshots <- v6,
    compactPointer <- v7, seekFile <- v8, manual <- v9, compaction <- v10,
    written <- v11, leftOut <- v12, crossed <- v13

\* Two keys, three entries before the snapshot and one after it, a second file that may
\* be unreadable
TwoUserKeys == {1, 2}
SecondFile  == {2}

\* Keys that share prefixes, one that ends in the largest byte; blocks of two entries or
\* more, two to a restart, and a filter for every block or for none of its own
TableKeys == {<<0>>, <<0, 1>>, <<0, 1, 2>>, <<1>>, <<1, 2, 0>>, <<3, 3>>}
LastBit(user) == user[1] % 2
Table == INSTANCE LevelTable WITH
    UserKeys <- TableKeys, Lookups <- TableKeys \cup {<<0, 2>>, <<2>>, <<3>>, <<3, 3, 0>>},
    MaxSequence <- 2, MaxByte <- 3, RestartInterval <- 2, BlockSize <- 8, FilterBase <- 7,
    Hash <- LastBit, MaxEntries <- 7,
    rep <- v1, added <- v2

\* Entries of charge 1 and 2 in a cache of 2, and a cache that is turned off
CacheUsers      == {"t1", "t2", "t3"}
TwoFiles        == {1, 2}
FiveHandles     == 1 .. 5
CacheCapacities == {0, 2}
FileCharge      == [k \in {1, 2} |-> k]

\* Two threads of one process and one of another
LockThreads  == {"app1", "app2", "other"}
LockProcess  == [app1 |-> "app", app2 |-> "app", other |-> "other"]
ThreeReaders == {"t1", "t2", "t3"}
\* Data that fits the buffer, that fills it, that overflows it and that passes it by
DataSizes     == {1, 2, 5, 7}
TwoSchedulers == {"s1", "s2"}

\* An item with a string that is allocated; a message that has items in an array, as a
\* pointer and in a oneof next to a string, and an array of its own with room for one
DecodeRow(in, h, a, l, sub, max) ==
    [in |-> in, h |-> h, a |-> a, l |-> l, sub |-> sub, max |-> max]
DecodeTable ==
    <<DecodeRow("Root", "repeated", "pointer", "message", "Item", 0),
      DecodeRow("Root", "oneof", "pointer", "string", "", 0),
      DecodeRow("Root", "oneof", "static", "message", "Item", 0),
      DecodeRow("Root", "optional", "pointer", "message", "Item", 0),
      DecodeRow("Root", "repeated", "static", "message", "Item", 1),
      DecodeRow("Root", "repeated", "pointer", "string", "", 0),
      DecodeRow("Root", "repeated", "pointer", "varint", "", 0),
      DecodeRow("Item", "required", "pointer", "string", "", 0),
      DecodeRow("Item", "repeated", "static", "varint", "", 2),
      DecodeRow("Item", "optional", "static", "string", "", 1),
      DecodeRow("Root", "oneof", "static", "varint", "", 0)>>
Decode == INSTANCE NanoDecode WITH
    Field <- DecodeTable, Root <- "Root", Inputs <- {10}, Lengths <- {0, 1},
    stack <- v1, memory <- v2, result <- v3

\* A message three deep, with strings, a packed array, a oneof and callbacks
EncodeRow(h, l, sub, max) == [h |-> h, l |-> l, sub |-> sub, max |-> max, group |-> 2]
EncodeTable ==
    <<EncodeRow("optional", "string", "", 2),
      EncodeRow("oneof", "message", "Item", 9),
      EncodeRow("repeated", "message", "Item", 1),
      EncodeRow("required", "message", "Leaf", 9),
      EncodeRow("optional", "callback", "", 9),
      EncodeRow("repeated", "number", "", 2),
      EncodeRow("optional", "callback", "", 9),
      EncodeRow("oneof", "number", "", 9)>>
EncodeOrder    == [Root |-> <<1, 2, 8, 3>>, Item |-> <<4, 5>>, Leaf |-> <<6, 7>>]
EncodeContents ==
    1 :> {0, 2} @@ 3 :> {0, 1, 2} @@ 4 :> {0, 1} @@ 6 :> {0, 2, 3} @@ 2 :> {0, 2, 8}
BufferSizes == {5, 12, 30}
CallbackChunks == {0, 1, 2}

-----------------------------------------------------------------------------
environment == <<lockVars, readersVars, writerVars, backgroundVars>>
own == <<environment, listVars, cacheVars, iteratorVars, logVars, encodeVars>>

\* One of the initial states of the iterator: a single key, in the memtable
OneKey == files = <<>> /\ \A e \in memtable : e.k = 1 /\ e.t = "value"

\* One of the initial states of the encoder: nothing but the fields that must be there
Plainest == call = "encode" /\ stack[1].max = 5 /\ \A t \in DOMAIN value : value[t] = 0

OwnInit ==
    /\ LocksInit /\ ReadersInit /\ WriterInit /\ BackgroundInit /\ ListInit
    /\ CacheInit /\ (part # "cache" => capacity = 0)
    /\ IteratorInit /\ (part # "iterator" => OneKey)
    /\ LogInit
    /\ EncodeInit /\ (part # "encode" => Plainest)

PartsInit ==
    \/ /\ part \in {"skiplist", "cache", "iterator", "log", "encode",
                    "locks", "readers", "writer", "background"}
       /\ Zero1 /\ OwnInit
    \/ /\ \/ part = "versions" /\ Versions!Init
          \/ part = "table" /\ Table!TableInit /\ Zero3
          \/ part = "decode" /\ Decode!NanoInit /\ Zero4
       /\ OwnInit

Same4 == UNCHANGED <<part, own, v4, v5, v6, v7, v8, v9, v10, v11, v12, v13>>
Same3 == Same4 /\ UNCHANGED v3

PartsNext ==
    \/ part = "versions" /\ Versions!Next /\ UNCHANGED <<part, own>>
    \/ part = "table" /\ Table!TableNext /\ Same3
    \/ part = "decode" /\ Decode!NanoNext /\ Same4
    \/ /\ UNCHANGED <<part, others>>
       /\ \/ /\ part = "skiplist" /\ ListNext
             /\ UNCHANGED <<environment, cacheVars, iteratorVars, logVars, encodeVars>>
          \/ /\ part = "cache" /\ CacheNext
             /\ UNCHANGED <<environment, listVars, iteratorVars, logVars, encodeVars>>
          \/ /\ part = "iterator" /\ IteratorNext
             /\ UNCHANGED <<environment, listVars, cacheVars, logVars, encodeVars>>
          \/ /\ part = "log" /\ LogNext
             /\ UNCHANGED <<environment, listVars, cacheVars, iteratorVars, encodeVars>>
          \/ /\ part = "encode" /\ EncodeNext
             /\ UNCHANGED <<environment, listVars, cacheVars, iteratorVars, logVars>>
    \/ /\ UNCHANGED <<part, others, listVars, cacheVars, iteratorVars, logVars, encodeVars>>
       /\ \/ /\ part = "locks" /\ LocksNext
             /\ UNCHANGED <<readersVars, writerVars, backgroundVars>>
          \/ /\ part = "readers" /\ ReadersNext
             /\ UNCHANGED <<lockVars, writerVars, backgroundVars>>
          \/ /\ part = "writer" /\ WriterNext
             /\ UNCHANGED <<lockVars, readersVars, backgroundVars>>
          \/ /\ part = "background" /\ BackgroundNext
             /\ UNCHANGED <<lockVars, readersVars, writerVars>>

PartsSpec == PartsInit /\ [][PartsNext]_<<part, others, own>>

-----------------------------------------------------------------------------
(* The property of each part, stated in its module; those of the environment,  *)
(* of the list of the memtable, of the cache, of the iterators, of the logs    *)
(* and of the encoder are taken as they are.                                   *)

\* db_impl.cc, version_set.cc: what a snapshot reads does not change, unless a compaction
\* took only a part of a key's entries or a memtable went into the gap of a merge.
ReadsKept == part = "versions" => Versions!ReadsKept /\ Versions!LevelsInOrder
\* table.cc: what was added to a table is found in it.
TableFindsEntries == part = "table" => Table!TableFindsEntries
\* pb_decode.c: a message owns each block of its memory once.
MemoryOwned == part = "decode" => Decode!MemoryOwned

=============================================================================
