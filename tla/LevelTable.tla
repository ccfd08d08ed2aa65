----------------------------- MODULE LevelTable -----------------------------
(* A table file of the local store (leveldb): table/table_builder.cc writes    *)
(* sorted entries into blocks (table/block_builder.cc) with an index of        *)
(* shortened keys and a filter, table/table.cc and table/block.cc find them    *)
(* again by binary search.                                                     *)
(*                                                                             *)
(* A key is the sequence of the bytes of its user key and, last, its sequence  *)
(* number.  A size is a number of bytes; where an entry is in a block is its   *)
(* place.  The Bloom filter is what it guarantees: it matches every key whose  *)
(* hash is that of a key it was built from.                                    *)
EXTENDS Integers, Sequences, FiniteSetsExt

CONSTANTS
    UserKeys,         \* sequences of bytes that are added
    Lookups,          \* sequences of bytes that are looked up
    MaxSequence,      \* sequence numbers of entries
    MaxByte,          \* 0xff
    RestartInterval,  \* block_restart_interval
    BlockSize,        \* block_size
    FilterBase,       \* kFilterBase
    Hash(_),          \* BloomHash of a user key
    MaxEntries        \* bound: entries of a table

VARIABLES
    rep,      \* the Rep of the builder
    added     \* the keys added, in order

tableVars == <<rep, added>>

-----------------------------------------------------------------------------
(* Keys.                                                                       *)

UserKey(key) == SubSeq(key, 1, Len(key) - 1)
Number(key) == key[Len(key)]
InternalKey(user, number) == Append(user, number)
kMaxSequenceNumber == MaxSequence + 1

Common(a, b) == Max({0} \cup {n \in 1 .. Min({Len(a), Len(b)}) : SubSeq(a, 1, n) = SubSeq(b, 1, n)})
Less(a, b) == LET n == Common(a, b)
              IN  n < Len(b) /\ (n < Len(a) => a[n + 1] < b[n + 1])
Before(k, l) == \/ Less(UserKey(k), UserKey(l))
                \/ UserKey(k) = UserKey(l) /\ Number(k) > Number(l)

\* The shorter key with the first byte raised that may be; the byte comparator, then
\* the internal one, which takes it only if it is shorter and larger
Raised(user, n) == Append(SubSeq(user, 1, n - 1), user[n] + 1)
Shortened(key, user) ==
    IF Len(user) < Len(UserKey(key)) /\ Less(UserKey(key), user)
    THEN InternalKey(user, kMaxSequenceNumber) ELSE key
FindShortestSeparator(start, limit) ==
    LET a == UserKey(start)
        b == UserKey(limit)
        n == Common(a, b) + 1
    IN  IF n > Len(a) \/ n > Len(b) \/ a[n] = MaxByte \/ a[n] + 1 >= b[n] THEN start
        ELSE Shortened(start, Raised(a, n))
FindShortSuccessor(key) ==
    LET a == UserKey(key)
        S == {n \in DOMAIN a : a[n] # MaxByte}
    IN  IF S = {} THEN key ELSE Shortened(key, Raised(a, Min(S)))

-----------------------------------------------------------------------------
(* Blocks: entries that share a prefix with the one before, but for restarts.  *)

NewBlock == [entries |-> << >>, restarts |-> <<1>>, counter |-> 0, lastKey |-> << >>]

\* Mutant of BlockAdd: a restart shares the prefix of the key before it.
BlockAddShares(block, key, value, interval) ==
    LET goesOn == block.counter < interval
        shared == Common(block.lastKey, key)
    IN  [entries |-> Append(block.entries,
                            [shared |-> shared, delta |-> SubSeq(key, shared + 1, Len(key)),
                             value |-> value]),
         restarts |-> IF goesOn THEN block.restarts
                      ELSE Append(block.restarts, Len(block.entries) + 1),
         counter |-> IF goesOn THEN block.counter + 1 ELSE 1,
         lastKey |-> key]

BlockAdd(block, key, value, interval) ==
    LET goesOn == block.counter < interval
        shared == IF goesOn THEN Common(block.lastKey, key) ELSE 0
    IN  [entries |-> Append(block.entries,
                            [shared |-> shared, delta |-> SubSeq(key, shared + 1, Len(key)),
                             value |-> value]),
         restarts |-> IF goesOn THEN block.restarts
                      ELSE Append(block.restarts, Len(block.entries) + 1),
         counter |-> IF goesOn THEN block.counter + 1 ELSE 1,
         lastKey |-> key]

Size(block) == MapThenSumSet(LAMBDA i : 1 + Len(block.entries[i].delta), DOMAIN block.entries)
               + Len(block.restarts)

\* ParseNextKey from a restart point on: the key of entry i, or << >> if a prefix is
\* missing
KeyFrom(block, restart, i) ==
    LET parse[j \in restart - 1 .. i] ==
            IF j < restart THEN << >>
            ELSE LET e == block.entries[j]
                 IN  IF Len(parse[j - 1]) < e.shared THEN << >>
                     ELSE SubSeq(parse[j - 1], 1, e.shared) \o e.delta
    IN  parse[i]

\* Block::Iter::Seek: the last restart whose key is before the target, then on from there
RestartBefore(block, target) ==
    LET search[n \in 0 .. Len(block.restarts)] ==
            IF n = 0 THEN [left |-> 1, right |-> Len(block.restarts)]
            ELSE LET s == search[n - 1]
                     mid == (s.left + s.right + 1) \div 2
                     at == block.restarts[mid]
                 IN  IF s.left >= s.right THEN s
                     ELSE IF Before(KeyFrom(block, at, at), target)
                     THEN [s EXCEPT !.left = mid] ELSE [s EXCEPT !.right = mid - 1]
    IN  block.restarts[search[Len(block.restarts)].left]
BlockSeek(block, target) ==
    LET from == RestartBefore(block, target)
    IN  Min({Len(block.entries) + 1} \cup
            {i \in from .. Len(block.entries) : ~Before(KeyFrom(block, from, i), target)})

\* Block::Iter::Prev: back to a restart before the entry, then on up to it
BlockPrev(block, i) ==
    LET S == {r \in DOMAIN block.restarts : block.restarts[r] < i}
    IN  KeyFrom(block, block.restarts[Max(S)], i - 1)

-----------------------------------------------------------------------------
(* The builder.                                                                *)

NewRep == [data |-> NewBlock, index |-> NewBlock, blocks |-> << >>, pending |-> 0,
           lastKey |-> << >>, offset |-> 0, filters |-> << >>, filterKeys |-> {},
           ok |-> TRUE, closed |-> FALSE]

\* FilterBlockBuilder: one filter for every FilterBase bytes of the file
GenerateFilter(r) == [r EXCEPT !.filters = Append(@, {Hash(u) : u \in r.filterKeys}),
                               !.filterKeys = {}]
StartBlock(r) ==
    LET missing == r.offset \div FilterBase - Len(r.filters)
    IN  IF missing <= 0 THEN r
        ELSE [GenerateFilter(r) EXCEPT !.filters = @ \o [i \in 1 .. missing - 1 |-> {}]]

\* Flush and WriteBlock: the block is written, or an error stops the builder
Flush(r, ok) ==
    IF ~r.ok \/ r.data.entries = << >> THEN r
    ELSE StartBlock(
           IF ok THEN [r EXCEPT !.blocks = Append(@, [block |-> r.data, offset |-> r.offset]),
                                !.pending = Len(r.blocks) + 1,
                                !.offset = @ + Size(r.data), !.data = NewBlock]
           ELSE [r EXCEPT !.ok = FALSE, !.data = NewBlock])

\* The index entry of a block is made when the first key of the next is known
WithIndexEntry(r, keyAfter) ==
    IF r.pending = 0 THEN r
    ELSE [r EXCEPT !.index = BlockAdd(@, keyAfter, r.pending, 1), !.pending = 0]
Added(r, key, ok) ==
    LET indexed == WithIndexEntry(r, FindShortestSeparator(r.lastKey, key))
        with == [indexed EXCEPT !.filterKeys = @ \cup {UserKey(key)}, !.lastKey = key,
                                !.data = BlockAdd(@, key, key, RestartInterval)]
    IN  IF ~r.ok THEN r ELSE IF Size(with.data) >= BlockSize THEN Flush(with, ok) ELSE with

Add(user, number, ok) ==
    LET key == InternalKey(user, number)
    IN  /\ ~rep.closed /\ Len(added) < MaxEntries
        /\ \A i \in DOMAIN added : Before(added[i], key)
        /\ rep' = Added(rep, key, ok)
        /\ added' = Append(added, key)

\* Finish: the last block, the last filter, the metaindex, the index, the footer
Finish(ok) ==
    /\ ~rep.closed
    /\ LET flushed == Flush(rep, ok)
           filtered == IF flushed.filterKeys = {} THEN flushed ELSE GenerateFilter(flushed)
           indexed == WithIndexEntry(filtered, FindShortSuccessor(filtered.lastKey))
       IN  rep' = IF ~flushed.ok THEN [flushed EXCEPT !.closed = TRUE]
                  ELSE [indexed EXCEPT !.ok = ok, !.closed = TRUE]
    /\ UNCHANGED added

-----------------------------------------------------------------------------
(* The reader.                                                                 *)

Block(handle) == rep.blocks[handle].block
IndexSeek(key) == BlockSeek(rep.index, key)
InIndex(i) == i <= Len(rep.index.entries)
Handle(i) == rep.index.entries[i].value
EntryOf(handle, i) == Block(handle).entries[i].value

\* FilterBlockReader::KeyMayMatch: a block beyond the last filter is a match
KeyMayMatch(handle, user) ==
    LET n == rep.blocks[handle].offset \div FilterBase + 1
    IN  n <= Len(rep.filters) => Hash(user) \in rep.filters[n]

\* Table::InternalGet: what the callback is given, << >> for nothing
InternalGet(key) ==
    LET i == IndexSeek(key)
    IN  IF ~InIndex(i) \/ ~KeyMayMatch(Handle(i), UserKey(key)) THEN << >>
        ELSE LET j == BlockSeek(Block(Handle(i)), key)
             IN  IF j > Len(Block(Handle(i)).entries) THEN << >> ELSE EntryOf(Handle(i), j)

\* A seek of NewIterator: on to the next block if this one has nothing
IteratorSeek(key) ==
    LET i == IndexSeek(key)
    IN  IF ~InIndex(i) THEN << >>
        ELSE LET j == BlockSeek(Block(Handle(i)), key)
             IN  IF j <= Len(Block(Handle(i)).entries) THEN EntryOf(Handle(i), j)
                 ELSE IF InIndex(i + 1) THEN EntryOf(Handle(i + 1), 1) ELSE << >>

ApproximateOffsetOf(key) ==
    IF InIndex(IndexSeek(key)) THEN rep.blocks[Handle(IndexSeek(key))].offset ELSE rep.offset

-----------------------------------------------------------------------------

TableInit == rep = NewRep /\ added = << >>

TableNext ==
    \/ \E user \in UserKeys, number \in 1 .. MaxSequence, ok \in BOOLEAN : Add(user, number, ok)
    \/ \E ok \in BOOLEAN : Finish(ok)

TableSpec == TableInit /\ [][TableNext]_tableVars

-----------------------------------------------------------------------------
(* A table that was finished without an error gives back what was added: a     *)
(* seek stands on the first entry at or after its key, a Get whose key has an  *)
(* entry is not turned away by the index or the filter, an iterator can step   *)
(* back from every entry, and offsets grow with the keys.  Shared prefixes,    *)
(* restarts and the shortened keys of the index change nothing of it           *)
(* (TableBuilder::Add: "it is >= all entries in the first block and < all      *)
(* entries in subsequent blocks").                                             *)
FirstFrom(key) ==
    LET S == {i \in DOMAIN added : ~Before(added[i], key)}
    IN  IF S = {} THEN << >> ELSE added[Min(S)]
TableFindsEntries ==
    rep.closed /\ rep.ok =>
        /\ \A user \in Lookups, number \in 1 .. MaxSequence :
             LET key == InternalKey(user, number)
                 first == FirstFrom(key)
             IN  /\ IteratorSeek(key) = first
                 /\ first # << >> /\ UserKey(first) = user => InternalGet(key) = first
                 /\ first # << >> => ApproximateOffsetOf(key) <= ApproximateOffsetOf(first)
        /\ \A h \in DOMAIN rep.blocks : \A i \in 2 .. Len(Block(h).entries) :
             BlockPrev(Block(h), i) = EntryOf(h, i - 1)

=============================================================================
