--------------------------- MODULE LevelIterator ---------------------------
(* The iterators of the local store: DBIter (db/db_iter.cc), which shows the   *)
(* keys and values of one snapshot, over a MergingIterator (table/merger.cc)   *)
(* of the memtable and of the files of a level (table/two_level_iterator.cc,   *)
(* LevelFileNumIterator).  The memtable grows while the iterator is used.      *)
(*                                                                             *)
(* The entries of a source are a set; where an iterator stands is an entry.    *)
EXTENDS Integers, Sequences, FiniteSetsExt

CONSTANTS
    UserKeys,       \* keys, integers
    Sequence,       \* the snapshot of the iterator
    MaxSequence,    \* bound: the last sequence number written
    BadFiles        \* files that may turn out unreadable, a subset of {1, 2}

\* 0 stands for no key; the sequence numbers of writes begin at 1.
ASSUME IteratorConstants == UserKeys \subseteq Int \ {0} /\ {Sequence, MaxSequence} \subseteq Nat

VARIABLES
    memtable,   \* the entries of the memtable
    files,      \* the entries of each file of the level, in order
    bad,        \* the files that cannot be read
    at,         \* where the two children are
    failed,     \* status_ of the concatenating iterator is an error
    current,    \* current_ of the merging iterator, 0 for none
    merging,    \* its direction_
    direction,  \* direction_ of DBIter
    valid,      \* valid_
    savedKey,   \* saved_key_, 0 for none
    savedValue, \* saved_value_: the sequence of the value
    loop,       \* the loop DBIter is in, or "none"
    skipping,   \* of FindNextUserEntry
    valueType,  \* of FindPrevUserEntry
    want        \* the key the caller asked for, 0 for none

sourceVars == <<memtable, files, bad>>
mergeVars == <<at, failed, current, merging>>
dbIterVars == <<direction, valid, savedKey, savedValue, loop, skipping, valueType>>
iteratorVars == <<sourceVars, mergeVars, dbIterVars, want>>

Types == {"deletion", "value"}
NoEntry == [k |-> 0, s |-> 0, t |-> "none"]

\* InternalKeyComparator: by user key, the newest entry first
Before(a, b) == a.k < b.k \/ (a.k = b.k /\ a.s > b.s)
FirstOf(S) == IF S = {} THEN NoEntry ELSE CHOOSE e \in S : \A x \in S \ {e} : Before(e, x)
LastOf(S) == IF S = {} THEN NoEntry ELSE CHOOSE e \in S : \A x \in S \ {e} : Before(x, e)
After(S, e) == {x \in S : Before(e, x)}
Until(S, e) == {x \in S : Before(x, e)}

-----------------------------------------------------------------------------
(* The children.  The memtable is child 1, the files of the level child 2: its *)
(* iterator passes over files it cannot read and keeps the error.              *)

Children == {1, 2}
Readable == UNION {files[f] : f \in DOMAIN files \ bad}
ChildEntries(c) == IF c = 1 THEN memtable ELSE Readable

\* The files SkipEmptyDataBlocksForward or -Backward opens and leaves again
FileOf(e) == CHOOSE f \in DOMAIN files : e \in files[f]
AtOrAfter(S, e) == {x \in S : ~Before(x, e)}
PassedForward(from, to) ==
    bad \cap {f \in DOMAIN files : from <= f /\ (to = NoEntry \/ f < FileOf(to))}
PassedBackward(from, to) ==
    bad \cap {f \in DOMAIN files : f <= from /\ (to = NoEntry \/ f > FileOf(to))}

\* FindFile: the first file whose largest key is not before the target
FindFile(target) ==
    LET S == {f \in DOMAIN files : AtOrAfter(files[f], target) # {}}
    IN  IF S = {} THEN Len(files) + 1 ELSE Min(S)

-----------------------------------------------------------------------------
(* The merging iterator: where its children are, given where they go.          *)

FindSmallest(pos) ==
    LET S == {c \in Children : pos[c] # NoEntry}
    IN  IF S = {} THEN 0 ELSE CHOOSE c \in S : \A d \in S : c = d \/ Before(pos[c], pos[d])
FindLargest(pos) ==
    LET S == {c \in Children : pos[c] # NoEntry}
    IN  IF S = {} THEN 0 ELSE CHOOSE c \in S : \A d \in S : c = d \/ Before(pos[d], pos[c])

Forward(pos, passed) ==
    /\ at' = pos /\ current' = FindSmallest(pos) /\ merging' = "forward"
    /\ failed' = (failed \/ passed # {})
Backward(pos, passed) ==
    /\ at' = pos /\ current' = FindLargest(pos) /\ merging' = "reverse"
    /\ failed' = (failed \/ passed # {})

MergeSeek(target) ==
    LET pos == [c \in Children |-> FirstOf(AtOrAfter(ChildEntries(c), target))]
    IN  Forward(pos, PassedForward(FindFile(target), pos[2]))
MergeSeekToFirst ==
    LET pos == [c \in Children |-> FirstOf(ChildEntries(c))]
    IN  Forward(pos, PassedForward(1, pos[2]))
MergeSeekToLast ==
    LET pos == [c \in Children |-> LastOf(ChildEntries(c))]
    IN  Backward(pos, PassedBackward(Len(files), pos[2]))

Key == at[current]

\* Mutant of MergeNext: a change of direction leaves the other child where it is.
MergeNextOneSided ==
    LET pos == [at EXCEPT ![current] = FirstOf(After(ChildEntries(current), Key))]
    IN  Forward(pos, IF current = 2 THEN PassedForward(FileOf(Key), pos[2]) ELSE {})

\* Next and Prev: the others are first put on the right side of key()
MergeNext ==
    LET pos == [c \in Children |->
                  IF c = current \/ merging # "forward"
                  THEN FirstOf(After(ChildEntries(c), Key)) ELSE at[c]]
        from == IF current = 2 THEN FileOf(Key) ELSE FindFile(Key)
    IN  Forward(pos, IF current = 2 \/ merging # "forward"
                     THEN PassedForward(from, pos[2]) ELSE {})

\* A child is sought forward, over what cannot be read, and then steps back
SoughtForward == FirstOf(AtOrAfter(Readable, Key))
MergePrev ==
    LET pos == [c \in Children |->
                  IF c = current \/ merging # "reverse"
                  THEN LastOf(Until(ChildEntries(c), Key)) ELSE at[c]]
        back == IF current = 2 THEN FileOf(Key)
                ELSE IF SoughtForward # NoEntry THEN FileOf(SoughtForward) ELSE Len(files)
    IN  Backward(pos,
          IF current = 2 THEN PassedBackward(back, pos[2])
          ELSE IF merging # "reverse"
          THEN PassedForward(FindFile(Key), SoughtForward) \cup PassedBackward(back, pos[2])
          ELSE {})

IterValid == current # 0

-----------------------------------------------------------------------------
(* DBIter.  A call runs its loops step by step, between the writes of others.  *)

IterIdle == loop = "none"
Ends(v) ==
    /\ loop' = "none" /\ valid' = v

\* What the iterator has to show: of each key its last entry up to the snapshot
Visible == {e \in memtable \cup UNION {files[f] : f \in DOMAIN files} : e.s <= Sequence}
View == {e \in Visible : e.t = "value" /\ \A x \in Visible : x.k = e.k => x.s <= e.s}
Wanted(S) == FirstOf(S).k

Seek(k) ==
    /\ IterIdle
    /\ MergeSeek([k |-> k, s |-> Sequence, t |-> "value"])
    /\ direction' = "forward" /\ loop' = "seek" /\ skipping' = FALSE
    /\ savedKey' = 0 /\ savedValue' = 0
    /\ want' = Wanted({e \in View : e.k >= k})
    /\ UNCHANGED <<sourceVars, valid, valueType>>

SeekToFirst ==
    /\ IterIdle
    /\ MergeSeekToFirst
    /\ direction' = "forward" /\ loop' = "seek" /\ skipping' = FALSE
    /\ savedKey' = 0 /\ savedValue' = 0
    /\ want' = Wanted(View)
    /\ UNCHANGED <<sourceVars, valid, valueType>>

SeekToLast ==
    /\ IterIdle
    /\ MergeSeekToLast
    /\ direction' = "reverse" /\ loop' = "prev" /\ valueType' = "deletion"
    /\ savedValue' = 0
    /\ want' = LastOf(View).k
    /\ UNCHANGED <<sourceVars, valid, savedKey, skipping>>

\* Next: over the entries of the key that is shown
Next ==
    /\ IterIdle /\ valid
    /\ IF direction = "reverse"
       THEN /\ IF IterValid THEN MergeNext ELSE MergeSeekToFirst
            /\ savedKey' = savedKey
       ELSE /\ MergeNext /\ savedKey' = Key.k
    /\ direction' = "forward" /\ loop' = "next" /\ skipping' = TRUE
    /\ want' = Wanted({e \in View : e.k > want})
    /\ UNCHANGED <<sourceVars, valid, savedValue, valueType>>

\* Prev: first back to before the entries of the key that is shown
Prev ==
    /\ IterIdle /\ valid
    /\ want' = LastOf({e \in View : e.k < want}).k
    /\ IF direction = "forward"
       THEN /\ MergePrev
            /\ savedKey' = Key.k /\ loop' = "scan"
            /\ UNCHANGED valueType
       ELSE /\ loop' = "prev" /\ valueType' = "deletion"
            /\ UNCHANGED <<mergeVars, savedKey>>
    /\ UNCHANGED <<sourceVars, direction, valid, savedValue, skipping>>

\* The end of the entries, going forward
OutOfEntries ==
    /\ loop \in {"seek", "next"} /\ ~IterValid
    /\ Ends(FALSE) /\ savedKey' = 0
    /\ UNCHANGED <<sourceVars, mergeVars, direction, savedValue, skipping, valueType, want>>

\* FindNextUserEntry
Hides == Key.s <= Sequence /\ Key.t = "deletion"
Shows == Key.s <= Sequence /\ Key.t = "value" /\ (skipping => Key.k > savedKey)
FindNextUserEntry ==
    /\ loop \in {"seek", "next"} /\ IterValid
    /\ IF Shows
       THEN Ends(TRUE) /\ savedKey' = 0 /\ UNCHANGED <<mergeVars, skipping>>
       ELSE /\ MergeNext
            /\ savedKey' = (IF Hides THEN Key.k ELSE savedKey)
            /\ skipping' = (skipping \/ Hides)
            /\ UNCHANGED <<loop, valid>>
    /\ UNCHANGED <<sourceVars, direction, savedValue, valueType, want>>

\* The scan of Prev until the key changes
ScanBack ==
    /\ loop = "scan"
    /\ IF ~IterValid
       THEN /\ Ends(FALSE) /\ savedKey' = 0 /\ savedValue' = 0
            /\ UNCHANGED <<mergeVars, direction, valueType>>
       ELSE /\ IF Key.k < savedKey
               THEN /\ direction' = "reverse" /\ loop' = "prev" /\ valueType' = "deletion"
                    /\ UNCHANGED mergeVars
               ELSE MergePrev /\ UNCHANGED <<direction, loop, valueType>>
            /\ UNCHANGED <<valid, savedKey, savedValue>>
    /\ UNCHANGED <<sourceVars, skipping, want>>

\* FindPrevUserEntry
FindPrevUserEntry ==
    /\ loop = "prev"
    /\ IF ~IterValid \/ (/\ Key.s <= Sequence /\ valueType # "deletion"
                         /\ Key.k < savedKey)
       THEN /\ Ends(valueType # "deletion")
            /\ IF valueType = "deletion"
               THEN savedKey' = 0 /\ savedValue' = 0 /\ direction' = "forward"
               ELSE UNCHANGED <<savedKey, savedValue, direction>>
            /\ UNCHANGED <<mergeVars, valueType>>
       ELSE /\ IF Key.s <= Sequence
               THEN /\ valueType' = Key.t
                    /\ savedKey' = (IF Key.t = "value" THEN Key.k ELSE 0)
                    /\ savedValue' = (IF Key.t = "value" THEN Key.s ELSE 0)
               ELSE UNCHANGED <<valueType, savedKey, savedValue>>
            /\ MergePrev
            /\ UNCHANGED <<loop, valid, direction>>
    /\ UNCHANGED <<sourceVars, skipping, want>>

\* Others write to the memtable, after the snapshot
LastSequence ==
    Max({Sequence} \cup {e.s : e \in memtable \cup UNION {files[f] : f \in DOMAIN files}})
MemtableAdd(k, t) ==
    /\ LastSequence < MaxSequence
    /\ memtable' = memtable \cup {[k |-> k, s |-> LastSequence + 1, t |-> t]}
    /\ UNCHANGED <<files, bad, mergeVars, dbIterVars, want>>

-----------------------------------------------------------------------------

\* The entries up to the snapshot, spread over the memtable and two ordered files
IteratorInit ==
    /\ \E ks \in [1 .. Sequence -> UserKeys \X Types] :
       \E inMemtable \in SUBSET (1 .. Sequence) :
         LET e(s) == [k |-> ks[s][1], s |-> s, t |-> ks[s][2]]
             old == {e(s) : s \in (1 .. Sequence) \ inMemtable}
         IN  /\ memtable = {e(s) : s \in inMemtable}
             /\ IF old = {} THEN files = <<>>
                ELSE \E m \in old : files = IF After(old, m) = {} THEN <<old>>
                                            ELSE <<old \ After(old, m), After(old, m)>>
    /\ \E B \in SUBSET BadFiles : bad = B \cap DOMAIN files
    /\ at = [c \in Children |-> NoEntry] /\ failed = FALSE
    /\ current = 0 /\ merging = "forward"
    /\ direction = "forward" /\ valid = FALSE
    /\ savedKey = 0 /\ savedValue = 0
    /\ loop = "none" /\ skipping = FALSE /\ valueType = "deletion"
    /\ want = 0

IteratorNext ==
    \/ \E k \in UserKeys : Seek(k) \/ \E t \in Types : MemtableAdd(k, t)
    \/ SeekToFirst \/ SeekToLast \/ Next \/ Prev
    \/ OutOfEntries \/ FindNextUserEntry \/ ScanBack \/ FindPrevUserEntry

IteratorSpec == IteratorInit /\ [][IteratorNext]_iteratorVars

-----------------------------------------------------------------------------
(* Properties.                                                                 *)

Shown == IF ~valid THEN <<0, 0>>
         ELSE IF direction = "forward" THEN <<Key.k, Key.s>> ELSE <<savedKey, savedValue>>

\* After every call, whichever way the caller turned before and whatever others write
\* meanwhile, the iterator stands where a walk through the snapshot would stand, on
\* its value, or else status() is an error (DBIter, MergingIterator, TwoLevelIterator).
IteratorFollowsSnapshot ==
    IterIdle /\ ~failed =>
        /\ valid <=> want # 0
        /\ valid => \E e \in View : e.k = want /\ Shown = <<e.k, e.s>>

=============================================================================
