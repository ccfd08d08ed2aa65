--------------------------- MODULE LevelSkipList ---------------------------
(* The list of the memtable of the local store (leveldb): db/skiplist.h, with  *)
(* one writer at a time and readers that take no lock.  db/memtable.cc keeps   *)
(* its entries in it.                                                          *)
(*                                                                             *)
(* A node is its key, a number; the head comes before all keys and the null    *)
(* pointer, which "is considered infinite", after them.                        *)
EXTENDS Integers, FiniteSetsExt

CONSTANTS
    MaxKey,       \* keys are 1 .. MaxKey
    kMaxHeight

ASSUME ListConstants == MaxKey \in Nat /\ kMaxHeight \in Nat \ {0}

HeadNode == 0
NullNode == MaxKey + 1
Nodes == HeadNode .. MaxKey
Levels == 0 .. kMaxHeight - 1

VARIABLES
    next,        \* next_[level] of each node
    heights,     \* the values max_height_ has had; it only grows
    present,     \* the keys whose Insert has returned
    insert,      \* the Insert under way
    search       \* the search of a reader, with what was present when it began

listVars == <<next, heights, present, insert, search>>

None == [op |-> "none"]

-----------------------------------------------------------------------------
(* The loop of FindGreaterOrEqual, FindLessThan and FindLast: along a level    *)
(* while the next node is before the key, then down.  FindLast runs to the     *)
(* null pointer.                                                               *)

NextOf(s) == next[s.level][s.x]
GoesOn(s) == NextOf(s) < s.key
Along(s) == [s EXCEPT !.x = NextOf(s)]
Down(s) == [s EXCEPT !.level = @ - 1]

-----------------------------------------------------------------------------
(* The writer.                                                                 *)

Insert(key) ==
    /\ insert = None /\ key \notin present
    /\ insert' = [op |-> "find", key |-> key, x |-> HeadNode, level |-> Max(heights) - 1,
                  height |-> 0, prev |-> [l \in Levels |-> HeadNode]]
    /\ UNCHANGED <<next, heights, present, search>>

InsertSearches ==
    /\ insert.op = "find"
    /\ IF GoesOn(insert) THEN insert' = Along(insert)
       ELSE LET found == [insert EXCEPT !.prev[insert.level] = insert.x]
            IN  insert' = IF insert.level > 0 THEN Down(found)
                          ELSE [found EXCEPT !.op = "height"]
    /\ UNCHANGED <<next, heights, present, search>>

\* RandomHeight; the levels that were not in use start at the head
NewHeight(height) ==
    /\ insert.op = "height"
    /\ insert' = [insert EXCEPT !.op = "link", !.level = 0, !.height = height]
    /\ heights' = (IF height > Max(heights) THEN heights \cup {height} ELSE heights)
    /\ UNCHANGED <<next, present, search>>

\* Mutant of SetNextOfNode: the node is published before it has its own link.
SetNextOfNodeLater ==
    /\ insert.op = "link"
    /\ insert' = [insert EXCEPT !.op = "publish"]
    /\ UNCHANGED <<next, heights, present, search>>

\* Of each level the link of the new node, then the one that publishes it
SetNextOfNode ==
    /\ insert.op = "link"
    /\ next' = [next EXCEPT ![insert.level][insert.key] =
                              next[insert.level][insert.prev[insert.level]]]
    /\ insert' = [insert EXCEPT !.op = "publish"]
    /\ UNCHANGED <<heights, present, search>>
SetNextOfPrev ==
    /\ insert.op = "publish"
    /\ next' = [next EXCEPT ![insert.level][insert.prev[insert.level]] = insert.key]
    /\ IF insert.level + 1 < insert.height
       THEN insert' = [insert EXCEPT !.op = "link", !.level = @ + 1] /\ UNCHANGED present
       ELSE insert' = None /\ present' = present \cup {insert.key}
    /\ UNCHANGED <<heights, search>>

-----------------------------------------------------------------------------
(* A reader: Seek, Contains and MemTable::Get look for a key or the first      *)
(* after it, Prev for the last before a key, SeekToLast for the last of all.   *)
(* The value of max_height_ they read may be an old one.                       *)

Search(kind, key) ==
    /\ search.op # "run"
    /\ \E height \in heights :
         search' = [op |-> "run", kind |-> kind, key |-> key, x |-> HeadNode,
                    level |-> height - 1, result |-> NullNode, before |-> present]
    /\ UNCHANGED <<next, heights, present, insert>>

FindGreaterOrEqual(key) == Search("atOrAfter", key)
FindLessThan(key) == Search("before", key)
FindLast == Search("before", NullNode)

\* One load of a pointer and what follows from it
SearchStep ==
    /\ search.op = "run"
    /\ search' = IF GoesOn(search) THEN Along(search)
                 ELSE IF search.level > 0 THEN Down(search)
                 ELSE [search EXCEPT !.op = "done", !.result =
                         IF search.kind = "atOrAfter" THEN NextOf(search) ELSE search.x]
    /\ UNCHANGED <<next, heights, present, insert>>

\* Next of an iterator that stands on a node
NextNode ==
    /\ search.op = "done" /\ search.result \in 1 .. MaxKey
    /\ search' = [search EXCEPT !.kind = "after", !.key = search.result,
                                !.result = next[0][search.result], !.before = present]
    /\ UNCHANGED <<next, heights, present, insert>>

-----------------------------------------------------------------------------

ListInit ==
    /\ next = [l \in Levels |-> [n \in Nodes |-> NullNode]]
    /\ heights = {1}
    /\ present = {}
    /\ insert = None
    /\ search = None

ListNext ==
    \/ \E key \in 1 .. MaxKey : Insert(key) \/ FindGreaterOrEqual(key) \/ FindLessThan(key)
    \/ InsertSearches
    \/ \E height \in 1 .. kMaxHeight : NewHeight(height)
    \/ SetNextOfNode \/ SetNextOfPrev
    \/ FindLast \/ SearchStep \/ NextNode

ListSpec == ListInit /\ [][ListNext]_listVars

-----------------------------------------------------------------------------
(* Properties.                                                                 *)

\* A reader that runs beside the writer finds every key that was there when it began
\* its search: none lies between what it looked for and what it found, and what it
\* found was inserted or is being inserted (SetNext with release after the links of the
\* new node; "stale values are ok" for max_height_).
Passed == CASE search.kind = "atOrAfter" -> search.key .. search.result - 1
            [] search.kind = "after"     -> search.key + 1 .. search.result - 1
            [] search.kind = "before"    -> search.result + 1 .. search.key - 1
ReadersMissNothing ==
    search.op = "done" =>
        /\ Passed \cap search.before = {}
        /\ search.result \in {HeadNode, NullNode} \cup present
                              \cup (IF insert = None THEN {} ELSE {insert.key})
        /\ search.kind = "before" => search.result < search.key
        /\ search.kind # "before" => search.result >= search.key

=============================================================================
