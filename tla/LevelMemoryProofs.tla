-------------------------- MODULE LevelMemoryProofs ---------------------------
(* Proofs about what the local store keeps in memory: LevelSkipList, the list  *)
(* of the memtable, with readers that take no lock beside one writer;          *)
(* LevelCache, the cache of tables and blocks, with the threads that share it; *)
(* and LevelIterator, the iterators that show a snapshot.                      *)
EXTENDS LevelSkipList, LevelCache, LevelIterator,
        FiniteSetTheorems, SequenceTheorems, WellFoundedInduction, TLAPS

-----------------------------------------------------------------------------
(* The inductive invariant.                                                    *)

Keys == 1 .. MaxKey

\* The key under way once its node hangs in level 0, where readers meet it.
Linked == IF insert.op \in {"link", "publish"} /\ insert.level # 0 THEN {insert.key} ELSE {}
Placed == present \cup Linked
Starts == {HeadNode} \cup Placed
Links == {NullNode} \cup Placed

\* The records of an Insert and of a search under way.
Inserts == [op : {"find", "height", "link", "publish"}, key : Keys, x : Nodes,
            level : Levels, height : 0 .. kMaxHeight, prev : [Levels -> Nodes]]
Searches == [op : {"run", "done"}, kind : {"atOrAfter", "before", "after"},
             key : 1 .. NullNode, x : Nodes, level : Levels,
             result : 0 .. NullNode, before : SUBSET Keys]

WriterTypes ==
    /\ next \in [Levels -> [Nodes -> Nat]]
    /\ heights \in SUBSET (1 .. kMaxHeight) /\ 1 \in heights
    /\ present \in SUBSET Keys
    /\ insert # None => insert \in Inserts
SearchType == search # None => search \in Searches

\* Every link goes forward, to a node that is in the list; levels that max_height_ never
\* reached hold only the head; and level 0 passes over nothing.
LinksForward == \A l \in Levels : \A n \in Nodes : next[l][n] > n /\ next[l][n] \in Links
UpperLevelsEmpty == \A l \in Levels : l >= Max(heights) => \A n \in Nodes : next[l][n] = NullNode
Level0Complete == \A n \in Starts : \A m \in Placed : m <= n \/ next[0][n] <= m

\* On level l the key under way belongs between prev[l] and what follows it.
Belongs(l) ==
    /\ insert.prev[l] \in Starts /\ insert.prev[l] < insert.key
    /\ insert.key < next[l][insert.prev[l]]
InsertInv ==
    insert # None =>
        /\ insert.key \notin present
        /\ insert.op = "find" =>
              /\ insert.x \in Starts /\ insert.x < insert.key
              /\ \A l \in Levels : l > insert.level => Belongs(l)
        /\ insert.op = "height" => \A l \in Levels : Belongs(l)
        /\ insert.op \in {"link", "publish"} =>
              /\ insert.level < insert.height
              /\ insert.height <= Max(heights)
              /\ \A l \in Levels : l >= insert.level => Belongs(l)
        /\ insert.op = "publish" =>
              next[insert.level][insert.key] = next[insert.level][insert.prev[insert.level]]

\* A search under way stands on a node of the list before the key; what it found is there,
\* and nothing of what was present when it began lies between.
RunInv ==
    search # None /\ search.op = "run" =>
        /\ search.kind # "after"
        /\ search.x \in Starts /\ search.x < search.key /\ search.before \subseteq present
DoneInv ==
    search # None /\ search.op = "done" =>
        /\ Passed \cap search.before = {}
        /\ search.result \in {HeadNode} \cup Links
        /\ search.kind = "before" => search.result < search.key
        /\ search.kind # "before" => search.result >= search.key

ListHolds == WriterTypes /\ LinksForward /\ UpperLevelsEmpty /\ Level0Complete /\ InsertInv
SearchHolds == SearchType /\ RunInv /\ DoneInv
SkipListInv == ListHolds /\ SearchHolds

-----------------------------------------------------------------------------
(* Lemmas.                                                                     *)

LEMMA MaxIsThere ==
    ASSUME NEW S \in SUBSET (1 .. kMaxHeight), S # {}
    PROVE  Max(S) \in S /\ \A h \in S : h <= Max(S)
<1> DEFINE T == {kMaxHeight - h : h \in S}
<1>0. \A h \in S : h \in Nat /\ kMaxHeight - h \in Nat
  BY ListConstants
<1>1. T \subseteq Nat /\ T # {}
  BY <1>0
<1>2. PICK t \in T : \A u \in T : ~ (<<u, t>> \in OpToRel(<, Nat))
  <2> HIDE DEF T
  <2> QED BY <1>1, NatLessThanWellFounded, WFMin
<1>3. \A u \in T : ~ (u < t)
  BY <1>1, <1>2 DEF OpToRel
<1>4. PICK h \in S : t = kMaxHeight - h
  OBVIOUS
<1>5. ASSUME NEW g \in S PROVE h >= g
  <2>1. ~(kMaxHeight - g < kMaxHeight - h)
    BY <1>3, <1>4
  <2> QED BY <1>0, <2>1, ListConstants
<1>6. \E x \in S : \A y \in S : x >= y
  BY <1>5
<1>7. Max(S) \in S /\ \A y \in S : Max(S) >= y
  BY <1>6 DEF Max
<1> QED BY <1>7, ListConstants

LEMMA HeightsBound ==
    ASSUME WriterTypes
    PROVE  /\ Max(heights) \in 1 .. kMaxHeight /\ Max(heights) \in heights
           /\ Max(heights) - 1 \in Levels /\ 0 \in Levels
           /\ \A h \in heights : h <= Max(heights) /\ h - 1 \in Levels
<1>1. heights \in SUBSET (1 .. kMaxHeight) /\ heights # {}
  BY DEF WriterTypes
<1>2. Max(heights) \in heights /\ \A h \in heights : h <= Max(heights)
  BY <1>1, MaxIsThere
<1>3. kMaxHeight \in Nat /\ kMaxHeight > 0
  BY ListConstants
<1>4. \A h \in heights : h \in 1 .. kMaxHeight
  BY <1>1
<1>5. \A h \in heights : h - 1 \in Levels
  BY <1>3, <1>4 DEF Levels
<1>6. 0 \in Levels
  BY <1>3 DEF Levels
<1> QED BY <1>2, <1>4, <1>5, <1>6

LEMMA Sets ==
    ASSUME WriterTypes
    PROVE  /\ present \subseteq Placed /\ Placed \subseteq Keys /\ Placed \subseteq Starts
           /\ Starts \subseteq Nodes /\ Placed \subseteq Links /\ NullNode \in Links
           /\ HeadNode \in Starts /\ \A n \in Links : n <= NullNode /\ n \in Nat
           /\ \A n \in Links : n < NullNode => n \in Placed
           /\ NullNode \in Nat /\ Nodes \subseteq Nat /\ Keys \subseteq Nodes
<1>1. Linked \subseteq Keys
  BY DEF WriterTypes, Inserts, Linked, None
<1> QED BY <1>1, ListConstants
        DEF WriterTypes, Placed, Starts, Links, Keys, Nodes, HeadNode, NullNode

\* A search under way is not disturbed by what the writer adds.
LEMMA SearchUndisturbed ==
    ASSUME SearchHolds, UNCHANGED search, present \subseteq present', Placed \subseteq Placed'
    PROVE  SearchHolds'
<1>1. Starts \subseteq Starts' /\ Links \subseteq Links'
  BY DEF Starts, Links
<1>2. Passed' = Passed
  BY DEF Passed
<1> QED BY <1>1, <1>2 DEF SearchHolds, SearchType, RunInv, DoneInv, None

\* What a reader does leaves the list and the writer alone.
LEMMA ListUndisturbed ==
    ASSUME ListHolds, UNCHANGED <<next, heights, present, insert>>
    PROVE  ListHolds'
BY DEF ListHolds, WriterTypes, LinksForward, UpperLevelsEmpty, Level0Complete, InsertInv,
       Belongs, Links, Starts, Placed, Linked

-----------------------------------------------------------------------------
(* The reader.                                                                 *)

LEMMA SearchKeeps ==
    ASSUME SkipListInv, NEW kind \in {"atOrAfter", "before"}, NEW key \in 1 .. NullNode,
           Search(kind, key)
    PROVE  SkipListInv'
<1>1. PICK height \in heights :
         search' = [op |-> "run", kind |-> kind, key |-> key, x |-> HeadNode,
                    level |-> height - 1, result |-> NullNode, before |-> present]
  BY DEF Search
<1>2. UNCHANGED <<next, heights, present, insert>>
  BY DEF Search
<1>3. ListHolds'
  BY <1>2, ListUndisturbed DEF SkipListInv
<1>4. height - 1 \in Levels /\ present \in SUBSET Keys
  BY HeightsBound DEF SkipListInv, ListHolds, WriterTypes
<1>5. SearchType'
  BY <1>1, <1>4, ListConstants DEF SearchType, Searches, HeadNode, NullNode, Nodes
<1>6. RunInv' /\ DoneInv'
  BY <1>1, <1>2, <1>4 DEF RunInv, DoneInv, Starts, HeadNode
<1> QED BY <1>3, <1>5, <1>6 DEF SkipListInv, SearchHolds

\* What a step of a search finds, on any level and on level 0.
LEMMA LinkFound ==
    ASSUME ListHolds, NEW l \in Levels, NEW n \in Nodes, NEW key \in Nat, n < key
    PROVE  /\ next[l][n] \in Links /\ next[l][n] > n /\ next[l][n] \in Nat
           /\ next[l][n] < key /\ key <= NullNode =>
                 next[l][n] \in Placed /\ next[l][n] \in Starts /\ next[l][n] \in Nodes
           /\ n \in Starts => \A m \in Placed : m <= n \/ next[0][n] <= m
<1>1. /\ next[l][n] \in Links /\ next[l][n] > n /\ next[l][n] \in Nat
  BY DEF ListHolds, LinksForward, WriterTypes
<1>2. next[l][n] < key /\ key <= NullNode =>
                 next[l][n] \in Placed /\ next[l][n] \in Starts /\ next[l][n] \in Nodes
  BY <1>1, Sets DEF ListHolds
<1> QED BY <1>1, <1>2 DEF ListHolds, Level0Complete

LEMMA SearchStepKeeps ==
    ASSUME SkipListInv, SearchStep
    PROVE  SkipListInv'
<1>1. UNCHANGED <<next, heights, present, insert>>
  BY DEF SearchStep
<1>2. ListHolds'
  BY <1>1, ListUndisturbed DEF SkipListInv
<1>3. Starts' = Starts /\ Links' = Links
  BY <1>1 DEF Starts, Links, Placed, Linked
<1>4. /\ search # None /\ search.op = "run" /\ search.kind \in {"atOrAfter", "before"}
      /\ search \in Searches
      /\ search.x \in Starts /\ search.x < search.key /\ search.before \subseteq present
  BY DEF SearchStep, SkipListInv, SearchHolds, SearchType, RunInv, None, Searches
<1>5. /\ search.level \in Levels /\ search.x \in Nodes /\ search.key \in Nat
      /\ search.key <= NullNode /\ search.level \in Nat /\ 0 \in Levels /\ search.x \in Nat
      /\ NullNode \in Nat
  BY <1>4, HeightsBound, Sets, ListConstants DEF SkipListInv, ListHolds, Levels, NullNode, Searches
<1> DEFINE found == next[search.level][search.x]
<1>6. /\ found \in Links /\ found > search.x /\ found \in Nat
      /\ found < search.key => found \in Placed /\ found \in Starts /\ found \in Nodes
      /\ \A m \in Placed : m <= search.x \/ next[0][search.x] <= m
  BY <1>4, <1>5, LinkFound DEF SkipListInv
<1>7. NextOf(search) = found
  BY DEF NextOf
<1> HIDE DEF found
<1>8. CASE found < search.key
  <2>1. search' = [search EXCEPT !.x = found]
    BY <1>7, <1>8 DEF SearchStep, GoesOn, Along
  <2>2. /\ search' \in Searches
        /\ search'.op = "run" /\ search'.kind = search.kind /\ search'.x = found
        /\ search'.key = search.key /\ search'.before = search.before
    BY <1>4, <1>6, <1>8, <2>1 DEF Searches
  <2> QED BY <1>1, <1>2, <1>3, <1>4, <1>6, <1>8, <2>2
          DEF SkipListInv, SearchHolds, SearchType, RunInv, DoneInv
<1>9. CASE ~(found < search.key) /\ search.level > 0
  <2>1. search' = [search EXCEPT !.level = @ - 1]
    BY <1>7, <1>9 DEF SearchStep, GoesOn, Down
  <2>2. search.level - 1 \in Levels
    BY <1>5, <1>9, ListConstants DEF Levels
  <2>3. /\ search' \in Searches
        /\ search'.op = "run" /\ search'.kind = search.kind /\ search'.x = search.x
        /\ search'.key = search.key /\ search'.before = search.before
    BY <1>4, <2>1, <2>2 DEF Searches
  <2> QED BY <1>1, <1>2, <1>3, <1>4, <2>3
          DEF SkipListInv, SearchHolds, SearchType, RunInv, DoneInv
<1>10. CASE ~(found < search.key) /\ ~(search.level > 0)
  <2> DEFINE result == IF search.kind = "atOrAfter" THEN found ELSE search.x
  <2>1. search' = [search EXCEPT !.op = "done", !.result = result]
    BY <1>7, <1>10 DEF SearchStep, GoesOn
  <2>2. search.level = 0
    BY <1>5, <1>10
  <2>3. found = next[0][search.x]
    BY <2>2 DEF found
  <2>4. result \in 0 .. NullNode /\ result \in {HeadNode} \cup Links
    BY <1>4, <1>5, <1>6, Sets DEF SkipListInv, ListHolds, Starts, Links, NullNode
  <2> HIDE DEF result
  <2>5. /\ search' \in Searches
        /\ search'.op = "done" /\ search'.kind = search.kind /\ search'.result = result
        /\ search'.key = search.key /\ search'.before = search.before
    BY <1>4, <2>1, <2>4 DEF Searches
  <2>6. \A m \in search.before : m \in Nat /\ (m <= search.x \/ found <= m)
    BY <1>4, <1>6, <2>3, Sets DEF SkipListInv, ListHolds, Keys
  <2>7. /\ search.kind = "atOrAfter" =>
              Passed' = search.key .. found - 1 /\ result = found
        /\ search.kind = "before" =>
              Passed' = search.x + 1 .. search.key - 1 /\ result = search.x
    BY <2>5 DEF Passed, result
  <2>8. Passed' \cap search.before = {}
    <3>1. CASE search.kind = "atOrAfter"
      BY <1>4, <1>5, <1>6, <2>6, <2>7, <3>1
    <3>2. CASE search.kind = "before"
      BY <1>4, <1>5, <1>6, <1>10, <2>6, <2>7, <3>2
    <3> QED BY <1>4, <3>1, <3>2
  <2>9. DoneInv'
    BY <1>3, <1>4, <1>5, <1>6, <1>10, <2>4, <2>5, <2>7, <2>8 DEF DoneInv
  <2> QED BY <1>2, <2>5, <2>9 DEF SkipListInv, SearchHolds, SearchType, RunInv
<1> QED BY <1>8, <1>9, <1>10

LEMMA NextNodeKeeps ==
    ASSUME SkipListInv, NextNode
    PROVE  SkipListInv'
<1>1. UNCHANGED <<next, heights, present, insert>>
  BY DEF NextNode
<1>2. ListHolds'
  BY <1>1, ListUndisturbed DEF SkipListInv
<1>3. Starts' = Starts /\ Links' = Links
  BY <1>1 DEF Starts, Links, Placed, Linked
<1> DEFINE key == search.result
           found == next[0][key]
<1>4. /\ search # None /\ search.op = "done" /\ key \in Keys /\ key \in Nat
      /\ search \in Searches
      /\ key \in {HeadNode} \cup Links
  BY DEF NextNode, SkipListInv, SearchHolds, SearchType, DoneInv, None, Keys
<1>5. key \in Starts /\ key \in Nodes /\ 0 \in Levels /\ NullNode \in Nat
  <2>1. WriterTypes
    BY DEF SkipListInv, ListHolds
  <2>2. key < NullNode /\ key # HeadNode
    BY <1>4, ListConstants DEF Keys, NullNode, HeadNode
  <2>3. key \in Placed
    BY <1>4, <2>1, <2>2, Sets
  <2> QED BY <2>1, <2>3, HeightsBound, Sets
<1>6. /\ found \in Links /\ found > key /\ found \in Nat
      /\ \A m \in Placed : m <= key \/ found <= m
  <2>1. key < key + 1 /\ key + 1 \in Nat
    BY <1>4
  <2> QED BY <1>4, <1>5, <2>1, LinkFound DEF SkipListInv
<1>7. found <= NullNode /\ present \subseteq Placed /\ present \in SUBSET Keys
  BY <1>6, Sets DEF SkipListInv, ListHolds, WriterTypes
<1>8. search' = [search EXCEPT !.kind = "after", !.key = key, !.result = found,
                               !.before = present]
  BY DEF NextNode
<1> HIDE DEF key, found
<1>9. /\ search' \in Searches
      /\ search'.op = "done" /\ search'.kind = "after" /\ search'.result = found
      /\ search'.key = key /\ search'.before = present
  <2>1. found \in 0 .. NullNode /\ key \in 1 .. NullNode
    BY <1>4, <1>5, <1>6, <1>7 DEF Keys, NullNode
  <2> QED BY <1>4, <1>7, <1>8, <2>1 DEF Searches
<1>10. Passed' \cap present = {}
  <2>1. Passed' = key + 1 .. found - 1
    BY <1>9 DEF Passed
  <2> QED BY <1>4, <1>6, <1>7, <2>1 DEF Keys
<1>11. DoneInv'
  BY <1>3, <1>4, <1>6, <1>9, <1>10 DEF DoneInv
<1> QED BY <1>2, <1>9, <1>11 DEF SkipListInv, SearchHolds, SearchType, RunInv

-----------------------------------------------------------------------------
(* The writer.                                                                 *)

LEMMA InsertKeeps ==
    ASSUME SkipListInv, NEW key \in Keys, Insert(key)
    PROVE  SkipListInv'
<1>1. /\ insert = None /\ key \notin present /\ UNCHANGED <<next, heights, present, search>>
      /\ insert' = [op |-> "find", key |-> key, x |-> HeadNode, level |-> Max(heights) - 1,
                    height |-> 0, prev |-> [l \in Levels |-> HeadNode]]
  BY DEF Insert
<1>2. /\ WriterTypes /\ Max(heights) - 1 \in Levels /\ Max(heights) \in Nat
      /\ HeadNode \in Nodes /\ 0 \in 0 .. kMaxHeight
  BY HeightsBound, ListConstants DEF SkipListInv, ListHolds, HeadNode, Nodes
<1>3. Linked = {} /\ Linked' = {}
  BY <1>1 DEF Linked, None
<1>4. Placed' = Placed /\ Starts' = Starts /\ Links' = Links
  BY <1>1, <1>3 DEF Placed, Starts, Links
<1>5. WriterTypes'
  BY <1>1, <1>2 DEF WriterTypes, Inserts
<1>6. LinksForward' /\ UpperLevelsEmpty' /\ Level0Complete'
  BY <1>1, <1>4 DEF SkipListInv, ListHolds, LinksForward, UpperLevelsEmpty, Level0Complete
<1>7. /\ insert'.op = "find" /\ insert'.key = key /\ insert'.x = HeadNode
      /\ insert'.level = Max(heights) - 1 /\ \A l \in Levels : insert'.prev[l] = HeadNode
  BY <1>1
<1>8. HeadNode < key /\ key < NullNode /\ HeadNode \in Starts
  BY ListConstants DEF HeadNode, NullNode, Keys, Starts
<1>9. ASSUME NEW l \in Levels, l > Max(heights) - 1 PROVE Belongs(l)'
  <2>1. next[l][HeadNode] = NullNode
    BY <1>2, <1>9 DEF SkipListInv, ListHolds, UpperLevelsEmpty, Levels
  <2> QED BY <1>1, <1>4, <1>7, <1>8, <2>1 DEF Belongs
<1>10. InsertInv'
  BY <1>1, <1>4, <1>7, <1>8, <1>9 DEF InsertInv
<1>11. SearchHolds'
  BY <1>1, <1>4, SearchUndisturbed DEF SkipListInv
<1> QED BY <1>5, <1>6, <1>10, <1>11 DEF SkipListInv, ListHolds

LEMMA InsertSearchesKeeps ==
    ASSUME SkipListInv, InsertSearches
    PROVE  SkipListInv'
<1>1. UNCHANGED <<next, heights, present, search>> /\ insert.op = "find" /\ insert # None
  BY DEF InsertSearches, None
<1>2. WriterTypes /\ insert \in Inserts /\ ListHolds
  BY <1>1 DEF SkipListInv, ListHolds, WriterTypes, Inserts
<1>3. /\ insert.key \notin present /\ insert.x \in Starts /\ insert.x < insert.key
      /\ \A l \in Levels : l > insert.level => Belongs(l)
  BY <1>1 DEF SkipListInv, ListHolds, InsertInv
<1>4. /\ insert.key \in Keys /\ insert.key \in Nat /\ insert.key <= NullNode
      /\ insert.x \in Nodes /\ insert.level \in Levels /\ insert.level \in Nat
      /\ insert.prev \in [Levels -> Nodes] /\ \A l \in Levels : l \in Nat
  BY <1>2, ListConstants DEF Inserts, Keys, NullNode, Levels
<1>5. Linked = {} /\ Placed = present
  BY <1>1 DEF Linked, Placed
<1> DEFINE found == next[insert.level][insert.x]
<1>6. /\ found \in Links /\ found > insert.x /\ found \in Nat
      /\ found < insert.key => found \in Placed /\ found \in Starts /\ found \in Nodes
  BY <1>2, <1>3, <1>4, LinkFound
<1>7. found # insert.key
  BY <1>3, <1>4, <1>5, <1>6, ListConstants DEF Links, Keys, NullNode
<1>8. NextOf(insert) = found
  BY DEF NextOf
<1> HIDE DEF found
<1>9. SUFFICES ASSUME insert' \in Inserts, insert' # None, insert'.op \in {"find", "height"},
                      insert'.key = insert.key,
                      insert'.op = "find" =>
                          /\ insert'.x \in Starts /\ insert'.x < insert.key
                          /\ \A l \in Levels : l > insert'.level => Belongs(l)',
                      insert'.op = "height" => \A l \in Levels : Belongs(l)'
               PROVE  SkipListInv'
  <2>1. CASE found < insert.key
    <3>1. insert' = [insert EXCEPT !.x = found]
      BY <1>8, <2>1 DEF InsertSearches, GoesOn, Along
    <3>2. /\ insert' \in Inserts /\ insert'.op = "find" /\ insert'.key = insert.key
          /\ insert'.x = found /\ insert'.level = insert.level /\ insert'.prev = insert.prev
      BY <1>1, <1>2, <1>6, <2>1, <3>1 DEF Inserts
    <3>3. Linked' = {} /\ Starts' = Starts
      BY <1>1, <1>5, <3>2 DEF Linked, Starts, Placed
    <3>4. ASSUME NEW l \in Levels, l > insert'.level PROVE Belongs(l)'
      BY <1>1, <1>3, <3>2, <3>3, <3>4 DEF Belongs
    <3> QED BY <1>6, <2>1, <3>2, <3>4, <1>9 DEF None
  <2>2. CASE ~(found < insert.key)
    <3> DEFINE here == [insert EXCEPT !.prev[insert.level] = insert.x]
    <3>1. /\ here \in Inserts /\ here.op = insert.op /\ here.key = insert.key
          /\ here.level = insert.level /\ here.x = insert.x
          /\ here.prev = [insert.prev EXCEPT ![insert.level] = insert.x]
      BY <1>2, <1>4 DEF Inserts
    <3>2. insert' = IF insert.level > 0 THEN [here EXCEPT !.level = @ - 1]
                    ELSE [here EXCEPT !.op = "height"]
      BY <1>8, <2>2 DEF InsertSearches, GoesOn, Down
    <3> HIDE DEF here
    <3>3. insert.level > 0 => insert.level - 1 \in Levels
      BY <1>4, ListConstants DEF Levels
    <3>4. /\ insert' \in Inserts /\ insert'.key = insert.key /\ insert'.x = insert.x
          /\ insert'.prev = here.prev
          /\ IF insert.level > 0
             THEN insert'.op = "find" /\ insert'.level = insert.level - 1
             ELSE insert'.op = "height"
      BY <1>1, <3>1, <3>2, <3>3 DEF Inserts
    <3>5. Linked' = {} /\ Starts' = Starts
      BY <1>1, <1>5, <3>4 DEF Linked, Starts, Placed
    <3>6. ASSUME NEW l \in Levels, l >= insert.level PROVE Belongs(l)'
      <4>1. CASE l = insert.level
        <5>1. insert'.prev[l] = insert.x
          BY <1>4, <3>1, <3>4, <4>1
        <5>2. insert.key < next[l][insert.x]
          BY <1>4, <1>6, <1>7, <2>2, <4>1 DEF found
        <5> QED BY <1>1, <1>3, <3>4, <3>5, <5>1, <5>2 DEF Belongs
      <4>2. CASE l # insert.level
        <5>1. insert'.prev[l] = insert.prev[l]
          BY <1>4, <3>1, <3>4, <4>2
        <5>2. l > insert.level
          BY <1>4, <3>6, <4>2
        <5>3. Belongs(l)
          BY <1>3, <5>2
        <5> QED BY <1>1, <3>4, <3>5, <5>1, <5>3 DEF Belongs
      <4> QED BY <4>1, <4>2
    <3>7. \A l \in Levels : (l > insert.level - 1 \/ insert.level = 0) => l >= insert.level
      BY <1>4
    <3> QED BY <1>3, <1>4, <3>4, <3>6, <3>7, <1>9 DEF None
  <2> QED BY <2>1, <2>2
<1>10. Linked' = {} /\ Placed' = Placed /\ Starts' = Starts /\ Links' = Links
  BY <1>1, <1>5, <1>9 DEF Linked, Placed, Starts, Links
<1>11. WriterTypes'
  BY <1>1, <1>2, <1>9 DEF WriterTypes, Inserts
<1>12. LinksForward' /\ UpperLevelsEmpty' /\ Level0Complete'
  BY <1>1, <1>2, <1>10 DEF ListHolds, LinksForward, UpperLevelsEmpty, Level0Complete
<1>13. InsertInv'
  BY <1>1, <1>3, <1>9, <1>10 DEF InsertInv
<1>14. SearchHolds'
  BY <1>1, <1>10, SearchUndisturbed DEF SkipListInv
<1> QED BY <1>11, <1>12, <1>13, <1>14 DEF SkipListInv, ListHolds

LEMMA NewHeightKeeps ==
    ASSUME SkipListInv, NEW height \in 1 .. kMaxHeight, NewHeight(height)
    PROVE  SkipListInv'
<1>1. /\ insert.op = "height" /\ insert # None /\ UNCHANGED <<next, present, search>>
      /\ insert' = [insert EXCEPT !.op = "link", !.level = 0, !.height = height]
      /\ heights' = (IF height > Max(heights) THEN heights \cup {height} ELSE heights)
  BY DEF NewHeight, None
<1>2. /\ WriterTypes /\ insert \in Inserts /\ 0 \in Levels
      /\ Max(heights) \in heights /\ Max(heights) \in Nat
      /\ \A h \in heights : h <= Max(heights)
  BY <1>1, HeightsBound DEF SkipListInv, ListHolds, WriterTypes, Inserts
<1>3. /\ insert' \in Inserts /\ insert'.op = "link" /\ insert'.level = 0
      /\ insert'.height = height /\ insert'.key = insert.key /\ insert'.prev = insert.prev
  <2>1. height \in 0 .. kMaxHeight
    BY ListConstants
  <2> QED BY <1>1, <1>2, <2>1 DEF Inserts
<1>4. Linked = {} /\ Linked' = {}
  BY <1>1, <1>3 DEF Linked
<1>5. Placed' = Placed /\ Starts' = Starts /\ Links' = Links
  BY <1>1, <1>4 DEF Placed, Starts, Links
<1>6. /\ heights' \in SUBSET (1 .. kMaxHeight) /\ 1 \in heights'
      /\ height \in heights' \/ height <= Max(heights)
      /\ heights \subseteq heights'
  BY <1>1, <1>2, ListConstants DEF WriterTypes
<1>7. WriterTypes'
  BY <1>1, <1>2, <1>3, <1>6 DEF WriterTypes, Inserts
<1>8. Max(heights') \in heights' /\ \A h \in heights' : h <= Max(heights')
  BY <1>6, MaxIsThere
<1>9. Max(heights') \in Nat /\ Max(heights) <= Max(heights') /\ height <= Max(heights')
  <2>1. Max(heights') \in 1 .. kMaxHeight /\ Max(heights) <= Max(heights')
    BY <1>2, <1>6, <1>8
  <2> QED BY <1>2, <1>6, <1>8, <2>1
<1>10. UpperLevelsEmpty'
  BY <1>1, <1>2, <1>9 DEF SkipListInv, ListHolds, UpperLevelsEmpty, Levels
<1>11. LinksForward' /\ Level0Complete'
  BY <1>1, <1>5 DEF SkipListInv, ListHolds, LinksForward, Level0Complete
<1>12. ASSUME NEW l \in Levels PROVE Belongs(l)'
  BY <1>1, <1>3, <1>5 DEF SkipListInv, ListHolds, InsertInv, Belongs
<1>13. InsertInv'
  BY <1>1, <1>3, <1>9, <1>12 DEF SkipListInv, ListHolds, InsertInv
<1>14. SearchHolds'
  BY <1>1, <1>5, SearchUndisturbed DEF SkipListInv
<1> QED BY <1>7, <1>10, <1>11, <1>13, <1>14 DEF SkipListInv, ListHolds

LEMMA SetNextOfNodeKeeps ==
    ASSUME SkipListInv, SetNextOfNode
    PROVE  SkipListInv'
<1> DEFINE here == insert.level
           key == insert.key
           follows == next[insert.level][insert.prev[insert.level]]
<1>1. /\ insert.op = "link" /\ insert # None /\ UNCHANGED <<heights, present, search>>
      /\ next' = [next EXCEPT ![here][key] = follows]
      /\ insert' = [insert EXCEPT !.op = "publish"]
  BY DEF SetNextOfNode, None
<1>2. /\ WriterTypes /\ insert \in Inserts
      /\ next \in [Levels -> [Nodes -> Nat]] /\ ListHolds
  BY <1>1 DEF SkipListInv, ListHolds, WriterTypes, Inserts
<1>3. /\ key \notin present /\ here < insert.height /\ insert.height <= Max(heights)
      /\ \A l \in Levels : l >= here => Belongs(l)
  BY <1>1 DEF SkipListInv, ListHolds, InsertInv
<1>4. /\ here \in Levels /\ here \in Nat /\ key \in Keys /\ key \in Nodes /\ key \in Nat
      /\ insert.prev \in [Levels -> Nodes] /\ insert.prev[here] \in Nodes
      /\ \A l \in Levels : l \in Nat
  <2>1. here \in Levels /\ key \in Keys /\ insert.prev \in [Levels -> Nodes]
    BY <1>2 DEF Inserts
  <2>2. Keys \subseteq Nodes
    BY <1>2, Sets
  <2>3. insert.prev[here] \in Nodes
    BY <2>1
  <2>4. \A l \in Levels : l \in Nat
    BY ListConstants DEF Levels
  <2>5. key \in Nat /\ key \in Nodes
    BY <2>1, <2>2 DEF Keys
  <2> QED BY <2>1, <2>3, <2>4, <2>5
<1>5. /\ follows \in Links /\ follows \in Nat /\ key < follows /\ insert.prev[here] < key
  <2>1. Belongs(here)
    BY <1>3, <1>4
  <2> QED BY <1>2, <1>4, <2>1 DEF Belongs, ListHolds, LinksForward
<1>6. /\ insert' \in Inserts /\ insert'.op = "publish" /\ insert'.level = here
      /\ insert'.height = insert.height /\ insert'.key = key /\ insert'.prev = insert.prev
      /\ insert' # None
  BY <1>1, <1>2 DEF Inserts, None
<1>7. Placed' = Placed /\ Starts' = Starts /\ Links' = Links
  BY <1>1, <1>6 DEF Placed, Starts, Links, Linked
<1> HIDE DEF here, key, follows
<1>8. /\ next' \in [Levels -> [Nodes -> Nat]] /\ next'[here][key] = follows
      /\ \A l \in Levels : \A n \in Nodes : l # here \/ n # key => next'[l][n] = next[l][n]
  BY <1>1, <1>2, <1>4, <1>5
<1>9. WriterTypes'
  BY <1>1, <1>2, <1>6, <1>8 DEF WriterTypes, Inserts
<1>10. LinksForward'
  BY <1>2, <1>4, <1>5, <1>7, <1>8 DEF ListHolds, LinksForward
<1>11. UpperLevelsEmpty'
  <2>1. Max(heights) \in Nat /\ insert.height \in Nat
    BY <1>2, HeightsBound DEF Inserts
  <2>2. here < Max(heights)
    BY <1>3, <1>4, <2>1
  <2> QED BY <1>1, <1>2, <1>4, <1>8, <2>1, <2>2 DEF ListHolds, UpperLevelsEmpty
<1>12. Level0Complete'
  <2>1. CASE here = 0
    <3>1. key \notin Starts
      BY <1>3, <1>4, <1>1, <2>1 DEF Starts, Placed, Linked, Keys, HeadNode, here
    <3>2. \A n \in Starts : next'[0][n] = next[0][n]
      BY <1>2, <1>8, <3>1, Sets, HeightsBound
    <3> QED BY <1>2, <1>7, <3>2 DEF ListHolds, Level0Complete
  <2>2. CASE here # 0
    <3>1. \A n \in Starts : next'[0][n] = next[0][n]
      BY <1>2, <1>8, <2>2, Sets, HeightsBound
    <3> QED BY <1>2, <1>7, <3>1 DEF ListHolds, Level0Complete
  <2> QED BY <2>1, <2>2
<1>13. \A l \in Levels : insert.prev[l] \in Nodes
  BY <1>4
<1>14. ASSUME NEW l \in Levels, l >= here PROVE Belongs(l)' /\ next'[l][insert.prev[l]] = next[l][insert.prev[l]]
  <2>1. Belongs(l)
    BY <1>3, <1>14
  <2>2. insert.prev[l] # key
    <3>1. insert.prev[l] < key
      BY <2>1 DEF Belongs, key
    <3> QED BY <1>4, <3>1
  <2>3. next'[l][insert.prev[l]] = next[l][insert.prev[l]]
    BY <1>8, <1>13, <2>2
  <2> QED BY <1>6, <1>7, <2>1, <2>3 DEF Belongs, key
<1>15. InsertInv'
  <2>1. next'[here][key] = next'[here][insert.prev[here]]
    BY <1>4, <1>8, <1>14 DEF follows, here
  <2> QED BY <1>1, <1>3, <1>6, <1>14, <2>1 DEF InsertInv, here, key
<1>16. SearchHolds'
  BY <1>1, <1>7, SearchUndisturbed DEF SkipListInv
<1> QED BY <1>9, <1>10, <1>11, <1>12, <1>15, <1>16 DEF SkipListInv, ListHolds

LEMMA SetNextOfPrevKeeps ==
    ASSUME SkipListInv, SetNextOfPrev
    PROVE  SkipListInv'
<1> DEFINE here == insert.level
           key == insert.key
           prev == insert.prev[insert.level]
           more == insert.level + 1 < insert.height
<1>1. /\ insert.op = "publish" /\ insert # None /\ UNCHANGED <<heights, search>>
      /\ next' = [next EXCEPT ![here][prev] = key]
      /\ IF more
         THEN insert' = [insert EXCEPT !.op = "link", !.level = @ + 1] /\ UNCHANGED present
         ELSE insert' = None /\ present' = present \cup {key}
  BY DEF SetNextOfPrev, None
<1>2. /\ WriterTypes /\ insert \in Inserts
      /\ next \in [Levels -> [Nodes -> Nat]] /\ ListHolds
  BY <1>1 DEF SkipListInv, ListHolds, WriterTypes
<1>3. /\ key \notin present /\ here < insert.height /\ insert.height <= Max(heights)
      /\ \A l \in Levels : l >= here => Belongs(l)
      /\ next[here][key] = next[here][prev]
  BY <1>1 DEF SkipListInv, ListHolds, InsertInv
<1>4. /\ here \in Levels /\ key \in Keys /\ key \in Nodes
      /\ insert.prev \in [Levels -> Nodes] /\ insert.height \in 0 .. kMaxHeight
  <2>1. here \in Levels /\ key \in Keys /\ insert.prev \in [Levels -> Nodes]
        /\ insert.height \in 0 .. kMaxHeight
    BY <1>2 DEF Inserts
  <2>2. Keys \subseteq Nodes
    BY <1>2, Sets
  <2> QED BY <2>1, <2>2
<1>5. /\ here \in Nat /\ key \in Nat /\ prev \in Nodes /\ prev \in Nat /\ insert.height \in Nat
      /\ \A l \in Levels : l \in Nat
  <2>1. prev \in Nodes
    BY <1>4
  <2> QED BY <1>2, <1>4, <2>1, Sets DEF Levels, Keys
<1>6. prev \in Starts /\ prev < key /\ key < next[here][prev]
  <2>1. Belongs(here)
    BY <1>3, <1>4, <1>5
  <2> QED BY <2>1 DEF Belongs
<1>7. /\ ~more => insert' = None /\ present' = present \cup {key}
      /\ more =>
            /\ insert' \in Inserts /\ insert'.op = "link" /\ insert'.level = here + 1
            /\ insert'.height = insert.height /\ insert'.key = key
            /\ insert'.prev = insert.prev /\ insert' # None /\ present' = present
  <2>1. ASSUME more PROVE insert.level + 1 \in Levels
    BY <1>4, <1>5, <2>1, ListConstants DEF Levels
  <2> QED BY <1>1, <1>2, <2>1 DEF Inserts, None
<1>8. /\ Placed' = Placed \cup {key} /\ Placed \subseteq Placed'
      /\ Starts' = Starts \cup {key} /\ Links' = Links \cup {key}
      /\ present \subseteq present' /\ present' \subseteq present \cup {key}
      /\ here # 0 => key \in Placed
      /\ here = 0 => Placed = present
  <2>1. Placed = IF here = 0 THEN present ELSE present \cup {key}
    BY <1>1 DEF Placed, Linked
  <2>2. Placed' = present \cup {key}
    <3>1. CASE more
      BY <1>5, <1>7, <3>1 DEF Placed, Linked
    <3>2. CASE ~more
      BY <1>7, <3>2 DEF Placed, Linked, None
    <3> QED BY <3>1, <3>2
  <2>3. present \subseteq present' /\ present' \subseteq present \cup {key}
    BY <1>7
  <2> QED BY <2>1, <2>2, <2>3 DEF Starts, Links
<1> HIDE DEF here, key, prev, more
<1>9. /\ next' \in [Levels -> [Nodes -> Nat]] /\ next'[here][prev] = key
      /\ \A l \in Levels : \A n \in Nodes : l # here \/ n # prev => next'[l][n] = next[l][n]
  BY <1>1, <1>2, <1>4, <1>5
<1>10. WriterTypes'
  <2>1. present' \in SUBSET Keys
    BY <1>2, <1>4, <1>8 DEF WriterTypes
  <2> QED BY <1>1, <1>2, <1>7, <1>9, <2>1 DEF WriterTypes
<1>11. LinksForward'
  BY <1>2, <1>4, <1>5, <1>6, <1>8, <1>9 DEF ListHolds, LinksForward
<1>12. UpperLevelsEmpty'
  <2>1. Max(heights) \in Nat
    BY <1>2, HeightsBound
  <2>2. here < Max(heights)
    BY <1>3, <1>5, <2>1
  <2> QED BY <1>1, <1>2, <1>5, <1>9, <2>1, <2>2 DEF ListHolds, UpperLevelsEmpty
<1>13. \A n \in Starts \cup {key} : n \in Nat /\ n \in Nodes
  BY <1>2, <1>4, <1>5, Sets
<1>14. Level0Complete'
  <2> SUFFICES ASSUME NEW n \in Starts \cup {key}, NEW m \in Placed \cup {key}
               PROVE  m <= n \/ next'[0][n] <= m
    BY <1>8 DEF Level0Complete
  <2>1. n \in Nat /\ n \in Nodes /\ m \in Nat /\ 0 \in Levels
    BY <1>2, <1>5, <1>13, Sets, HeightsBound
  <2>2. next[0][n] \in Nat /\ next'[0][n] \in Nat
    BY <1>2, <1>9, <2>1
  <2>3. \A i \in Starts : \A j \in Placed : j <= i \/ next[0][i] <= j
    BY <1>2 DEF ListHolds, Level0Complete
  <2>4. CASE here # 0
    <3>1. next'[0][n] = next[0][n]
      BY <1>9, <2>1, <2>4
    <3>2. n \in Starts /\ m \in Placed
      BY <1>8, <2>4 DEF Starts
    <3> QED BY <2>3, <3>1, <3>2
  <2>5. CASE here = 0
    <3>1. \A j \in Placed : j <= prev \/ next[0][prev] <= j
      BY <1>6, <2>3
    <3>2. CASE n = prev
      BY <1>5, <1>6, <1>9, <2>1, <2>2, <2>5, <3>1, <3>2
    <3>3. CASE n = key
      <4>1. n # prev
        BY <1>5, <1>6, <3>3
      <4>2. next'[0][n] = next[0][prev]
        BY <1>3, <1>9, <2>1, <2>5, <3>3, <4>1
      <4>3. next[0][prev] \in Nat
        BY <2>2, <4>2
      <4> QED BY <1>5, <1>6, <2>1, <2>5, <3>1, <3>3, <4>2, <4>3
    <3>4. CASE n # prev /\ n # key
      <4>1. next'[0][n] = next[0][n] /\ n \in Starts
        BY <1>9, <2>1, <3>4
      <4>2. CASE m \in Placed
        BY <2>3, <4>1, <4>2
      <4>3. CASE m = key
        <5>1. prev = HeadNode \/ prev \in Placed
          BY <1>6 DEF Starts
        <5>2. n = HeadNode \/ n \in Placed
          BY <4>1 DEF Starts
        <5>3. prev <= n \/ next[0][n] <= prev
          <6>1. CASE prev = HeadNode
            BY <2>1, <6>1 DEF HeadNode
          <6>2. CASE prev \in Placed
            BY <2>3, <4>1, <6>2
          <6> QED BY <5>1, <6>1, <6>2
        <5>4. n <= prev \/ next[0][prev] <= n
          BY <1>5, <2>1, <3>1, <5>2 DEF HeadNode
        <5>5. next[0][prev] \in Nat
          BY <1>2, <1>5, <2>1
        <5> QED BY <1>5, <1>6, <2>1, <2>2, <2>5, <3>4, <4>1, <4>3, <5>3, <5>4, <5>5
      <4> QED BY <4>2, <4>3
    <3> QED BY <3>2, <3>3, <3>4
  <2> QED BY <2>4, <2>5
<1>15. InsertInv'
  <2>1. CASE more
    <3>1. ASSUME NEW l \in Levels, l >= here + 1 PROVE Belongs(l)'
      <4>1. l # here /\ l >= here /\ insert.prev[l] \in Nodes
        BY <1>4, <1>5, <3>1
      <4>2. Belongs(l)
        BY <1>3, <4>1
      <4>3. next'[l][insert.prev[l]] = next[l][insert.prev[l]]
        BY <1>9, <4>1
      <4> QED BY <1>7, <1>8, <2>1, <4>2, <4>3 DEF Belongs, key
    <3> QED BY <1>1, <1>3, <1>7, <2>1, <3>1 DEF InsertInv, more, here
  <2>2. CASE ~more
    BY <1>7, <2>2 DEF InsertInv
  <2> QED BY <2>1, <2>2
<1>16. SearchHolds'
  BY <1>1, <1>8, SearchUndisturbed DEF SkipListInv
<1> QED BY <1>10, <1>11, <1>12, <1>14, <1>15, <1>16 DEF SkipListInv, ListHolds

-----------------------------------------------------------------------------
(* The theorem.                                                                *)

LEMMA SkipListInitial == ListInit => SkipListInv
<1> SUFFICES ASSUME ListInit PROVE SkipListInv
  OBVIOUS
<1>1. /\ next = [l \in Levels |-> [n \in Nodes |-> NullNode]] /\ heights = {1}
      /\ present = {} /\ insert = None /\ search = None
  BY DEF ListInit
<1>2. NullNode \in Nat /\ \A n \in Nodes : n < NullNode
  BY ListConstants DEF NullNode, Nodes, HeadNode
<1>3. Linked = {} /\ Placed = {}
  BY <1>1 DEF Linked, Placed, None
<1>4. \A l \in Levels : \A n \in Nodes : next[l][n] = NullNode
  BY <1>1
<1>5. WriterTypes
  BY <1>1, <1>2, ListConstants DEF WriterTypes
<1>6. LinksForward /\ UpperLevelsEmpty /\ Level0Complete
  BY <1>2, <1>3, <1>4 DEF LinksForward, UpperLevelsEmpty, Level0Complete, Links
<1>7. InsertInv /\ SearchType /\ RunInv /\ DoneInv
  BY <1>1 DEF InsertInv, SearchType, RunInv, DoneInv
<1> QED BY <1>5, <1>6, <1>7 DEF SkipListInv, ListHolds, SearchHolds

LEMMA SkipListStep == SkipListInv /\ [ListNext]_listVars => SkipListInv'
<1> SUFFICES ASSUME SkipListInv, [ListNext]_listVars PROVE SkipListInv'
  OBVIOUS
<1>1. ASSUME NEW key \in Keys, Insert(key) PROVE SkipListInv'
  BY <1>1, InsertKeeps
<1>2. ASSUME NEW key \in Keys, FindGreaterOrEqual(key) \/ FindLessThan(key) PROVE SkipListInv'
  <2>1. key \in 1 .. NullNode
    BY ListConstants DEF Keys, NullNode
  <2> QED BY <1>2, <2>1, SearchKeeps DEF FindGreaterOrEqual, FindLessThan
<1>3. CASE FindLast
  <2>1. NullNode \in 1 .. NullNode
    BY ListConstants DEF NullNode
  <2> QED BY <1>3, <2>1, SearchKeeps DEF FindLast
<1>4. CASE UNCHANGED listVars
  <2>1. UNCHANGED <<next, heights, present, insert>> /\ UNCHANGED search
    BY <1>4 DEF listVars
  <2>2. Placed' = Placed
    BY <2>1 DEF Placed, Linked
  <2> QED BY <2>1, <2>2, ListUndisturbed, SearchUndisturbed DEF SkipListInv
<1> QED BY <1>1, <1>2, <1>3, <1>4, InsertSearchesKeeps, NewHeightKeeps, SetNextOfNodeKeeps,
           SetNextOfPrevKeeps, SearchStepKeeps, NextNodeKeeps DEF ListNext, Keys

LEMMA FoundIsTrue == SkipListInv => ReadersMissNothing
<1> SUFFICES ASSUME SkipListInv, search.op = "done" PROVE ReadersMissNothing
  BY DEF ReadersMissNothing
<1>1. search # None
  BY DEF None
<1>2. Linked \subseteq IF insert = None THEN {} ELSE {insert.key}
  BY DEF Linked, None
<1> QED BY <1>1, <1>2
        DEF SkipListInv, SearchHolds, DoneInv, ReadersMissNothing, Links, Placed

\* Beside a writer that inserts, a reader that takes no lock finds every key that was in the
\* memtable when its search began, and nothing that was neither inserted nor being inserted;
\* for every number of keys and every kMaxHeight (skiplist.h: Insert publishes a node with
\* release only after it has its own link; FindGreaterOrEqual, FindLessThan, FindLast and
\* Next load with acquire).
THEOREM ReadersFindAll == ListSpec => []ReadersMissNothing
<1>1. ListSpec => []SkipListInv
  BY SkipListInitial, SkipListStep, PTL DEF ListSpec
<1> QED BY <1>1, FoundIsTrue, PTL


-----------------------------------------------------------------------------
(* The cache: any threads, tables, handles, charges and capacities.            *)

Entries == [Handles -> [key : FileNumbers \cup {0}, refs : Nat, inCache : BOOLEAN]]
Tasks == [op : {"idle", "evict", "prune"}] \cup [op : {"open"}, key : FileNumbers]

CacheTypes ==
    /\ capacity \in Nat
    /\ entry \in Entries
    /\ lru \in Seq(Handles)
    /\ table \in [FileNumbers -> Handles \cup {0}]
    /\ task \in [CacheThreads -> Tasks]
    /\ holds \in [CacheThreads -> Handles \cup {0}]

\* A thread that opens a table has no handle yet, and charges are finitely many units.
OpensWithout == \A t \in CacheThreads : task[t].op = "open" => holds[t] = 0

CacheInv ==
    /\ CacheTypes /\ OpensWithout /\ IsFiniteSet(Units(entry))
    /\ CacheAccountsForAll

-----------------------------------------------------------------------------
(* Lists, references and charges.                                              *)

\* RemoveFirst takes a member that is there once, and nothing else (LRU_Remove).
LEMMA RemovedFromList ==
  ASSUME NEW S, NEW s \in Seq(S), IsInjective(s), NEW x
  PROVE  /\ RemoveFirst(s, x) \in Seq(S)
         /\ IsInjective(RemoveFirst(s, x))
         /\ Range(RemoveFirst(s, x)) = Range(s) \ {x}
<1> DEFINE t == RemoveFirst(s, x)
<1>0. Len(s) \in Nat /\ DOMAIN s = 1 .. Len(s) /\ \A i \in 1 .. Len(s) : s[i] \in S
  BY LenProperties, ElementOfSeq
<1>1. CASE ~ \E i \in 1 .. Len(s) : s[i] = x
  <2>1. t = s
    BY <1>1 DEF RemoveFirst
  <2> QED BY <1>0, <1>1, <2>1 DEF Range
<1>2. CASE \E i \in 1 .. Len(s) : s[i] = x
  <2>1. PICK i \in 1 .. Len(s) : s[i] = x
    BY <1>2
  <2>2. {j \in 1 .. Len(s) : s[j] = x} = {i}
    BY <1>0, <2>1 DEF IsInjective
  <2>3. Min({i}) = i
    <3>1. \A m : (m \in {i} /\ \A y \in {i} : m =< y) <=> m = i
      BY <1>0, <2>1
    <3> QED BY <3>1 DEF Min
  <2>4. SelectInSeq(s, LAMBDA v : v = x) = i
    BY <2>2, <2>3 DEF SelectInSeq
  <2>5. t = SubSeq(s, 1, i - 1) \o SubSeq(s, i + 1, Len(s))
    BY <1>2, <2>4 DEF RemoveFirst, RemoveAt
  <2> DEFINE a == SubSeq(s, 1, i - 1)
             b == SubSeq(s, i + 1, Len(s))
  <2>6. /\ a \in Seq(S) /\ Len(a) = i - 1
        /\ \A j \in 1 .. i - 1 : a[j] = s[j]
    <3>1. 1 \in Int /\ i - 1 \in Int /\ \A j \in 1 .. (i - 1) : s[j] \in S
      BY <1>0
    <3>2. /\ a \in Seq(S) /\ Len(a) = (IF 1 <= i - 1 THEN (i - 1) - 1 + 1 ELSE 0)
          /\ \A j \in 1 .. (i - 1) - 1 + 1 : a[j] = s[1 + j - 1]
      BY <3>1, SubSeqProperties
    <3> HIDE DEF a
    <3>3. i \in Nat /\ i >= 1
      BY <1>0
    <3> QED BY <3>2, <3>3
  <2>7. /\ b \in Seq(S) /\ Len(b) = Len(s) - i
        /\ \A j \in 1 .. Len(s) - i : b[j] = s[i + j]
    <3>1. i + 1 \in Int /\ Len(s) \in Int /\ \A j \in (i + 1) .. Len(s) : s[j] \in S
      BY <1>0
    <3>2. /\ b \in Seq(S) /\ Len(b) = (IF i + 1 <= Len(s) THEN Len(s) - (i + 1) + 1 ELSE 0)
          /\ \A j \in 1 .. Len(s) - (i + 1) + 1 : b[j] = s[(i + 1) + j - 1]
      BY <3>1, SubSeqProperties
    <3> HIDE DEF b
    <3>3. i \in Nat /\ Len(s) \in Nat /\ i >= 1 /\ i <= Len(s)
      BY <1>0
    <3>4. Len(s) - (i + 1) + 1 = Len(s) - i
      BY <1>0, <3>3
    <3>5. Len(b) = Len(s) - i
      <4>1. Len(b) = IF i + 1 <= Len(s) THEN Len(s) - (i + 1) + 1 ELSE 0
        BY <3>2
      <4>2. CASE i + 1 <= Len(s)
        BY <3>4, <4>1, <4>2
      <4>3. CASE ~(i + 1 <= Len(s))
        <5>1. Len(s) = i
          BY <3>3, <4>3
        <5>2. Len(s) - i = 0
          BY <3>3, <5>1
        <5> QED BY <4>1, <4>3, <5>2
      <4> QED BY <4>2, <4>3
    <3>6. ASSUME NEW j \in 1 .. Len(s) - i PROVE b[j] = s[i + j]
      <4>1. j \in 1 .. Len(s) - (i + 1) + 1
        BY <3>4
      <4>2. b[j] = s[(i + 1) + j - 1]
        BY <3>2, <4>1
      <4>3. j \in Int
        BY <1>0, <3>3
      <4>4. (i + 1) + j - 1 = i + j
        BY <3>3, <4>3
      <4> QED BY <4>2, <4>4
    <3> QED BY <3>2, <3>5, <3>6
  <2>8. /\ t \in Seq(S) /\ Len(t) = Len(s) - 1
        /\ \A j \in 1 .. Len(s) - 1 : t[j] = IF j <= i - 1 THEN s[j] ELSE s[j + 1]
    <3> HIDE DEF a, b, t
    <3>1. /\ t \in Seq(S) /\ Len(t) = Len(a) + Len(b)
          /\ \A j \in 1 .. Len(a) + Len(b) : t[j] = IF j <= Len(a) THEN a[j] ELSE b[j - Len(a)]
      BY <2>5, <2>6, <2>7, ConcatProperties DEF a, b
    <3>2. i \in Nat /\ i >= 1 /\ i <= Len(s)
      BY <1>0
    <3>3. Len(t) = Len(s) - 1
      BY <1>0, <2>6, <2>7, <3>1, <3>2
    <3>4. ASSUME NEW j \in 1 .. Len(s) - 1
          PROVE  t[j] = IF j <= i - 1 THEN s[j] ELSE s[j + 1]
      <4>1. t[j] = IF j <= i - 1 THEN a[j] ELSE b[j - (i - 1)]
        BY <1>0, <2>6, <2>7, <3>1, <3>2
      <4>2. CASE j <= i - 1
        BY <2>6, <4>1, <4>2
      <4>3. CASE j > i - 1
        <5>1. j - (i - 1) \in 1 .. Len(s) - i /\ i + (j - (i - 1)) = j + 1
          BY <1>0, <3>2, <4>3
        <5>2. b[j - (i - 1)] = s[i + (j - (i - 1))]
          BY <2>7, <5>1
        <5> QED BY <3>2, <4>1, <4>3, <5>1, <5>2
      <4> QED BY <3>2, <4>2, <4>3
    <3> QED BY <3>1, <3>3, <3>4
  <2> HIDE DEF t
  <2>9. DOMAIN t = 1 .. Len(s) - 1
    BY <2>8, LenProperties
  <2> DEFINE At(j) == IF j <= i - 1 THEN j ELSE j + 1
  <2>13. \A j \in 1 .. Len(s) - 1 : t[j] = s[At(j)] /\ At(j) \in 1 .. Len(s) /\ At(j) # i
    BY <1>0, <2>8
  <2>14. \A j, l \in 1 .. Len(s) - 1 : At(j) = At(l) => j = l
    BY <1>0
  <2> HIDE DEF At
  <2>10. IsInjective(t)
    BY <1>0, <2>9, <2>13, <2>14 DEF IsInjective
  <2>15. \A j \in 1 .. Len(s) - 1 : t[j] # x
    BY <1>0, <2>1, <2>13 DEF IsInjective
  <2>11. Range(t) \subseteq Range(s) \ {x}
    BY <1>0, <2>9, <2>13, <2>15 DEF Range
  <2>12. ASSUME NEW y \in Range(s) \ {x} PROVE y \in Range(t)
    <3>1. PICK j \in 1 .. Len(s) : s[j] = y /\ j # i
      BY <1>0, <2>1 DEF Range
    <3>2. CASE j < i
      BY <1>0, <2>8, <2>9, <3>1, <3>2 DEF Range
    <3>3. CASE j > i
      <4>1. j - 1 \in 1 .. Len(s) - 1 /\ ~(j - 1 <= i - 1) /\ (j - 1) + 1 = j
        BY <1>0, <3>3
      <4> QED BY <2>8, <2>9, <3>1, <4>1 DEF Range
    <3> QED BY <1>0, <3>1, <3>2, <3>3
  <2> QED BY <2>8, <2>10, <2>11, <2>12 DEF t
<1> QED BY <1>1, <1>2

\* What is added at the end is there once if it was not there before (LRU_Append).
LEMMA AddedToList ==
  ASSUME NEW S, NEW s \in Seq(S), IsInjective(s), NEW x \in S, x \notin Range(s)
  PROVE  /\ Append(s, x) \in Seq(S)
         /\ IsInjective(Append(s, x))
         /\ Range(Append(s, x)) = Range(s) \cup {x}
<1> DEFINE t == Append(s, x)
<1>0. Len(s) \in Nat /\ DOMAIN s = 1 .. Len(s)
  BY LenProperties
<1>1. /\ t \in Seq(S) /\ Len(t) = Len(s) + 1
      /\ \A i \in 1 .. Len(s) : t[i] = s[i]
      /\ t[Len(s) + 1] = x
  BY AppendProperties
<1> HIDE DEF t
<1>2. DOMAIN t = 1 .. Len(s) + 1
  BY <1>1, LenProperties
<1>3. \A i \in 1 .. Len(s) : s[i] # x
  BY <1>0 DEF Range
<1>4. \A i \in 1 .. Len(s) + 1 : i \in 1 .. Len(s) \/ i = Len(s) + 1
  BY <1>0
<1>5. IsInjective(t)
  BY <1>0, <1>1, <1>2, <1>3, <1>4 DEF IsInjective
<1>6. Range(t) \subseteq Range(s) \cup {x}
  BY <1>0, <1>1, <1>2, <1>4 DEF Range
<1>7. 1 .. Len(s) \subseteq 1 .. Len(s) + 1 /\ Len(s) + 1 \in 1 .. Len(s) + 1
  BY <1>0
<1>8. Range(s) \cup {x} \subseteq Range(t)
  BY <1>0, <1>1, <1>2, <1>7 DEF Range
<1> QED BY <1>1, <1>5, <1>6, <1>8 DEF t

\* A handle a thread takes or gives back has one user more or less.
LEMMA UserAdded ==
  ASSUME holds \in [CacheThreads -> Handles \cup {0}], NEW t \in CacheThreads, NEW h \in Handles,
         holds[t] = 0, holds' = [holds EXCEPT ![t] = h]
  PROVE  \A g \in Handles : Cardinality(UsersOf(g))' =
                               Cardinality(UsersOf(g)) + (IF g = h THEN 1 ELSE 0)
<1>1. ASSUME NEW g \in Handles PROVE IsFiniteSet(UsersOf(g))
  BY CacheConstants, FS_Subset DEF UsersOf
<1>2. UsersOf(h)' = UsersOf(h) \cup {t} /\ t \notin UsersOf(h)
  BY CacheConstants DEF UsersOf
<1>3. Cardinality(UsersOf(h))' = Cardinality(UsersOf(h)) + 1
  BY <1>1, <1>2, FS_AddElement
<1>4. ASSUME NEW g \in Handles \ {h} PROVE Cardinality(UsersOf(g))' = Cardinality(UsersOf(g)) + 0
  <2>1. UsersOf(g)' = UsersOf(g)
    BY CacheConstants DEF UsersOf
  <2> QED BY <1>1, <2>1, FS_CardinalityType
<1> QED BY <1>3, <1>4

LEMMA UserRemoved ==
  ASSUME holds \in [CacheThreads -> Handles \cup {0}], NEW t \in CacheThreads, NEW h \in Handles,
         holds[t] = h, holds' = [holds EXCEPT ![t] = 0]
  PROVE  \A g \in Handles : Cardinality(UsersOf(g))' =
                               Cardinality(UsersOf(g)) - (IF g = h THEN 1 ELSE 0)
<1>1. ASSUME NEW g \in Handles PROVE IsFiniteSet(UsersOf(g))
  BY CacheConstants, FS_Subset DEF UsersOf
<1>2. UsersOf(h)' = UsersOf(h) \ {t} /\ t \in UsersOf(h)
  BY CacheConstants DEF UsersOf
<1>3. Cardinality(UsersOf(h))' = Cardinality(UsersOf(h)) - 1
  BY <1>1, <1>2, FS_RemoveElement
<1>4. ASSUME NEW g \in Handles \ {h} PROVE Cardinality(UsersOf(g))' = Cardinality(UsersOf(g)) - 0
  <2>1. UsersOf(g)' = UsersOf(g)
    BY CacheConstants DEF UsersOf
  <2> QED BY <1>1, <2>1, FS_CardinalityType
<1> QED BY <1>3, <1>4

LEMMA UsersCounted == \A h \in Handles : Cardinality(UsersOf(h)) \in Nat /\ IsFiniteSet(UsersOf(h))
BY CacheConstants, FS_Subset, FS_CardinalityType DEF UsersOf

\* Entries that agree on what is cached and of which key are charged the same.
LEMMA SameCharge ==
  ASSUME NEW es, NEW fs,
         \A h \in Handles : /\ fs[h].inCache = es[h].inCache
                            /\ es[h].inCache => fs[h].key = es[h].key
  PROVE  Units(fs) = Units(es)
BY DEF Units

\* An entry that comes into the cache adds its charge.
LEMMA ChargeAdded ==
  ASSUME NEW es, NEW fs, NEW h \in Handles, IsFiniteSet(Units(es)),
         ~es[h].inCache, fs[h].inCache, fs[h].key \in FileNumbers,
         \A g \in Handles \ {h} : /\ fs[g].inCache = es[g].inCache
                                  /\ es[g].inCache => fs[g].key = es[g].key
  PROVE  /\ IsFiniteSet(Units(fs))
         /\ TotalCharge(fs) = TotalCharge(es) + EntryCharge[fs[h].key]
<1> DEFINE n == EntryCharge[fs[h].key]
           D == {h} \X (1 .. n)
<1>1. n \in Nat
  BY CacheConstants
<1>2. Units(fs) = Units(es) \cup D /\ Units(es) \cap D = {}
  BY DEF Units
<1> HIDE DEF n
<1>3. IsFiniteSet(1 .. n) /\ Cardinality(1 .. n) = n
  <2>1. IsFiniteSet(1 .. n) /\ Cardinality(1 .. n) = IF 1 > n THEN 0 ELSE n - 1 + 1
    BY <1>1, FS_Interval
  <2> QED BY <1>1, <2>1
<1>4. IsFiniteSet({h}) /\ Cardinality({h}) = 1
  BY FS_Singleton
<1>7. IsFiniteSet(D) /\ Cardinality(D) = 1 * n
  <2>1. IsFiniteSet(D) /\ Cardinality(D) = Cardinality({h}) * Cardinality(1 .. n)
    <3> HIDE DEF D
    <3> DEFINE E == 1 .. n
    <3>1. IsFiniteSet(E)
      BY <1>3
    <3> HIDE DEF E
    <3>2. IsFiniteSet({h} \X E) /\ Cardinality({h} \X E) = Cardinality({h}) * Cardinality(E)
      BY <1>4, <3>1, FS_Product
    <3> QED BY <3>2 DEF D, E
  <2> QED BY <1>3, <1>4, <2>1
<1> HIDE DEF D
<1>5. IsFiniteSet(Units(es) \cup D)
      /\ Cardinality(Units(es) \cup D) = Cardinality(Units(es)) + Cardinality(D) - Cardinality({})
  BY <1>2, <1>7, FS_Union
<1>6. Cardinality({}) = 0 /\ Cardinality(Units(es)) \in Nat
  BY FS_EmptySet, FS_CardinalityType
<1> QED BY <1>1, <1>2, <1>5, <1>6, <1>7 DEF TotalCharge, n

\* An entry that leaves it takes its charge away.
LEMMA ChargeRemoved ==
  ASSUME NEW es, NEW fs, NEW h \in Handles, IsFiniteSet(Units(es)),
         es[h].inCache, ~fs[h].inCache, es[h].key \in FileNumbers,
         \A g \in Handles \ {h} : /\ fs[g].inCache = es[g].inCache
                                  /\ es[g].inCache => fs[g].key = es[g].key
  PROVE  /\ IsFiniteSet(Units(fs))
         /\ TotalCharge(fs) = TotalCharge(es) - EntryCharge[es[h].key]
<1>1. Units(fs) \subseteq Units(es)
  BY DEF Units
<1>2. IsFiniteSet(Units(fs))
  BY <1>1, FS_Subset
<1>3. \A g \in Handles \ {h} : /\ es[g].inCache = fs[g].inCache
                               /\ fs[g].inCache => es[g].key = fs[g].key
  OBVIOUS
<1>4. TotalCharge(es) = TotalCharge(fs) + EntryCharge[es[h].key]
  BY <1>2, <1>3, ChargeAdded
<1>5. TotalCharge(fs) \in Nat /\ EntryCharge[es[h].key] \in Nat
  BY <1>2, FS_CardinalityType, CacheConstants DEF TotalCharge
<1> QED BY <1>2, <1>4, <1>5

-----------------------------------------------------------------------------
(* Every action keeps the invariant.                                           *)

\* Handles and charge of the entries, read off the invariant.
LEMMA EntryFacts ==
  ASSUME CacheInv
  PROVE  /\ \A h \in Handles : entry[h].refs \in Nat /\ entry[h].inCache \in BOOLEAN
         /\ \A k \in FileNumbers : table[k] # 0 =>
               /\ table[k] \in Handles /\ entry[table[k]].inCache
               /\ entry[table[k]].key = k /\ entry[table[k]].refs >= 1
               /\ \A j \in FileNumbers : table[j] = table[k] => j = k
         /\ usage \in Int /\ \A k \in FileNumbers : EntryCharge[k] \in Nat
<1>1. \A h \in Handles : entry[h].refs \in Nat /\ entry[h].inCache \in BOOLEAN
  BY DEF CacheInv, CacheTypes, Entries
<1>2. ASSUME NEW k \in FileNumbers, table[k] # 0
      PROVE  /\ table[k] \in Handles /\ entry[table[k]].inCache
             /\ entry[table[k]].key = k /\ entry[table[k]].refs >= 1
             /\ \A j \in FileNumbers : table[j] = table[k] => j = k
  <2>1. table[k] \in Handles
    BY <1>2 DEF CacheInv, CacheTypes
  <2>2. entry[table[k]].inCache /\ entry[table[k]].key = k
    BY <1>2, <2>1 DEF CacheInv, CacheAccountsForAll
  <2>3. entry[table[k]].refs = Cardinality(UsersOf(table[k])) + 1
    BY <2>1, <2>2 DEF CacheInv, CacheAccountsForAll
  <2>4. entry[table[k]].refs >= 1
    BY <2>1, <2>3, UsersCounted
  <2>5. ASSUME NEW j \in FileNumbers, table[j] = table[k] PROVE j = k
    <3>1. entry[table[j]].key = j
      BY <1>2, <2>5 DEF CacheInv, CacheAccountsForAll
    <3> QED BY <2>2, <2>5, <3>1
  <2> QED BY <2>1, <2>2, <2>4, <2>5
<1>3. usage \in Int
  BY FS_CardinalityType DEF CacheInv, CacheAccountsForAll, TotalCharge
<1> QED BY <1>1, <1>2, <1>3, CacheConstants

\* What leaves the cache leaves table, list and charge; it is freed when no thread has it.
LEMMA TakenOut ==
  ASSUME CacheInv, NEW k \in FileNumbers, table[k] # 0,
         entry' = Erased(table[k], entry), lru' = RemoveFirst(lru, table[k]),
         usage' = usage - EntryCharge[k], table' = [table EXCEPT ![k] = 0],
         UNCHANGED <<capacity, task, holds>>
  PROVE  CacheInv'
<1>h. PICK h : h = table[k]
  OBVIOUS
<1>1. h \in Handles /\ entry[h].inCache /\ entry[h].key = k /\ entry[h].refs \in Nat
      /\ entry[h].refs >= 1 /\ h # 0 /\ \A j \in FileNumbers : table[j] = h => j = k
  BY <1>h, EntryFacts
<1>2. entry[h].refs = Cardinality(UsersOf(h)) + 1 /\ Cardinality(UsersOf(h)) \in Nat
  BY <1>1, UsersCounted DEF CacheInv, CacheAccountsForAll
<1>3. /\ DOMAIN entry' = Handles /\ entry' = [g \in Handles |-> entry'[g]]
      /\ \A g \in Handles \ {h} : entry'[g] = entry[g]
      /\ entry'[h] = IF entry[h].refs = 1 THEN Free
                     ELSE [entry[h] EXCEPT !.refs = @ - 1, !.inCache = FALSE]
  <2> DEFINE e == IF entry[h].refs = 1 THEN Free
                  ELSE [entry[h] EXCEPT !.refs = @ - 1, !.inCache = FALSE]
  <2>1. entry' = [entry EXCEPT ![h] = e]
    <3>1. entry' = Erased(h, entry)
      BY <1>h
    <3> QED BY <3>1 DEF Erased
  <2>2. entry = [g \in Handles |-> entry[g]] /\ DOMAIN entry = Handles
    BY DEF CacheInv, CacheTypes, Entries
  <2> HIDE DEF e
  <2>3. /\ DOMAIN entry' = Handles /\ entry' = [g \in Handles |-> entry'[g]]
        /\ \A g \in Handles \ {h} : entry'[g] = entry[g]
        /\ entry'[h] = e
    BY <1>1, <2>1, <2>2
  <2> QED BY <2>3 DEF e
<1>4. /\ entry'[h].refs = Cardinality(UsersOf(h)) /\ entry'[h].inCache = FALSE
      /\ entry'[h] \in [key : FileNumbers \cup {0}, refs : Nat, inCache : BOOLEAN]
  <2>1. entry[h] \in [key : FileNumbers \cup {0}, refs : Nat, inCache : BOOLEAN]
    BY <1>1 DEF CacheInv, CacheTypes, Entries
  <2>2. CASE entry[h].refs = 1
    BY <1>2, <1>3, <2>2 DEF Free
  <2>3. CASE entry[h].refs # 1
    <3>1. entry'[h] = [key |-> entry[h].key, refs |-> entry[h].refs - 1, inCache |-> FALSE]
      BY <1>3, <2>1, <2>3
    <3>2. entry[h].refs - 1 = Cardinality(UsersOf(h))
      BY <1>1, <1>2
    <3> QED BY <1>2, <2>1, <3>1, <3>2
  <2> QED BY <2>2, <2>3
<1>5. entry' \in Entries
  <2>1. \A g \in Handles : entry[g] \in [key : FileNumbers \cup {0}, refs : Nat, inCache : BOOLEAN]
    BY DEF CacheInv, CacheTypes, Entries
  <2> QED BY <1>3, <1>4, <2>1 DEF Entries
<1>6. \A g \in Handles : UsersOf(g)' = UsersOf(g)
  BY DEF UsersOf
<1>7. lru' \in Seq(Handles) /\ IsInjective(lru') /\ Range(lru') = Range(lru) \ {h}
  BY <1>h, RemovedFromList DEF CacheInv, CacheTypes, CacheAccountsForAll
<1>8. table' \in [FileNumbers -> Handles \cup {0}]
  BY DEF CacheInv, CacheTypes
<1>9. CacheTypes' /\ OpensWithout'
  BY <1>5, <1>7, <1>8 DEF CacheInv, CacheTypes, OpensWithout
<1>10. IsFiniteSet(Units(entry')) /\ TotalCharge(entry') = TotalCharge(entry) - EntryCharge[k]
  <2>1. entry[h].inCache /\ ~entry'[h].inCache /\ entry[h].key \in FileNumbers /\ h \in Handles
    BY <1>1, <1>4
  <2>2. \A g \in Handles \ {h} : /\ entry'[g].inCache = entry[g].inCache
                                 /\ entry[g].inCache => entry'[g].key = entry[g].key
    BY <1>3
  <2>3. IsFiniteSet(Units(entry))
    BY DEF CacheInv
  <2>4. IsFiniteSet(Units(entry'))
        /\ TotalCharge(entry') = TotalCharge(entry) - EntryCharge[entry[h].key]
    BY <2>1, <2>2, <2>3, ChargeRemoved
  <2> QED BY <1>1, <2>4
<1>11. IsFiniteSet(Units(entry))' /\ usage' = TotalCharge(entry)'
  BY <1>10 DEF CacheInv, CacheAccountsForAll, Units, TotalCharge
<1>12. ASSUME NEW g \in Handles
       PROVE /\ entry'[g].refs = Cardinality(UsersOf(g)') + (IF entry'[g].inCache THEN 1 ELSE 0)
             /\ entry'[g].inCache <=> \E j \in FileNumbers : table'[j] = g
             /\ g \in Range(lru') <=> entry'[g].inCache /\ entry'[g].refs = 1
  <2>1. CASE g = h
    <3>1. \A j \in FileNumbers : table'[j] # h
      BY <1>1 DEF CacheInv, CacheTypes
    <3> QED BY <1>2, <1>4, <1>6, <1>7, <2>1, <3>1
  <2>2. CASE g # h
    <3>1. \A j \in FileNumbers : table'[j] = g <=> table[j] = g
      BY <1>h, <2>2, CacheConstants DEF CacheInv, CacheTypes
    <3> QED BY <1>3, <1>6, <1>7, <2>2, <3>1 DEF CacheInv, CacheAccountsForAll
  <2> QED BY <2>1, <2>2
<1>13. \A j \in FileNumbers : table'[j] # 0 => entry'[table'[j]].key = j
  <2>1. ASSUME NEW j \in FileNumbers, table'[j] # 0 PROVE entry'[table'[j]].key = j
    <3>1. j # k /\ table'[j] = table[j]
      BY <2>1 DEF CacheInv, CacheTypes
    <3>2. table[j] \in Handles \ {h} /\ entry[table[j]].key = j
      BY <1>1, <2>1, <3>1, EntryFacts
    <3> QED BY <1>3, <3>1, <3>2
  <2> QED BY <2>1
<1> QED BY <1>7, <1>9, <1>11, <1>12, <1>13 DEF CacheInv, CacheAccountsForAll

\* What leaves entries, list, table, users and usage alone leaves the account true.
LEMMA AccountKept ==
  ASSUME CacheInv, UNCHANGED <<usage, entry, lru, table, holds>>, CacheTypes', OpensWithout'
  PROVE  CacheInv'
<1>1. \A h \in Handles : UsersOf(h)' = UsersOf(h)
  BY DEF UsersOf
<1>2. Units(entry)' = Units(entry)
  BY DEF Units
<1>3. TotalCharge(entry)' = TotalCharge(entry)
  BY <1>2 DEF TotalCharge
<1>4. IsFiniteSet(Units(entry))'
  BY <1>2 DEF CacheInv
<1>5. CacheAccountsForAll'
  <2>1. \A h \in Handles :
          /\ entry'[h].refs = Cardinality(UsersOf(h)') + (IF entry'[h].inCache THEN 1 ELSE 0)
          /\ entry'[h].inCache <=> \E k \in FileNumbers : table'[k] = h
          /\ h \in Range(lru') <=> entry'[h].inCache /\ entry'[h].refs = 1
    BY <1>1 DEF CacheInv, CacheAccountsForAll
  <2>2. (\A k \in FileNumbers : table'[k] # 0 => entry'[table'[k]].key = k) /\ IsInjective(lru')
    BY DEF CacheInv, CacheAccountsForAll
  <2>3. usage' = TotalCharge(entry)'
    BY <1>3 DEF CacheInv, CacheAccountsForAll
  <2> QED BY <2>1, <2>2, <2>3 DEF CacheAccountsForAll
<1> QED BY <1>4, <1>5 DEF CacheInv

\* A handle that is found gets a user and leaves the list of what may be evicted.
LEMMA LookupKeeps ==
  ASSUME CacheInv, NEW t \in CacheThreads, NEW k \in FileNumbers, Lookup(t, k)
  PROVE  CacheInv'
<1>0. holds[t] = 0 /\ UNCHANGED <<capacity, usage, table>>
  BY DEF Lookup
<1>1. CASE table[k] = 0
  <2>1. task' = [task EXCEPT ![t] = [op |-> "open", key |-> k]] /\ UNCHANGED <<entry, lru, holds>>
    BY <1>1 DEF Lookup
  <2>2. [op |-> "open", key |-> k] \in Tasks
    BY DEF Tasks
  <2>3. CacheTypes'
    BY <1>0, <2>1, <2>2 DEF CacheInv, CacheTypes
  <2>4. OpensWithout'
    BY <1>0, <2>1 DEF CacheInv, CacheTypes, OpensWithout
  <2> QED BY <1>0, <2>1, <2>3, <2>4, AccountKept
<1>2. CASE table[k] # 0
  <2> DEFINE h == table[k]
  <2>1. /\ entry' = [entry EXCEPT ![h].refs = @ + 1] /\ lru' = RemoveFirst(lru, h)
        /\ holds' = [holds EXCEPT ![t] = h] /\ task' = task
    BY <1>2 DEF Lookup, Ref
  <2>2. h \in Handles /\ entry[h].inCache /\ entry[h].refs \in Nat /\ entry[h].refs >= 1
    BY <1>2, EntryFacts
  <2> HIDE DEF h
  <2>3. /\ \A g \in Handles : entry'[g].inCache = entry[g].inCache /\ entry'[g].key = entry[g].key
        /\ \A g \in Handles : entry'[g].refs = entry[g].refs + (IF g = h THEN 1 ELSE 0)
        /\ entry' \in Entries
    <3>1. entry = [g \in Handles |-> entry[g]] /\ DOMAIN entry = Handles
      BY DEF CacheInv, CacheTypes, Entries
    <3>2. \A g \in Handles : entry[g] \in [key : FileNumbers \cup {0}, refs : Nat, inCache : BOOLEAN]
      BY DEF CacheInv, CacheTypes, Entries
    <3>3. entry'[h] = [entry[h] EXCEPT !.refs = @ + 1] /\ \A g \in Handles \ {h} : entry'[g] = entry[g]
      BY <2>1, <2>2, <3>1
    <3>4. entry'[h] = [key |-> entry[h].key, refs |-> entry[h].refs + 1, inCache |-> entry[h].inCache]
      BY <2>2, <3>2, <3>3
    <3>5. \A g \in Handles : entry'[g] \in [key : FileNumbers \cup {0}, refs : Nat, inCache : BOOLEAN]
      BY <2>2, <3>2, <3>3, <3>4
    <3>6. entry' \in Entries
      BY <2>1, <3>1, <3>5 DEF Entries
    <3>7. \A g \in Handles : entry'[g].refs = entry[g].refs + (IF g = h THEN 1 ELSE 0)
      BY <2>2, <3>2, <3>3, <3>4
    <3> QED BY <3>3, <3>4, <3>6, <3>7
  <2>4. \A g \in Handles : Cardinality(UsersOf(g))' =
                              Cardinality(UsersOf(g)) + (IF g = h THEN 1 ELSE 0)
    BY <1>0, <2>1, <2>2, UserAdded DEF CacheInv, CacheTypes
  <2>5. lru' \in Seq(Handles) /\ IsInjective(lru') /\ Range(lru') = Range(lru) \ {h}
    BY <2>1, RemovedFromList DEF CacheInv, CacheTypes, CacheAccountsForAll
  <2>6. CacheTypes'
    BY <1>0, <2>1, <2>2, <2>3, <2>5 DEF CacheInv, CacheTypes
  <2>7. OpensWithout'
    <3>1. task[t].op # "open"
      BY DEF Lookup, Idle
    <3> QED BY <2>1, <3>1 DEF CacheInv, CacheTypes, OpensWithout
  <2>8. Units(entry') = Units(entry)
    BY <2>3, SameCharge
  <2>9. IsFiniteSet(Units(entry))' /\ usage' = TotalCharge(entry)'
    BY <1>0, <2>8 DEF CacheInv, CacheAccountsForAll, Units, TotalCharge
  <2>10. ASSUME NEW g \in Handles
         PROVE /\ entry'[g].refs = Cardinality(UsersOf(g))' + (IF entry'[g].inCache THEN 1 ELSE 0)
               /\ entry'[g].inCache <=> \E j \in FileNumbers : table'[j] = g
               /\ g \in Range(lru') <=> entry'[g].inCache /\ entry'[g].refs = 1
    <3>1. entry[g].refs = Cardinality(UsersOf(g)) + (IF entry[g].inCache THEN 1 ELSE 0)
      BY DEF CacheInv, CacheAccountsForAll
    <3>2. Cardinality(UsersOf(g)) \in Nat /\ entry[g].refs \in Nat
      BY UsersCounted, EntryFacts
    <3>3. entry'[g].refs = Cardinality(UsersOf(g))' + (IF entry'[g].inCache THEN 1 ELSE 0)
      BY <2>3, <2>4, <3>1, <3>2
    <3>4. g \in Range(lru) <=> entry[g].inCache /\ entry[g].refs = 1
      BY DEF CacheInv, CacheAccountsForAll
    <3>5. g = h => entry'[g].refs # 1
      BY <2>2, <2>3
    <3>6. g # h => entry'[g].refs = entry[g].refs
      BY <2>3, <3>2
    <3>7. g \in Range(lru') <=> entry'[g].inCache /\ entry'[g].refs = 1
      BY <2>3, <2>5, <3>4, <3>5, <3>6
    <3>8. entry'[g].inCache <=> \E j \in FileNumbers : table'[j] = g
      BY <1>0, <2>3 DEF CacheInv, CacheAccountsForAll
    <3> QED BY <3>3, <3>7, <3>8
  <2>11. \A j \in FileNumbers : table'[j] # 0 => entry'[table'[j]].key = j
    BY <1>0, <2>3, EntryFacts
  <2> QED BY <2>5, <2>6, <2>7, <2>9, <2>10, <2>11 DEF CacheInv, CacheAccountsForAll
<1> QED BY <1>1, <1>2
\* The last reference frees the entry; the last but the cache's makes it the newest of the
\* list.
LEMMA ReleaseKeeps ==
  ASSUME CacheInv, NEW t \in CacheThreads, Release(t)
  PROVE  CacheInv'
<1>h. PICK h \in Handles : h = holds[t]
  BY DEF Release, CacheInv, CacheTypes
<1>0. /\ holds' = [holds EXCEPT ![t] = 0] /\ UNCHANGED <<capacity, usage, table, task>>
      /\ entry' = [entry EXCEPT ![h] = IF entry[h].refs = 1 THEN Free
                                       ELSE [entry[h] EXCEPT !.refs = @ - 1]]
      /\ lru' = IF entry[h].refs = 2 /\ entry[h].inCache THEN Append(RemoveFirst(lru, h), h)
                ELSE lru
  BY <1>h DEF Release, Unref
<1>2. Cardinality(UsersOf(h)) \in Nat \ {0}
  <2>1. t \in UsersOf(h)
    BY <1>h DEF UsersOf
  <2> QED BY <2>1, UsersCounted, FS_EmptySet
<1>3. \A g \in Handles : Cardinality(UsersOf(g))' =
                            Cardinality(UsersOf(g)) - (IF g = h THEN 1 ELSE 0)
  BY <1>h, <1>0, UserRemoved DEF CacheInv, CacheTypes
<1>4. entry[h].refs = Cardinality(UsersOf(h)) + (IF entry[h].inCache THEN 1 ELSE 0)
  BY DEF CacheInv, CacheAccountsForAll
<1>5. entry[h].refs \in Nat \ {0} /\ (entry[h].refs = 1 => ~entry[h].inCache)
  BY <1>2, <1>4
<1>6. /\ DOMAIN entry' = Handles /\ entry' = [g \in Handles |-> entry'[g]]
      /\ \A g \in Handles \ {h} : entry'[g] = entry[g]
      /\ entry'[h] = IF entry[h].refs = 1 THEN Free ELSE [entry[h] EXCEPT !.refs = @ - 1]
  <2> DEFINE e == IF entry[h].refs = 1 THEN Free ELSE [entry[h] EXCEPT !.refs = @ - 1]
  <2>1. entry' = [entry EXCEPT ![h] = e]
    BY <1>0
  <2>2. entry = [g \in Handles |-> entry[g]] /\ DOMAIN entry = Handles
    BY DEF CacheInv, CacheTypes, Entries
  <2> HIDE DEF e
  <2>3. /\ DOMAIN entry' = Handles /\ entry' = [g \in Handles |-> entry'[g]]
        /\ \A g \in Handles \ {h} : entry'[g] = entry[g]
        /\ entry'[h] = e
    BY <2>1, <2>2
  <2> QED BY <2>3 DEF e
<1>7. /\ entry'[h].refs = entry[h].refs - 1 /\ entry'[h].inCache = entry[h].inCache
      /\ entry[h].inCache => entry'[h].key = entry[h].key
      /\ entry'[h] \in [key : FileNumbers \cup {0}, refs : Nat, inCache : BOOLEAN]
  <2>1. entry[h] \in [key : FileNumbers \cup {0}, refs : Nat, inCache : BOOLEAN]
    BY DEF CacheInv, CacheTypes, Entries
  <2>2. CASE entry[h].refs = 1
    <3>1. entry'[h] = Free
      BY <1>6, <2>2
    <3>2. entry[h].inCache = FALSE
      BY <1>5, <2>1, <2>2
    <3>3. Free.refs = 0 /\ Free.inCache = FALSE
          /\ Free \in [key : FileNumbers \cup {0}, refs : Nat, inCache : BOOLEAN]
      BY DEF Free
    <3>4. entry'[h].refs = entry[h].refs - 1
      BY <2>2, <3>1, <3>3
    <3> QED BY <3>1, <3>2, <3>3, <3>4
  <2>3. CASE entry[h].refs # 1
    <3>1. entry'[h] = [key |-> entry[h].key, refs |-> entry[h].refs - 1, inCache |-> entry[h].inCache]
      BY <1>6, <2>1, <2>3
    <3>2. entry[h].refs - 1 \in Nat
      BY <1>5
    <3> QED BY <2>1, <3>1, <3>2
  <2> QED BY <2>2, <2>3
<1>8. entry' \in Entries
  BY <1>6, <1>7 DEF CacheInv, CacheTypes, Entries
<1>9. h \in Range(lru) <=> entry[h].inCache /\ entry[h].refs = 1
  BY DEF CacheInv, CacheAccountsForAll
<1>10. /\ lru' \in Seq(Handles) /\ IsInjective(lru')
       /\ Range(lru') = IF entry[h].refs = 2 /\ entry[h].inCache THEN Range(lru) \cup {h}
                        ELSE Range(lru)
  <2>1. CASE entry[h].refs = 2 /\ entry[h].inCache
    <3> DEFINE s == RemoveFirst(lru, h)
    <3>1. s \in Seq(Handles) /\ IsInjective(s) /\ Range(s) = Range(lru) \ {h}
      BY RemovedFromList DEF CacheInv, CacheTypes, CacheAccountsForAll
    <3>2. lru' = Append(s, h)
      BY <1>0, <2>1
    <3> HIDE DEF s
    <3>3. Append(s, h) \in Seq(Handles) /\ IsInjective(Append(s, h))
          /\ Range(Append(s, h)) = Range(s) \cup {h}
      BY <3>1, AddedToList
    <3> QED BY <2>1, <3>1, <3>2, <3>3
  <2>2. CASE ~(entry[h].refs = 2 /\ entry[h].inCache)
    <3>1. lru' = lru
      BY <1>0, <2>2
    <3> QED BY <2>2, <3>1 DEF CacheInv, CacheTypes, CacheAccountsForAll
  <2> QED BY <2>1, <2>2
<1>11. CacheTypes' /\ OpensWithout'
  <2>1. task' = task /\ capacity' = capacity /\ table' = table
    BY <1>0
  <2>2. holds' \in [CacheThreads -> Handles \cup {0}]
        /\ \A u \in CacheThreads : holds[u] = 0 => holds'[u] = 0
    BY <1>0 DEF CacheInv, CacheTypes
  <2> QED BY <1>8, <1>10, <2>1, <2>2 DEF CacheInv, CacheTypes, OpensWithout
<1>12. Units(entry') = Units(entry)
  BY <1>6, <1>7, SameCharge
<1>13. IsFiniteSet(Units(entry))' /\ usage' = TotalCharge(entry)'
  BY <1>0, <1>12 DEF CacheInv, CacheAccountsForAll, Units, TotalCharge
<1>14. ASSUME NEW g \in Handles
       PROVE /\ entry'[g].refs = Cardinality(UsersOf(g))' + (IF entry'[g].inCache THEN 1 ELSE 0)
             /\ entry'[g].inCache <=> \E j \in FileNumbers : table'[j] = g
             /\ g \in Range(lru') <=> entry'[g].inCache /\ entry'[g].refs = 1
  <2>1. entry'[g].inCache <=> \E j \in FileNumbers : table'[j] = g
    BY <1>0, <1>6, <1>7 DEF CacheInv, CacheAccountsForAll
  <2>2. CASE g = h
    <3>1. Cardinality(UsersOf(h))' = Cardinality(UsersOf(h)) - 1
      BY <1>3
    <3>2. CASE entry[h].inCache
      <4>1. entry[h].refs = Cardinality(UsersOf(h)) + 1 /\ entry'[h].refs = entry[h].refs - 1
            /\ entry'[h].inCache
        BY <1>4, <1>7, <3>2
      <4>2. entry'[h].refs = Cardinality(UsersOf(h))' + 1
        BY <1>2, <3>1, <4>1
      <4>3. entry'[h].refs = 1 <=> entry[h].refs = 2
        BY <1>2, <4>1
      <4>4. entry[h].refs # 1
        BY <1>5, <3>2
      <4>5. h \in Range(lru') <=> entry'[h].refs = 1
        BY <1>9, <1>10, <3>2, <4>3, <4>4
      <4> QED BY <2>1, <2>2, <4>1, <4>2, <4>5
    <3>3. CASE ~entry[h].inCache
      <4>1. entry[h].refs = Cardinality(UsersOf(h)) + 0 /\ entry'[h].refs = entry[h].refs - 1
            /\ ~entry'[h].inCache
        BY <1>4, <1>7, <3>3
      <4>2. entry'[h].refs = Cardinality(UsersOf(h))' + 0
        BY <1>2, <3>1, <4>1
      <4>3. h \notin Range(lru')
        BY <1>9, <1>10, <3>3
      <4> QED BY <2>1, <2>2, <4>1, <4>2, <4>3
    <3> QED BY <3>2, <3>3
  <2>3. CASE g # h
    <3>1. Cardinality(UsersOf(g))' = Cardinality(UsersOf(g))
      BY <1>3, <2>3, UsersCounted
    <3> QED BY <1>6, <1>10, <2>1, <2>3, <3>1 DEF CacheInv, CacheAccountsForAll
  <2> QED BY <2>2, <2>3
<1>15. \A j \in FileNumbers : table'[j] # 0 => entry'[table'[j]].key = j
  BY <1>0, <1>6, <1>7, EntryFacts
<1> QED BY <1>10, <1>11, <1>13, <1>14, <1>15 DEF CacheInv, CacheAccountsForAll

\* A new entry has the reference of its thread and, unless the cache is turned off, that of
\* the cache; an entry that was inserted meanwhile under the key loses that of the cache.
LEMMA InsertEntryKeeps ==
  ASSUME CacheInv, NEW t \in CacheThreads, NEW h \in Handles, InsertEntry(t, h)
  PROVE  CacheInv'
<1>k. PICK k \in FileNumbers : k = task[t].key
  BY DEF InsertEntry, CacheInv, CacheTypes, Tasks
<1>o. PICK old \in Handles \cup {0} : old = table[k]
  BY DEF CacheInv, CacheTypes
<1> DEFINE cached == capacity > 0
           new == [key |-> k, refs |-> IF cached THEN 2 ELSE 1, inCache |-> cached]
           with == [entry EXCEPT ![h] = new]
           replaces == cached /\ old # 0
<1>0. /\ task[t].op = "open" /\ entry[h] = Free
      /\ entry' = IF replaces THEN Erased(old, with) ELSE with
      /\ lru' = IF replaces THEN RemoveFirst(lru, old) ELSE lru
      /\ usage' = usage + (IF cached THEN EntryCharge[k] ELSE 0) - (IF replaces THEN EntryCharge[k] ELSE 0)
      /\ table' = IF cached THEN [table EXCEPT ![k] = h] ELSE table
      /\ holds' = [holds EXCEPT ![t] = h] /\ task' = [task EXCEPT ![t] = [op |-> "evict"]]
      /\ capacity' = capacity
  BY <1>k, <1>o DEF InsertEntry
<1>1. k \in FileNumbers /\ holds[t] = 0 /\ cached \in BOOLEAN
  BY <1>0 DEF CacheInv, CacheTypes, OpensWithout, Tasks
<1>2. /\ old \in Handles \cup {0} /\ old # h /\ h # 0
      /\ old # 0 => entry[old].inCache /\ entry[old].key = k /\ entry[old].refs \in Nat
                    /\ entry[old].refs >= 1
  BY <1>o, <1>0, <1>1, EntryFacts, CacheConstants DEF CacheInv, CacheTypes, Free
<1>3. Cardinality(UsersOf(h)) = 0 /\ h \notin Range(lru) /\ \A j \in FileNumbers : table[j] # h
  <2>1. 0 = Cardinality(UsersOf(h)) + 0
    BY <1>0 DEF CacheInv, CacheAccountsForAll, Free
  <2> QED BY <1>0, <2>1, UsersCounted DEF CacheInv, CacheAccountsForAll, Free
<1>4. \A g \in Handles : Cardinality(UsersOf(g))' =
                            Cardinality(UsersOf(g)) + (IF g = h THEN 1 ELSE 0)
  BY <1>0, <1>1, UserAdded DEF CacheInv, CacheTypes
<1>5. new \in [key : FileNumbers \cup {0}, refs : Nat, inCache : BOOLEAN]
      /\ new.key = k /\ new.inCache = cached /\ new.refs = IF cached THEN 2 ELSE 1
  BY <1>1
<1> HIDE DEF new
<1>6. entry = [g \in Handles |-> entry[g]] /\ DOMAIN entry = Handles
      /\ \A g \in Handles : entry[g] \in [key : FileNumbers \cup {0}, refs : Nat, inCache : BOOLEAN]
  BY DEF CacheInv, CacheTypes, Entries
<1>7. with \in Entries /\ with[h] = new /\ \A g \in Handles \ {h} : with[g] = entry[g]
  BY <1>5, <1>6 DEF Entries
<1>8. holds' \in [CacheThreads -> Handles \cup {0}] /\ task' \in [CacheThreads -> Tasks]
      /\ capacity' \in Nat /\ table' \in [FileNumbers -> Handles \cup {0}] /\ OpensWithout'
  <2>1. [op |-> "evict"] \in Tasks
    BY DEF Tasks
  <2> QED BY <1>0, <2>1 DEF CacheInv, CacheTypes, OpensWithout
<1> HIDE DEF with
<1>9. CASE ~replaces
  <2>1. entry' = with /\ lru' = lru /\ usage' = usage + (IF cached THEN EntryCharge[k] ELSE 0)
    BY <1>0, <1>1, <1>9, EntryFacts
  <2>2. IsFiniteSet(Units(entry)) /\ usage = TotalCharge(entry)
    BY DEF CacheInv, CacheAccountsForAll
  <2>3. IsFiniteSet(Units(with)) /\ usage' = TotalCharge(with)
    <3>1. CASE cached
      <4>1. ~entry[h].inCache /\ with[h].inCache /\ with[h].key = k /\ k \in FileNumbers
        BY <1>0, <1>1, <1>5, <1>7, <3>1 DEF Free
      <4>2. \A g \in Handles \ {h} : /\ with[g].inCache = entry[g].inCache
                                     /\ entry[g].inCache => with[g].key = entry[g].key
        BY <1>7
      <4>3. IsFiniteSet(Units(with)) /\ TotalCharge(with) = TotalCharge(entry) + EntryCharge[with[h].key]
        BY <2>2, <4>1, <4>2, ChargeAdded
      <4> QED BY <2>1, <2>2, <3>1, <4>1, <4>3
    <3>2. CASE ~cached
      <4>1. \A g \in Handles : /\ with[g].inCache = entry[g].inCache
                               /\ entry[g].inCache => with[g].key = entry[g].key
        <5>1. entry[h].inCache = FALSE /\ with[h].inCache = FALSE
          BY <1>0, <1>5, <1>7, <3>2 DEF Free
        <5> QED BY <1>7, <5>1
      <4>2. Units(with) = Units(entry)
        BY <4>1, SameCharge
      <4>3. usage' = usage
        BY <2>1, <3>2, EntryFacts
      <4> QED BY <2>2, <4>2, <4>3 DEF TotalCharge
    <3> QED BY <3>1, <3>2
  <2>4. ASSUME NEW g \in Handles
        PROVE /\ entry'[g].refs = Cardinality(UsersOf(g))' + (IF entry'[g].inCache THEN 1 ELSE 0)
              /\ entry'[g].inCache <=> \E j \in FileNumbers : table'[j] = g
              /\ g \in Range(lru') <=> entry'[g].inCache /\ entry'[g].refs = 1
    <3>1. CASE g = h
      <4>1. entry'[g].refs = Cardinality(UsersOf(g))' + (IF entry'[g].inCache THEN 1 ELSE 0)
        BY <1>3, <1>4, <1>5, <1>7, <2>1, <3>1
      <4>2. entry'[g].inCache <=> \E j \in FileNumbers : table'[j] = g
        BY <1>0, <1>1, <1>3, <1>5, <1>7, <2>1, <3>1 DEF CacheInv, CacheTypes
      <4> QED BY <1>3, <1>5, <1>7, <2>1, <3>1, <4>1, <4>2
    <3>2. CASE g # h
      <4>1. Cardinality(UsersOf(g))' = Cardinality(UsersOf(g))
        BY <1>4, <3>2, UsersCounted
      <4>2. \A j \in FileNumbers : table'[j] = g <=> table[j] = g
        <5>1. CASE ~cached
          BY <1>0, <5>1
        <5>2. CASE cached
          <6>1. old = 0 /\ g # 0
            BY <1>9, <5>2, CacheConstants
          <6> QED BY <1>o, <1>0, <1>1, <3>2, <5>2, <6>1 DEF CacheInv, CacheTypes
        <5> QED BY <5>1, <5>2
      <4> QED BY <1>7, <2>1, <3>2, <4>1, <4>2 DEF CacheInv, CacheAccountsForAll
    <3> QED BY <3>1, <3>2
  <2>5. ASSUME NEW j \in FileNumbers, table'[j] # 0 PROVE entry'[table'[j]].key = j
    <3>1. CASE cached /\ j = k
      BY <1>0, <1>1, <1>5, <1>7, <2>1, <3>1 DEF CacheInv, CacheTypes
    <3>2. CASE ~(cached /\ j = k)
      <4>1. table'[j] = table[j]
        BY <1>0, <1>1, <3>2 DEF CacheInv, CacheTypes
      <4>2. table[j] \in Handles \ {h} /\ entry[table[j]].key = j
        BY <1>3, <2>5, <4>1, EntryFacts
      <4> QED BY <1>7, <2>1, <4>1, <4>2
    <3> QED BY <3>1, <3>2
  <2>6. CacheTypes'
    BY <1>7, <1>8, <2>1 DEF CacheInv, CacheTypes
  <2>7. IsFiniteSet(Units(entry))' /\ usage' = TotalCharge(entry)' /\ IsInjective(lru')
    BY <2>1, <2>3 DEF Units, TotalCharge, CacheInv, CacheAccountsForAll
  <2> QED BY <1>8, <2>4, <2>5, <2>6, <2>7 DEF CacheInv, CacheAccountsForAll
<1>10. CASE replaces
  <2>1. cached /\ old \in Handles \ {h}
    BY <1>2, <1>10
  <2>2. /\ entry' = Erased(old, with) /\ lru' = RemoveFirst(lru, old)
        /\ usage' = usage + EntryCharge[k] - EntryCharge[k] /\ table' = [table EXCEPT ![k] = h]
    BY <1>0, <1>10
  <2>3. /\ entry[old].inCache /\ entry[old].key = k /\ entry[old].refs \in Nat
        /\ entry[old].refs >= 1
    BY <1>2, <1>10
  <2>4. \A j \in FileNumbers : table[j] = old <=> j = k
    BY <1>o, <1>1, <1>10, EntryFacts
  <2>5. entry[old].refs = Cardinality(UsersOf(old)) + 1 /\ Cardinality(UsersOf(old)) \in Nat
    BY <2>1, <2>3, UsersCounted DEF CacheInv, CacheAccountsForAll
  <2> HIDE DEF cached
  <2>6. with[old] = entry[old]
    BY <1>7, <2>1
  <2>7. /\ DOMAIN entry' = Handles /\ entry' = [g \in Handles |-> entry'[g]]
        /\ \A g \in Handles \ {old} : entry'[g] = with[g]
        /\ entry'[old] = IF entry[old].refs = 1 THEN Free
                         ELSE [entry[old] EXCEPT !.refs = @ - 1, !.inCache = FALSE]
    <3> DEFINE e == IF entry[old].refs = 1 THEN Free
                    ELSE [entry[old] EXCEPT !.refs = @ - 1, !.inCache = FALSE]
    <3>1. entry' = [with EXCEPT ![old] = e]
      <4>1. entry' = Erased(old, with)
        BY <2>2
      <4> QED BY <2>6, <4>1 DEF Erased
    <3>2. with = [g \in Handles |-> with[g]] /\ DOMAIN with = Handles
      BY <1>7 DEF Entries
    <3> HIDE DEF e
    <3>3. /\ DOMAIN entry' = Handles /\ entry' = [g \in Handles |-> entry'[g]]
          /\ \A g \in Handles \ {old} : entry'[g] = with[g]
          /\ entry'[old] = e
      BY <2>1, <3>1, <3>2
    <3> QED BY <3>3 DEF e
  <2>8. /\ entry'[old].refs = Cardinality(UsersOf(old)) /\ entry'[old].inCache = FALSE
        /\ entry'[old] \in [key : FileNumbers \cup {0}, refs : Nat, inCache : BOOLEAN]
    <3>1. entry[old] \in [key : FileNumbers \cup {0}, refs : Nat, inCache : BOOLEAN]
      BY <1>6, <2>1
    <3>2. CASE entry[old].refs = 1
      BY <2>5, <2>7, <3>2 DEF Free
    <3>3. CASE entry[old].refs # 1
      <4>1. entry'[old] = [key |-> entry[old].key, refs |-> entry[old].refs - 1, inCache |-> FALSE]
        BY <2>7, <3>1, <3>3
      <4>2. entry[old].refs - 1 = Cardinality(UsersOf(old))
        BY <2>5
      <4> QED BY <2>5, <3>1, <4>1, <4>2
    <3> QED BY <3>2, <3>3
  <2>9. /\ entry'[h] = new /\ \A g \in Handles \ {h, old} : entry'[g] = entry[g]
    BY <1>7, <2>1, <2>7
  <2>10. entry' \in Entries
    BY <1>5, <1>6, <2>7, <2>8, <2>9 DEF Entries
  <2>11. lru' \in Seq(Handles) /\ IsInjective(lru') /\ Range(lru') = Range(lru) \ {old}
    BY <2>2, RemovedFromList DEF CacheInv, CacheTypes, CacheAccountsForAll
  <2>12. new.refs = 2 /\ new.inCache /\ new.key = k
    BY <1>5, <2>1
  <2>13. IsFiniteSet(Units(entry)) /\ usage = TotalCharge(entry)
    BY DEF CacheInv, CacheAccountsForAll
  <2>14. IsFiniteSet(Units(with)) /\ TotalCharge(with) = TotalCharge(entry) + EntryCharge[k]
    <3>1. ~entry[h].inCache /\ with[h].inCache /\ with[h].key \in FileNumbers
      BY <1>0, <1>1, <1>7, <2>12 DEF Free
    <3>2. \A g \in Handles \ {h} : /\ with[g].inCache = entry[g].inCache
                                   /\ entry[g].inCache => with[g].key = entry[g].key
      BY <1>7
    <3>3. IsFiniteSet(Units(with)) /\ TotalCharge(with) = TotalCharge(entry) + EntryCharge[with[h].key]
      BY <2>13, <3>1, <3>2, ChargeAdded
    <3> QED BY <1>7, <2>12, <3>3
  <2>15. IsFiniteSet(Units(entry')) /\ TotalCharge(entry') = TotalCharge(with) - EntryCharge[k]
    <3>1. with[old].inCache /\ ~entry'[old].inCache /\ with[old].key \in FileNumbers /\ old \in Handles
      BY <1>1, <2>1, <2>3, <2>6, <2>8
    <3>2. \A g \in Handles \ {old} : /\ entry'[g].inCache = with[g].inCache
                                     /\ with[g].inCache => entry'[g].key = with[g].key
      BY <2>7
    <3>3. IsFiniteSet(Units(entry'))
          /\ TotalCharge(entry') = TotalCharge(with) - EntryCharge[with[old].key]
      <4>1. IsFiniteSet(Units(with))
        BY <2>14
      <4> QED BY <3>1, <3>2, <4>1, ChargeRemoved, Zenon
    <3>4. with[old].key = k
      BY <2>3, <2>6
    <3> QED BY <3>3, <3>4
  <2>16. IsFiniteSet(Units(entry))' /\ usage' = TotalCharge(entry)'
    <3>1. EntryCharge[k] \in Nat /\ usage \in Int
      BY <1>1, EntryFacts
    <3>2. usage' = TotalCharge(entry')
      BY <2>2, <2>13, <2>14, <2>15, <3>1
    <3> QED BY <2>15, <3>2 DEF Units, TotalCharge
  <2>17. \A j \in FileNumbers : table'[j] = IF j = k THEN h ELSE table[j]
    BY <1>1, <2>2 DEF CacheInv, CacheTypes
  <2>18. ASSUME NEW g \in Handles
         PROVE /\ entry'[g].refs = Cardinality(UsersOf(g))' + (IF entry'[g].inCache THEN 1 ELSE 0)
               /\ entry'[g].inCache <=> \E j \in FileNumbers : table'[j] = g
               /\ g \in Range(lru') <=> entry'[g].inCache /\ entry'[g].refs = 1
    <3>1. CASE g = h
      <4>1. Cardinality(UsersOf(h))' = 1
        BY <1>3, <1>4
      <4>2. \E j \in FileNumbers : table'[j] = h
        BY <1>1, <2>17
      <4>3. h \notin Range(lru')
        BY <1>3, <2>11
      <4> QED BY <2>9, <2>12, <3>1, <4>1, <4>2, <4>3
    <3>2. CASE g = old
      <4>1. Cardinality(UsersOf(old))' = Cardinality(UsersOf(old))
        BY <1>4, <2>1, <2>5
      <4>2. \A j \in FileNumbers : table'[j] # old
        BY <2>1, <2>4, <2>17
      <4>3. old \notin Range(lru')
        BY <2>11
      <4> QED BY <2>5, <2>8, <3>2, <4>1, <4>2, <4>3
    <3>3. CASE g # h /\ g # old
      <4>1. Cardinality(UsersOf(g))' = Cardinality(UsersOf(g))
        BY <1>4, <3>3, UsersCounted
      <4>2. \A j \in FileNumbers : table'[j] = g <=> table[j] = g
        BY <2>4, <2>17, <3>3
      <4> QED BY <2>9, <2>11, <3>3, <4>1, <4>2 DEF CacheInv, CacheAccountsForAll
    <3> QED BY <3>1, <3>2, <3>3
  <2>19. ASSUME NEW j \in FileNumbers, table'[j] # 0 PROVE entry'[table'[j]].key = j
    <3>1. CASE j = k
      BY <2>9, <2>12, <2>17, <3>1
    <3>2. CASE j # k
      <4>1. table'[j] = table[j] /\ table[j] # old /\ table[j] # h
        BY <1>3, <2>4, <2>17, <3>2
      <4>2. table[j] \in Handles /\ entry[table[j]].key = j
        BY <2>19, <4>1, EntryFacts
      <4> QED BY <2>9, <4>1, <4>2
    <3> QED BY <3>1, <3>2
  <2>20. CacheTypes'
    BY <1>8, <2>10, <2>11 DEF CacheInv, CacheTypes
  <2> QED BY <1>8, <2>11, <2>16, <2>18, <2>19, <2>20 DEF CacheInv, CacheAccountsForAll
<1> QED BY <1>9, <1>10
\* The oldest entry of the list is the one its key has in the table.
LEMMA OldestKeeps ==
  ASSUME CacheInv, lru # <<>>, RemoveOldest, UNCHANGED <<capacity, task, holds>>
  PROVE  CacheInv'
<1>h. PICK h : h = Head(lru)
  OBVIOUS
<1>1. h \in Handles /\ h \in Range(lru)
  <2>1. lru \in Seq(Handles) /\ Len(lru) \in Nat /\ DOMAIN lru = 1 .. Len(lru) /\ Len(lru) # 0
    BY LenProperties, EmptySeq DEF CacheInv, CacheTypes
  <2>2. h = lru[1] /\ 1 \in DOMAIN lru
    BY <1>h, <2>1
  <2> QED BY <2>1, <2>2, ElementOfSeq DEF Range
<1>2. entry[h].inCache
  BY <1>1 DEF CacheInv, CacheAccountsForAll
<1>3. PICK k \in FileNumbers : table[k] = h
  BY <1>1, <1>2 DEF CacheInv, CacheAccountsForAll
<1>4. h # 0 /\ entry[h].key = k
  BY <1>1, <1>3, EntryFacts, CacheConstants
<1>5. /\ entry' = Erased(h, entry) /\ lru' = RemoveFirst(lru, h)
      /\ usage' = usage - EntryCharge[k] /\ table' = [table EXCEPT ![k] = 0]
  BY <1>h, <1>4 DEF RemoveOldest
<1> QED BY <1>3, <1>4, <1>5, TakenOut

\* What begins or ends a loop, or fails to open, disturbs no entry.
LEMMA OtherKeeps ==
  ASSUME CacheInv, NEW t \in CacheThreads,
         OpenFails(t) \/ InsertReturns(t) \/ PruneBegins(t) \/ PruneReturns(t)
  PROVE  CacheInv'
<1>1. UNCHANGED <<capacity, usage, entry, lru, table, holds>>
  BY DEF OpenFails, InsertReturns, PruneBegins, PruneReturns
<1>2. PICK n \in {Idle, [op |-> "prune"]} : task' = [task EXCEPT ![t] = n]
  BY DEF OpenFails, InsertReturns, PruneBegins, PruneReturns
<1>3. n \in Tasks /\ n.op # "open"
  BY DEF Idle, Tasks
<1>4. task' \in [CacheThreads -> Tasks]
  BY <1>2, <1>3 DEF CacheInv, CacheTypes
<1>5. CacheTypes'
  BY <1>1, <1>4 DEF CacheInv, CacheTypes
<1>6. OpensWithout'
  BY <1>1, <1>2, <1>3 DEF CacheInv, CacheTypes, OpensWithout
<1> QED BY <1>1, <1>5, <1>6, AccountKept

LEMMA CacheInitial == CacheInit => CacheInv
<1> SUFFICES ASSUME CacheInit PROVE CacheInv
  OBVIOUS
<1>1. Free \in [key : FileNumbers \cup {0}, refs : Nat, inCache : BOOLEAN] /\ Idle \in Tasks
      /\ Idle.op # "open"
  BY DEF Free, Idle, Tasks
<1>2. lru \in Seq(Handles) /\ DOMAIN lru = {} /\ IsInjective(lru) /\ Range(lru) = {}
  BY EmptySeq DEF CacheInit, IsInjective, Range
<1>3. CacheTypes /\ OpensWithout
  BY <1>1, <1>2, CacheConstants DEF CacheInit, CacheTypes, OpensWithout, Entries
<1>4. \A h \in Handles : entry[h] = Free /\ ~entry[h].inCache /\ entry[h].refs = 0
  BY DEF CacheInit, Free
<1>5. Units(entry) = {}
  BY <1>4 DEF Units
<1>6. \A h \in Handles : UsersOf(h) = {}
  BY CacheConstants DEF CacheInit, UsersOf
<1>7. usage = 0 /\ \A k \in FileNumbers : table[k] = 0
  BY DEF CacheInit
<1>8. IsFiniteSet({}) /\ Cardinality({}) = 0
  BY FS_EmptySet
<1>9. \A h \in Handles : entry[h].refs = Cardinality(UsersOf(h)) + (IF entry[h].inCache THEN 1 ELSE 0)
  BY <1>4, <1>6, <1>8
<1>10. \A h \in Handles : entry[h].inCache <=> \E k \in FileNumbers : table[k] = h
  BY <1>4, <1>7, CacheConstants
<1>11. \A h \in Handles : h \in Range(lru) <=> entry[h].inCache /\ entry[h].refs = 1
  BY <1>2, <1>4
<1>12. usage = TotalCharge(entry) /\ IsFiniteSet(Units(entry))
  BY <1>5, <1>7, <1>8 DEF TotalCharge
<1> QED BY <1>2, <1>3, <1>7, <1>9, <1>10, <1>11, <1>12 DEF CacheInv, CacheAccountsForAll

LEMMA CacheStep == CacheInv /\ [CacheNext]_cacheVars => CacheInv'
<1> SUFFICES ASSUME CacheInv, [CacheNext]_cacheVars PROVE CacheInv'
  OBVIOUS
<1>1. CASE UNCHANGED cacheVars
  <2>1. UNCHANGED <<capacity, usage, entry, lru, table, task, holds>>
    BY <1>1 DEF cacheVars
  <2>2. CacheTypes' /\ OpensWithout'
    BY <2>1 DEF CacheInv, CacheTypes, OpensWithout
  <2> QED BY <2>1, <2>2, AccountKept
<1>2. ASSUME NEW t \in CacheThreads, NEW k \in FileNumbers, Erase(t, k) PROVE CacheInv'
  BY <1>2, TakenOut DEF Erase
<1>3. ASSUME NEW t \in CacheThreads, EvictOldest(t) \/ PruneOldest(t) PROVE CacheInv'
  BY <1>3, OldestKeeps DEF EvictOldest, PruneOldest, Overfull
<1> QED BY <1>1, <1>2, <1>3, LookupKeeps, InsertEntryKeeps, ReleaseKeeps, OtherKeeps DEF CacheNext

\* Whatever threads look tables up, open, insert, release and evict them, references, list,
\* table and charge of the cache agree (the comments of cache.cc on its lists): nothing is
\* evicted or freed while a thread uses it, and nothing is kept that nobody can reach.
THEOREM CacheKeepsAccount == CacheSpec => []CacheAccountsForAll
<1>1. CacheInv => CacheAccountsForAll
  BY DEF CacheInv
<1> QED BY <1>1, CacheInitial, CacheStep, PTL DEF CacheSpec

-----------------------------------------------------------------------------
(* The iterators.  InFiles and All are what there is, whether it can be read   *)
(* or not; a reader of the snapshot has to see no more than the Visible part.  *)

IterEntries == [k : UserKeys, s : Nat, t : Types]
InFiles == UNION {files[f] : f \in DOMAIN files}
All == memtable \cup InFiles
VisibleIn(c) == {x \in IF c = 1 THEN memtable ELSE InFiles : x.s <= Sequence}

\* No two entries have a sequence number in common; the files are in order.
SourcesOK ==
    /\ memtable \subseteq IterEntries /\ IsFiniteSet(memtable)
    /\ InFiles \subseteq IterEntries /\ IsFiniteSet(InFiles)
    /\ files \in Seq(SUBSET IterEntries) /\ bad \subseteq DOMAIN files
    /\ \A f, g \in DOMAIN files : f < g => \A x \in files[f], y \in files[g] : Before(x, y)
    /\ memtable \cap InFiles = {} /\ \A x, y \in All : x.s = y.s => x = y
    /\ \A x \in InFiles : x.s <= Sequence

\* A child that goes to the first, or the last, of its entries in A, may stop at what
\* was written after the snapshot, and passes over nothing that is visible.
FirstIn(A, c, p) ==
    \/ p = NoEntry /\ \A x \in VisibleIn(c) : x \notin A
    \/ p \in ChildEntries(c) /\ p \in A /\ \A x \in VisibleIn(c) : x \in A => ~Before(x, p)
LastIn(A, c, p) ==
    \/ p = NoEntry /\ \A x \in VisibleIn(c) : x \notin A
    \/ p \in ChildEntries(c) /\ p \in A /\ \A x \in VisibleIn(c) : x \in A => ~Before(p, x)

\* The other child is on the side the merging iterator goes to.
MergeOK ==
    current # 0 =>
        /\ current \in Children /\ Key \in ChildEntries(current) /\ Key \in IterEntries
        /\ \A c \in Children \ {current} :
             IF merging = "forward" THEN FirstIn(After(IterEntries, Key), c, at[c])
                                    ELSE LastIn(Until(IterEntries, Key), c, at[c])

Ahead(x) == current # 0 /\ ~Before(x, Key)
Behind(x) == current # 0 /\ ~Before(Key, x)

-----------------------------------------------------------------------------
(* The order of the entries *)

LEMMA EntryOrder ==
  ASSUME NEW x \in IterEntries, NEW y \in IterEntries
  PROVE  /\ x.k \in Int /\ x.k # 0 /\ x.s \in Nat
         /\ ~Before(x, x) /\ (Before(x, y) => ~Before(y, x))
         /\ x.s # y.s => Before(x, y) \/ Before(y, x)
         /\ \A z \in IterEntries : Before(x, y) /\ Before(y, z) => Before(x, z)
<1>1. \A z \in IterEntries : z.k \in Int /\ z.k # 0 /\ z.s \in Nat
  BY IteratorConstants DEF IterEntries
<1> QED BY <1>1 DEF Before

LEMMA EntriesDiffer ==
  ASSUME SourcesOK, NEW x \in All, NEW y \in All
  PROVE  /\ x \in IterEntries /\ y \in IterEntries
         /\ x = y \/ Before(x, y) \/ Before(y, x)
<1>1. x \in IterEntries /\ y \in IterEntries
  BY DEF SourcesOK, All
<1>2. x.s = y.s => x = y
  BY DEF SourcesOK
<1> QED BY <1>1, <1>2, EntryOrder

\* Of finitely many entries one is before, and one is after, all the others: it is the one
\* with the fewest before, or after, it.
LEMMA FirstExists ==
  ASSUME SourcesOK, NEW S \in SUBSET All, S # {}
  PROVE  FirstOf(S) \in S /\ \A x \in S \ {FirstOf(S)} : Before(FirstOf(S), x)
<1>1. IsFiniteSet(S)
  BY FS_Subset, FS_Union DEF SourcesOK, All
<1> DEFINE T == {Until(S, e) : e \in S}
<1>2. T \subseteq SUBSET S /\ T # {}
  BY DEF Until
<1>3. IsWellFoundedOn(StrictSubsetOrdering(S), SUBSET S)
  BY <1>1, FS_StrictSubsetOrderingWellFounded, FS_FiniteSubsetsOfFinite
<1>4. PICK U \in T : \A V \in T : <<V, U>> \notin StrictSubsetOrdering(S)
  BY <1>2, <1>3, WFMin
<1>5. PICK e \in S : U = Until(S, e)
  OBVIOUS
<1>6. U = {}
  <2> SUFFICES ASSUME NEW d \in U PROVE FALSE
    OBVIOUS
  <2>1. d \in S /\ Before(d, e) /\ d \in IterEntries /\ e \in IterEntries
    BY <1>5, EntriesDiffer DEF Until
  <2>2. \A x \in S : Before(x, d) => Before(x, e)
    BY <2>1, EntryOrder, EntriesDiffer
  <2>3. Until(S, d) \subseteq U /\ d \notin Until(S, d)
    BY <1>5, <2>1, <2>2, EntryOrder DEF Until
  <2>4. <<Until(S, d), U>> \in StrictSubsetOrdering(S)
    BY <1>2, <2>1, <2>3 DEF StrictSubsetOrdering
  <2> QED BY <1>4, <2>1, <2>4
<1>7. \A x \in S \ {e} : Before(e, x)
  BY <1>5, <1>6, EntriesDiffer DEF Until
<1> QED BY <1>7 DEF FirstOf

LEMMA LastExists ==
  ASSUME SourcesOK, NEW S \in SUBSET All, S # {}
  PROVE  LastOf(S) \in S /\ \A x \in S \ {LastOf(S)} : Before(x, LastOf(S))
<1>1. IsFiniteSet(S)
  BY FS_Subset, FS_Union DEF SourcesOK, All
<1> DEFINE T == {After(S, e) : e \in S}
<1>2. T \subseteq SUBSET S /\ T # {}
  BY DEF After
<1>3. IsWellFoundedOn(StrictSubsetOrdering(S), SUBSET S)
  BY <1>1, FS_StrictSubsetOrderingWellFounded, FS_FiniteSubsetsOfFinite
<1>4. PICK U \in T : \A V \in T : <<V, U>> \notin StrictSubsetOrdering(S)
  BY <1>2, <1>3, WFMin
<1>5. PICK e \in S : U = After(S, e)
  OBVIOUS
<1>6. U = {}
  <2> SUFFICES ASSUME NEW d \in U PROVE FALSE
    OBVIOUS
  <2>1. d \in S /\ Before(e, d) /\ d \in IterEntries /\ e \in IterEntries
    BY <1>5, EntriesDiffer DEF After
  <2>2. \A x \in S : Before(d, x) => Before(e, x)
    BY <2>1, EntryOrder, EntriesDiffer
  <2>3. After(S, d) \subseteq U /\ d \notin After(S, d)
    BY <1>5, <2>1, <2>2, EntryOrder DEF After
  <2>4. <<After(S, d), U>> \in StrictSubsetOrdering(S)
    BY <1>2, <2>1, <2>3 DEF StrictSubsetOrdering
  <2> QED BY <1>4, <2>1, <2>4
<1>7. \A x \in S \ {e} : Before(x, e)
  BY <1>5, <1>6, EntriesDiffer DEF After
<1> QED BY <1>7 DEF LastOf

\* An entry of a set that no other of the set is before, or after, is its first, or last.
LEMMA FirstIs ==
  ASSUME SourcesOK, NEW S \in SUBSET All, NEW e \in S, \A x \in S : ~Before(x, e)
  PROVE  FirstOf(S) = e
BY FirstExists
LEMMA LastIs ==
  ASSUME SourcesOK, NEW S \in SUBSET All, NEW e \in S, \A x \in S : ~Before(e, x)
  PROVE  LastOf(S) = e
BY LastExists

-----------------------------------------------------------------------------
(* The files *)

\* The file of an entry is the one it is in, and can be read if the entry can.
LEMMA FileOfEntry ==
  ASSUME SourcesOK, NEW x \in InFiles
  PROVE  /\ FileOf(x) \in DOMAIN files /\ x \in files[FileOf(x)]
         /\ \A f \in DOMAIN files : x \in files[f] => f = FileOf(x)
         /\ x \in Readable => FileOf(x) \notin bad
<1>1. FileOf(x) \in DOMAIN files /\ x \in files[FileOf(x)]
  BY DEF FileOf, InFiles
<1>2. DOMAIN files \subseteq Nat /\ x \in IterEntries
  BY DEF SourcesOK
<1>3. \A f \in DOMAIN files : x \in files[f] => f = FileOf(x)
  <2> SUFFICES ASSUME NEW f \in DOMAIN files, x \in files[f] PROVE f = FileOf(x)
    OBVIOUS
  <2>1. ~(f < FileOf(x)) /\ ~(FileOf(x) < f)
    BY <1>1, <1>2, EntryOrder DEF SourcesOK
  <2> QED BY <1>1, <1>2, <2>1
<1> QED BY <1>1, <1>3 DEF Readable

LEMMA ReadableIn ==
  ASSUME SourcesOK
  PROVE  /\ Readable \subseteq InFiles /\ Readable \subseteq All /\ memtable \subseteq All
         /\ \A f \in DOMAIN files : f \notin bad => files[f] \subseteq Readable
BY DEF Readable, InFiles, All

\* What is found going forward, or back, over no file that cannot be read.
LEMMA FilesForward ==
  ASSUME SourcesOK, NEW A, NEW from \in Int,
         \A f \in DOMAIN files : \A x \in files[f] : x \in A => from <= f,
         PassedForward(from, FirstOf(Readable \cap A)) = {}
  PROVE  FirstIn(A, 2, FirstOf(Readable \cap A))
<1> DEFINE S == Readable \cap A
           p == FirstOf(S)
<1>1. S \subseteq All /\ S \subseteq InFiles
  BY ReadableIn
<1>n. DOMAIN files \subseteq Nat /\ bad \subseteq DOMAIN files
  BY DEF SourcesOK
<1>2. CASE S = {}
  <2>1. p = NoEntry
    BY <1>2 DEF FirstOf
  <2>2. ASSUME NEW x \in VisibleIn(2), x \in A PROVE FALSE
    <3>1. PICK f \in DOMAIN files : x \in files[f]
      BY DEF VisibleIn, InFiles
    <3>2. f \notin bad
      BY <2>1, <2>2, <3>1, <1>n DEF PassedForward
    <3> QED BY <1>2, <2>2, <3>1, <3>2, ReadableIn
  <2> QED BY <2>1, <2>2 DEF FirstIn
<1>3. CASE S # {}
  <2>1. p \in S /\ \A x \in S \ {p} : Before(p, x)
    BY <1>1, <1>3, FirstExists
  <2>2. p # NoEntry /\ p \in IterEntries /\ p \in InFiles /\ FileOf(p) \in DOMAIN files
        /\ p \in files[FileOf(p)] /\ FileOf(p) \notin bad
    BY <1>1, <2>1, FileOfEntry DEF SourcesOK, IterEntries, NoEntry, Types
  <2>3. ASSUME NEW x \in VisibleIn(2), x \in A PROVE ~Before(x, p)
    <3>1. PICK f \in DOMAIN files : x \in files[f]
      BY DEF VisibleIn, InFiles
    <3>2. x \in IterEntries
      BY DEF SourcesOK, VisibleIn
    <3>3. CASE f <= FileOf(p)
      <4>1. f \notin bad
        <5>1. CASE f < FileOf(p)
          <6>1. f \notin PassedForward(from, p)
            OBVIOUS
          <6>2. from <= f
            BY <2>3, <3>1
          <6> HIDE DEF p
          <6> QED BY <5>1, <6>1, <6>2 DEF PassedForward
        <5>2. CASE f = FileOf(p)
          BY <2>2, <5>2
        <5> QED BY <1>n, <2>2, <3>3, <5>1, <5>2
      <4>2. x \in S
        BY <2>3, <3>1, <4>1, ReadableIn
      <4> QED BY <2>1, <2>2, <3>2, <4>2, EntryOrder
    <3>4. CASE FileOf(p) < f
      <4>1. Before(p, x)
        BY <2>2, <3>1, <3>4 DEF SourcesOK
      <4> QED BY <2>2, <3>2, <4>1, EntryOrder
    <3> QED BY <1>n, <2>2, <3>3, <3>4
  <2>4. p \in ChildEntries(2) /\ p \in A
    BY <2>1 DEF ChildEntries
  <2> QED BY <2>3, <2>4 DEF FirstIn
<1> QED BY <1>2, <1>3

LEMMA FilesBackward ==
  ASSUME SourcesOK, NEW A, NEW from \in Int,
         \A f \in DOMAIN files : \A x \in files[f] : x \in A => f <= from,
         PassedBackward(from, LastOf(Readable \cap A)) = {}
  PROVE  LastIn(A, 2, LastOf(Readable \cap A))
<1> DEFINE S == Readable \cap A
           p == LastOf(S)
<1>1. S \subseteq All /\ S \subseteq InFiles
  BY ReadableIn
<1>n. DOMAIN files \subseteq Nat /\ bad \subseteq DOMAIN files
  BY DEF SourcesOK
<1>2. CASE S = {}
  <2>1. p = NoEntry
    BY <1>2 DEF LastOf
  <2>2. ASSUME NEW x \in VisibleIn(2), x \in A PROVE FALSE
    <3>1. PICK f \in DOMAIN files : x \in files[f]
      BY DEF VisibleIn, InFiles
    <3>2. f \notin bad
      BY <2>1, <2>2, <3>1, <1>n DEF PassedBackward
    <3> QED BY <1>2, <2>2, <3>1, <3>2, ReadableIn
  <2> QED BY <2>1, <2>2 DEF LastIn
<1>3. CASE S # {}
  <2>1. p \in S /\ \A x \in S \ {p} : Before(x, p)
    BY <1>1, <1>3, LastExists
  <2>2. p # NoEntry /\ p \in IterEntries /\ p \in InFiles /\ FileOf(p) \in DOMAIN files
        /\ p \in files[FileOf(p)] /\ FileOf(p) \notin bad
    BY <1>1, <2>1, FileOfEntry DEF SourcesOK, IterEntries, NoEntry, Types
  <2>3. ASSUME NEW x \in VisibleIn(2), x \in A PROVE ~Before(p, x)
    <3>1. PICK f \in DOMAIN files : x \in files[f]
      BY DEF VisibleIn, InFiles
    <3>2. x \in IterEntries
      BY DEF SourcesOK, VisibleIn
    <3>3. CASE FileOf(p) <= f
      <4>1. f \notin bad
        <5>1. CASE FileOf(p) < f
          <6>1. f \notin PassedBackward(from, p)
            OBVIOUS
          <6>2. f <= from
            BY <2>3, <3>1
          <6> HIDE DEF p
          <6> QED BY <5>1, <6>1, <6>2 DEF PassedBackward
        <5>2. CASE f = FileOf(p)
          BY <2>2, <5>2
        <5> QED BY <1>n, <2>2, <3>3, <5>1, <5>2
      <4>2. x \in S
        BY <2>3, <3>1, <4>1, ReadableIn
      <4> QED BY <2>1, <2>2, <3>2, <4>2, EntryOrder
    <3>4. CASE f < FileOf(p)
      <4>1. Before(x, p)
        BY <2>2, <3>1, <3>4 DEF SourcesOK
      <4> QED BY <2>2, <3>2, <4>1, EntryOrder
    <3> QED BY <1>n, <2>2, <3>3, <3>4
  <2>4. p \in ChildEntries(2) /\ p \in A
    BY <2>1 DEF ChildEntries
  <2> QED BY <2>3, <2>4 DEF LastIn
<1> QED BY <1>2, <1>3

\* The memtable has no such trouble.
LEMMA MemtableForward ==
  ASSUME SourcesOK, NEW A
  PROVE  FirstIn(A, 1, FirstOf(memtable \cap A))
<1>1. CASE memtable \cap A = {}
  BY <1>1 DEF FirstIn, FirstOf, VisibleIn
<1>2. CASE memtable \cap A # {}
  <2> DEFINE p == FirstOf(memtable \cap A)
  <2>1. p \in memtable \cap A /\ \A x \in (memtable \cap A) \ {p} : Before(p, x)
    BY <1>2, FirstExists, ReadableIn
  <2>2. \A x \in memtable \cap A : ~Before(x, p)
    BY <2>1, EntryOrder DEF SourcesOK
  <2> QED BY <2>1, <2>2 DEF FirstIn, VisibleIn, ChildEntries
<1> QED BY <1>1, <1>2

LEMMA MemtableBackward ==
  ASSUME SourcesOK, NEW A
  PROVE  LastIn(A, 1, LastOf(memtable \cap A))
<1>1. CASE memtable \cap A = {}
  BY <1>1 DEF LastIn, LastOf, VisibleIn
<1>2. CASE memtable \cap A # {}
  <2> DEFINE p == LastOf(memtable \cap A)
  <2>1. p \in memtable \cap A /\ \A x \in (memtable \cap A) \ {p} : Before(x, p)
    BY <1>2, LastExists, ReadableIn
  <2>2. \A x \in memtable \cap A : ~Before(p, x)
    BY <2>1, EntryOrder DEF SourcesOK
  <2> QED BY <2>1, <2>2 DEF LastIn, VisibleIn, ChildEntries
<1> QED BY <1>1, <1>2

\* FindFile passes over no file with an entry at or after the target.
LEMMA FindFileFirst ==
  ASSUME SourcesOK, NEW target
  PROVE  /\ FindFile(target) \in Int
         /\ \A f \in DOMAIN files : \A x \in files[f] : ~Before(x, target) => FindFile(target) <= f
<1> DEFINE S == {f \in DOMAIN files : AtOrAfter(files[f], target) # {}}
<1>1. DOMAIN files = 1 .. Len(files) /\ Len(files) \in Nat
  BY DEF SourcesOK
<1>2. CASE S = {}
  BY <1>1, <1>2 DEF FindFile, AtOrAfter
<1>3. CASE S # {}
  <2>1. S \subseteq Nat
    BY <1>1
  <2>2. PICK m \in S : \A f \in S : <<f, m>> \notin OpToRel(<, Nat)
    BY <1>3, <2>1, NatLessThanWellFounded, WFMin
  <2>3. \A f \in S : m <= f
    <3> SUFFICES ASSUME NEW f \in S, f < m PROVE FALSE
      BY <2>1
    <3>1. <<f, m>> \in OpToRel(<, Nat)
      BY <2>1 DEF OpToRel
    <3> QED BY <2>2, <3>1
  <2>4. Min(S) \in S /\ \A f \in S : Min(S) <= f
    BY <2>3 DEF Min
  <2>5. FindFile(target) = Min(S)
    BY <1>3 DEF FindFile
  <2>6. \A f \in DOMAIN files : \A x \in files[f] : ~Before(x, target) => f \in S
    BY DEF AtOrAfter
  <2> HIDE DEF S
  <2>7. FindFile(target) \in Int
    <3>1. \A n \in S : n \in Int
      BY <2>1
    <3> QED BY <2>4, <2>5, <3>1, Zenon
  <2> QED BY <2>4, <2>5, <2>6, <2>7
<1> QED BY <1>2, <1>3

-----------------------------------------------------------------------------
(* The merging iterator *)

LEMMA VisibleParts ==
  ASSUME SourcesOK
  PROVE  /\ Visible = VisibleIn(1) \cup VisibleIn(2) /\ Visible \subseteq All
         /\ Visible \subseteq IterEntries /\ View \subseteq Visible
         /\ \A c \in Children : ChildEntries(c) \subseteq All
BY ReadableIn DEF Visible, VisibleIn, InFiles, All, View, SourcesOK, ChildEntries, Children

LEMMA SameSources ==
  ASSUME UNCHANGED sourceVars
  PROVE  /\ SourcesOK' = SourcesOK /\ Visible' = Visible /\ View' = View /\ All' = All
         /\ \A c \in Children : ChildEntries(c)' = ChildEntries(c) /\ VisibleIn(c)' = VisibleIn(c)
<1>1. memtable' = memtable /\ files' = files /\ bad' = bad
  BY DEF sourceVars
<1>2. InFiles' = InFiles /\ Readable' = Readable
  BY <1>1 DEF InFiles, Readable
<1>3. All' = All /\ Visible' = Visible
  BY <1>1, <1>2 DEF All, Visible
<1>4. View' = View
  BY <1>3 DEF View
<1>5. \A c \in Children : ChildEntries(c)' = ChildEntries(c) /\ VisibleIn(c)' = VisibleIn(c)
  BY <1>1, <1>2 DEF ChildEntries, VisibleIn
<1>6. SourcesOK' = SourcesOK
  BY <1>1, <1>2, <1>3 DEF SourcesOK
<1> QED BY <1>3, <1>4, <1>5, <1>6

\* Wherever children stand that were sent to the first of their entries in A, the merging
\* iterator has ahead of it what is visible of A, and nothing else.
LEMMA ForwardLands ==
  ASSUME SourcesOK, NEW A \in SUBSET IterEntries,
         \A x \in IterEntries, y \in A : Before(y, x) => x \in A,
         NEW pos, \A c \in Children : FirstIn(A, c, pos[c]),
         NEW passed, Forward(pos, passed), UNCHANGED sourceVars
  PROVE  /\ MergeOK' /\ \A x \in Visible : Ahead(x)' <=> x \in A
         /\ current' # 0 => Key' \in A
<1> DEFINE S == {c \in Children : pos[c] # NoEntry}
<1>1. at' = pos /\ current' = FindSmallest(pos) /\ merging' = "forward"
  BY DEF Forward
<1>2. CASE S = {}
  <2>1. current' = 0
    BY <1>1, <1>2 DEF FindSmallest
  <2>2. \A x \in Visible : x \notin A
    <3>1. \A c \in Children : pos[c] = NoEntry
      BY <1>2
    <3>2. NoEntry \notin A
      BY DEF IterEntries, NoEntry, Types
    <3>3. \A c \in Children : \A x \in VisibleIn(c) : x \notin A
      BY <3>1, <3>2 DEF FirstIn
    <3> QED BY <3>3, VisibleParts DEF Children
  <2> QED BY <2>1, <2>2 DEF MergeOK, Ahead
<1>3. CASE S # {}
  <2>1. \A c \in S : /\ pos[c] \in ChildEntries(c) /\ pos[c] \in A /\ pos[c] \in IterEntries
                      /\ \A x \in VisibleIn(c) : x \in A => ~Before(x, pos[c])
    BY DEF FirstIn
  <2>2. \A c, d \in S : c = d \/ Before(pos[c], pos[d]) \/ Before(pos[d], pos[c])
    <3> SUFFICES ASSUME NEW c \in S, NEW d \in S, c # d
                 PROVE  Before(pos[c], pos[d]) \/ Before(pos[d], pos[c])
      OBVIOUS
    <3>1. pos[c] \in All /\ pos[d] \in All
      BY <2>1, VisibleParts
    <3>2. pos[c] # pos[d]
      BY <2>1, ReadableIn DEF ChildEntries, Children, SourcesOK
    <3> QED BY <3>1, <3>2, EntriesDiffer
  <2>3. \E c \in S : \A d \in S : c = d \/ Before(pos[c], pos[d])
    BY <1>3, <2>2 DEF Children
  <2>4. current' \in S /\ \A d \in S : current' = d \/ Before(pos[current'], pos[d])
    BY <1>1, <1>3, <2>3 DEF FindSmallest
  <2>p. PICK c \in S : c = current'
    BY <2>4
  <2> DEFINE K == pos[c]
  <2>5. Key' = K /\ c # 0 /\ c \in Children
    BY <1>1, <2>4, <2>p DEF Key, Children
  <2>6. K \in IterEntries /\ K \in A /\ K \in All /\ K \in ChildEntries(c)
    BY <2>1, <2>4, <2>p, VisibleParts
  <2>7. ASSUME NEW d \in Children \ {c} PROVE FirstIn(After(IterEntries, K), d, pos[d])
    <3>1. CASE pos[d] = NoEntry
      <4>1. \A x \in VisibleIn(d) : x \notin A
        BY <3>1, <2>7 DEF FirstIn, IterEntries, NoEntry, Types
      <4> QED BY <3>1, <4>1, <2>6 DEF FirstIn, After
    <3>2. CASE pos[d] # NoEntry
      <4>1. d \in S /\ Before(K, pos[d])
        BY <2>4, <2>p, <2>7, <3>2
      <4> HIDE DEF K
      <4>2. \A x \in VisibleIn(d) : x \in After(IterEntries, K) => ~Before(x, pos[d])
        BY <2>1, <2>6, <4>1 DEF After
      <4> QED BY <2>1, <4>1, <4>2 DEF FirstIn, After
    <3> QED BY <3>1, <3>2
  <2>8. MergeOK'
    <3>1. \A d \in Children : ChildEntries(d)' = ChildEntries(d) /\ VisibleIn(d)' = VisibleIn(d)
      BY SameSources
    <3>2. at' = pos /\ current' = c /\ Key' = K /\ merging' = "forward"
      BY <1>1, <2>5, <2>p
    <3> HIDE DEF K
    <3>3. Key' \in ChildEntries(current)' /\ Key' \in IterEntries
      BY <2>5, <2>6, <3>1, <3>2
    <3>4. ASSUME NEW d \in Children \ {c} PROVE FirstIn(After(IterEntries, Key), d, at[d])'
      BY <2>7, <3>1, <3>2, <3>4 DEF FirstIn, After
    <3> QED BY <2>5, <3>2, <3>3, <3>4 DEF MergeOK
  <2>9. ASSUME NEW x \in Visible PROVE x \in A <=> ~Before(x, K)
    <3>x. x \in IterEntries /\ x \in All
      BY VisibleParts
    <3>1. ASSUME x \in A, Before(x, K) PROVE FALSE
      <4>1. PICK d \in Children : x \in VisibleIn(d)
        BY VisibleParts DEF Children
      <4>2. CASE d = c
        BY <2>1, <3>1, <4>1, <4>2
      <4>3. CASE d # c /\ pos[d] = NoEntry
        BY <3>1, <4>1, <4>3 DEF FirstIn, IterEntries, NoEntry, Types
      <4>4. CASE d # c /\ pos[d] # NoEntry
        <5>1. d \in S /\ Before(K, pos[d]) /\ pos[d] \in IterEntries
          BY <2>1, <2>4, <2>p, <4>4
        <5>2. Before(x, pos[d])
          BY <2>6, <3>1, <3>x, <5>1, EntryOrder
        <5> QED BY <2>1, <3>1, <4>1, <5>1, <5>2
      <4> QED BY <4>2, <4>3, <4>4
    <3>2. ASSUME x \notin A, ~Before(x, K) PROVE FALSE
      <4>1. x = K \/ Before(K, x)
        BY <2>6, <3>2, <3>x, EntriesDiffer
      <4> QED BY <2>6, <3>2, <3>x, <4>1
    <3> QED BY <3>1, <3>2
  <2> QED BY <2>5, <2>6, <2>8, <2>9, <2>p DEF Ahead
<1> QED BY <1>2, <1>3

\* Wherever children stand that were sent to the last of their entries in A, the merging
\* iterator has behind it what is visible of A, and nothing else.
LEMMA BackwardLands ==
  ASSUME SourcesOK, NEW A \in SUBSET IterEntries,
         \A x \in IterEntries, y \in A : Before(x, y) => x \in A,
         NEW pos, \A c \in Children : LastIn(A, c, pos[c]),
         NEW passed, Backward(pos, passed), UNCHANGED sourceVars
  PROVE  /\ MergeOK' /\ \A x \in Visible : Behind(x)' <=> x \in A
         /\ current' # 0 => Key' \in A
<1> DEFINE S == {c \in Children : pos[c] # NoEntry}
<1>1. at' = pos /\ current' = FindLargest(pos) /\ merging' = "reverse"
  BY DEF Backward
<1>2. CASE S = {}
  <2>1. current' = 0
    BY <1>1, <1>2 DEF FindLargest
  <2>2. \A x \in Visible : x \notin A
    <3>1. \A c \in Children : pos[c] = NoEntry
      BY <1>2
    <3>2. NoEntry \notin A
      BY DEF IterEntries, NoEntry, Types
    <3>3. \A c \in Children : \A x \in VisibleIn(c) : x \notin A
      BY <3>1, <3>2 DEF LastIn
    <3> QED BY <3>3, VisibleParts DEF Children
  <2> QED BY <2>1, <2>2 DEF MergeOK, Behind
<1>3. CASE S # {}
  <2>1. \A c \in S : /\ pos[c] \in ChildEntries(c) /\ pos[c] \in A /\ pos[c] \in IterEntries
                      /\ \A x \in VisibleIn(c) : x \in A => ~Before(pos[c], x)
    BY DEF LastIn
  <2>2. \A c, d \in S : c = d \/ Before(pos[d], pos[c]) \/ Before(pos[c], pos[d])
    <3> SUFFICES ASSUME NEW c \in S, NEW d \in S, c # d
                 PROVE  Before(pos[d], pos[c]) \/ Before(pos[c], pos[d])
      OBVIOUS
    <3>1. pos[c] \in All /\ pos[d] \in All
      BY <2>1, VisibleParts
    <3>2. pos[c] # pos[d]
      BY <2>1, ReadableIn DEF ChildEntries, Children, SourcesOK
    <3> QED BY <3>1, <3>2, EntriesDiffer
  <2>3. \E c \in S : \A d \in S : c = d \/ Before(pos[d], pos[c])
    BY <1>3, <2>2 DEF Children
  <2>4. current' \in S /\ \A d \in S : current' = d \/ Before(pos[d], pos[current'])
    BY <1>1, <1>3, <2>3 DEF FindLargest
  <2>p. PICK c \in S : c = current'
    BY <2>4
  <2> DEFINE K == pos[c]
  <2>5. Key' = K /\ c # 0 /\ c \in Children
    BY <1>1, <2>4, <2>p DEF Key, Children
  <2>6. K \in IterEntries /\ K \in A /\ K \in All /\ K \in ChildEntries(c)
    BY <2>1, <2>4, <2>p, VisibleParts
  <2>7. ASSUME NEW d \in Children \ {c} PROVE LastIn(Until(IterEntries, K), d, pos[d])
    <3>1. CASE pos[d] = NoEntry
      <4>1. \A x \in VisibleIn(d) : x \notin A
        BY <3>1, <2>7 DEF LastIn, IterEntries, NoEntry, Types
      <4> QED BY <3>1, <4>1, <2>6 DEF LastIn, Until
    <3>2. CASE pos[d] # NoEntry
      <4>1. d \in S /\ Before(pos[d], K)
        BY <2>4, <2>p, <2>7, <3>2
      <4> HIDE DEF K
      <4>2. \A x \in VisibleIn(d) : x \in Until(IterEntries, K) => ~Before(pos[d], x)
        BY <2>1, <2>6, <4>1 DEF Until
      <4> QED BY <2>1, <4>1, <4>2 DEF LastIn, Until
    <3> QED BY <3>1, <3>2
  <2>8. MergeOK'
    <3>1. \A d \in Children : ChildEntries(d)' = ChildEntries(d) /\ VisibleIn(d)' = VisibleIn(d)
      BY SameSources
    <3>2. at' = pos /\ current' = c /\ Key' = K /\ merging' = "reverse"
      BY <1>1, <2>5, <2>p
    <3> HIDE DEF K
    <3>3. Key' \in ChildEntries(current)' /\ Key' \in IterEntries
      BY <2>5, <2>6, <3>1, <3>2
    <3>4. ASSUME NEW d \in Children \ {c} PROVE LastIn(Until(IterEntries, Key), d, at[d])'
      BY <2>7, <3>1, <3>2, <3>4 DEF LastIn, Until
    <3> QED BY <2>5, <3>2, <3>3, <3>4 DEF MergeOK
  <2>9. ASSUME NEW x \in Visible PROVE x \in A <=> ~Before(K, x)
    <3>x. x \in IterEntries /\ x \in All
      BY VisibleParts
    <3>1. ASSUME x \in A, Before(K, x) PROVE FALSE
      <4>1. PICK d \in Children : x \in VisibleIn(d)
        BY VisibleParts DEF Children
      <4>2. CASE d = c
        BY <2>1, <3>1, <4>1, <4>2
      <4>3. CASE d # c /\ pos[d] = NoEntry
        BY <3>1, <4>1, <4>3 DEF LastIn, IterEntries, NoEntry, Types
      <4>4. CASE d # c /\ pos[d] # NoEntry
        <5>1. d \in S /\ Before(pos[d], K) /\ pos[d] \in IterEntries
          BY <2>1, <2>4, <2>p, <4>4
        <5>2. Before(pos[d], x)
          BY <2>6, <3>1, <3>x, <5>1, EntryOrder
        <5> QED BY <2>1, <3>1, <4>1, <5>1, <5>2
      <4> QED BY <4>2, <4>3, <4>4
    <3>2. ASSUME x \notin A, ~Before(K, x) PROVE FALSE
      <4>1. x = K \/ Before(x, K)
        BY <2>6, <3>2, <3>x, EntriesDiffer
      <4> QED BY <2>6, <3>2, <3>x, <4>1
    <3> QED BY <3>1, <3>2
  <2> QED BY <2>5, <2>6, <2>8, <2>9, <2>p DEF Behind
<1> QED BY <1>2, <1>3
\* What the children of a seek find is in A: all from the target on.
LEMMA ChildrenIn ==
  ASSUME SourcesOK, NEW e
  PROVE  /\ \A c \in Children : AtOrAfter(ChildEntries(c), e) = ChildEntries(c) \cap AtOrAfter(IterEntries, e)
         /\ \A c \in Children : After(ChildEntries(c), e) = ChildEntries(c) \cap After(IterEntries, e)
         /\ \A c \in Children : Until(ChildEntries(c), e) = ChildEntries(c) \cap Until(IterEntries, e)
         /\ \A c \in Children : ChildEntries(c) = ChildEntries(c) \cap IterEntries
         /\ ChildEntries(1) = memtable /\ ChildEntries(2) = Readable
<1>1. \A c \in Children : ChildEntries(c) \subseteq IterEntries
  BY VisibleParts DEF SourcesOK, All
<1> QED BY <1>1 DEF AtOrAfter, After, Until, ChildEntries

LEMMA SeekLands ==
  ASSUME SourcesOK, NEW k \in UserKeys, MergeSeek([k |-> k, s |-> Sequence, t |-> "value"]),
         UNCHANGED sourceVars, ~failed'
  PROVE  MergeOK' /\ (\A x \in Visible : Ahead(x)' <=> x.k >= k) /\ (current' # 0 => Key'.k >= k)
<1> DEFINE target == [k |-> k, s |-> Sequence, t |-> "value"]
           A == AtOrAfter(IterEntries, target)
           pos == [c \in Children |-> FirstOf(AtOrAfter(ChildEntries(c), target))]
           passed == PassedForward(FindFile(target), pos[2])
<1>1. target \in IterEntries
  BY IteratorConstants DEF IterEntries, Types
<1>2. \A x \in IterEntries, y \in A : Before(y, x) => x \in A
  BY <1>1, EntryOrder DEF AtOrAfter
<1>3. pos[1] = FirstOf(memtable \cap A) /\ pos[2] = FirstOf(Readable \cap A)
  BY ChildrenIn DEF Children
<1>4. Forward(pos, passed) /\ passed = {}
  BY DEF MergeSeek, Forward
<1>5. A \subseteq IterEntries
  BY DEF AtOrAfter
<1>6. ASSUME NEW f \in DOMAIN files, NEW x \in files[f], x \in A PROVE FindFile(target) <= f
  BY <1>6, FindFileFirst DEF AtOrAfter
<1>7. FindFile(target) \in Int
  BY FindFileFirst
<1>8. FirstIn(A, 2, pos[2])
  <2> HIDE DEF A, target
  <2> QED BY <1>3, <1>4, <1>6, <1>7, FilesForward
<1>9. FirstIn(A, 1, pos[1])
  BY <1>3, MemtableForward
<1>10. MergeOK' /\ (\A x \in Visible : Ahead(x)' <=> x \in A) /\ (current' # 0 => Key' \in A)
  <2> HIDE DEF A, pos, passed
  <2> QED BY <1>2, <1>4, <1>5, <1>8, <1>9, ForwardLands DEF Children
<1>11. \A x \in Visible : x \in A <=> x.k >= k
  <2> SUFFICES ASSUME NEW x \in Visible PROVE x \in A <=> x.k >= k
    OBVIOUS
  <2>1. x \in IterEntries /\ x.k \in Int /\ x.s \in Nat /\ x.s <= Sequence
    BY VisibleParts, EntryOrder DEF Visible
  <2>2. k \in Int /\ Sequence \in Nat
    BY IteratorConstants
  <2> QED BY <2>1, <2>2 DEF AtOrAfter, Before
<1>12. \A x \in A : x.k >= k
  <2> SUFFICES ASSUME NEW x \in IterEntries, ~Before(x, target) PROVE x.k >= k
    BY DEF AtOrAfter
  <2> QED BY <1>1, EntryOrder DEF Before
<1> QED BY <1>10, <1>11, <1>12

LEMMA SeekToFirstLands ==
  ASSUME SourcesOK, MergeSeekToFirst, UNCHANGED sourceVars, ~failed'
  PROVE  MergeOK' /\ \A x \in Visible : Ahead(x)'
<1> DEFINE A == IterEntries
           pos == [c \in Children |-> FirstOf(ChildEntries(c))]
           passed == PassedForward(1, pos[2])
<1>3. pos[1] = FirstOf(memtable \cap A) /\ pos[2] = FirstOf(Readable \cap A)
  BY ChildrenIn DEF Children
<1>4. Forward(pos, passed) /\ passed = {}
  BY DEF MergeSeekToFirst, Forward
<1>6. \A f \in DOMAIN files : 1 <= f
  BY DEF SourcesOK
<1> HIDE DEF A
<1>8. FirstIn(A, 2, pos[2])
  BY <1>3, <1>4, <1>6, FilesForward
<1>9. FirstIn(A, 1, pos[1])
  BY <1>3, MemtableForward
<1>10. MergeOK' /\ \A x \in Visible : Ahead(x)' <=> x \in A
  <2> HIDE DEF pos, passed
  <2>1. A \subseteq IterEntries /\ \A x \in IterEntries : x \in A
    BY DEF A
  <2> QED BY <2>1, <1>4, <1>8, <1>9, ForwardLands DEF Children
<1> QED BY <1>10, VisibleParts DEF A

LEMMA SeekToLastLands ==
  ASSUME SourcesOK, MergeSeekToLast, UNCHANGED sourceVars, ~failed'
  PROVE  MergeOK' /\ \A x \in Visible : Behind(x)'
<1> DEFINE A == IterEntries
           pos == [c \in Children |-> LastOf(ChildEntries(c))]
           passed == PassedBackward(Len(files), pos[2])
<1>3. pos[1] = LastOf(memtable \cap A) /\ pos[2] = LastOf(Readable \cap A)
  BY ChildrenIn DEF Children
<1>4. Backward(pos, passed) /\ passed = {}
  BY DEF MergeSeekToLast, Backward
<1>6. Len(files) \in Int /\ \A f \in DOMAIN files : f <= Len(files)
  BY DEF SourcesOK
<1> HIDE DEF A
<1>8. LastIn(A, 2, pos[2])
  BY <1>3, <1>4, <1>6, FilesBackward
<1>9. LastIn(A, 1, pos[1])
  BY <1>3, MemtableBackward
<1>10. MergeOK' /\ \A x \in Visible : Behind(x)' <=> x \in A
  <2> HIDE DEF pos, passed
  <2>1. A \subseteq IterEntries /\ \A x \in IterEntries : x \in A
    BY DEF A
  <2> QED BY <2>1, <1>4, <1>8, <1>9, BackwardLands DEF Children
<1> QED BY <1>10, VisibleParts DEF A

\* A step forward: whichever way it went before, and whatever was written since.
LEMMA NextLands ==
  ASSUME SourcesOK, MergeOK, current \in Children, MergeNext, UNCHANGED sourceVars, ~failed'
  PROVE  MergeOK' /\ (\A x \in Visible : Ahead(x)' <=> Before(Key, x)) /\ (current' # 0 => Before(Key, Key'))
<1> DEFINE K == Key
           A == After(IterEntries, K)
           pos == [c \in Children |-> IF c = current \/ merging # "forward"
                                      THEN FirstOf(After(ChildEntries(c), K)) ELSE at[c]]
           from == IF current = 2 THEN FileOf(K) ELSE FindFile(K)
           passed == IF current = 2 \/ merging # "forward" THEN PassedForward(from, pos[2]) ELSE {}
<1>1. K \in IterEntries /\ K \in ChildEntries(current)
  BY DEF MergeOK, Children
<1>2. A \subseteq IterEntries /\ \A x \in IterEntries, y \in A : Before(y, x) => x \in A
  BY <1>1, EntryOrder DEF After
<1>3. \A c \in Children : c = current \/ merging # "forward" =>
          pos[c] = FirstOf(ChildEntries(c) \cap A)
  BY ChildrenIn
<1>4. Forward(pos, passed) /\ passed = {}
  BY DEF MergeNext, Forward
<1>5. ASSUME NEW c \in Children, ~(c = current \/ merging # "forward") PROVE FirstIn(A, c, pos[c])
  BY <1>5 DEF MergeOK, Children
<1>6. ASSUME current = 1 \/ merging # "forward" PROVE FirstIn(A, 1, pos[1])
  BY <1>3, <1>6, ChildrenIn, MemtableForward DEF Children
<1>7. ASSUME current = 2 \/ merging # "forward" PROVE FirstIn(A, 2, pos[2])
  <2>1. from \in Int /\ \A f \in DOMAIN files : \A x \in files[f] : x \in A => from <= f
    <3>1. CASE current = 2
      <4>1. K \in InFiles
        BY <1>1, <3>1, ChildrenIn, ReadableIn
      <4>2. FileOf(K) \in DOMAIN files /\ K \in files[FileOf(K)] /\ DOMAIN files \subseteq Nat
        BY <4>1, FileOfEntry DEF SourcesOK
      <4>3. ASSUME NEW f \in DOMAIN files, NEW x \in files[f], x \in A, f < FileOf(K) PROVE FALSE
        <5>1. Before(x, K) /\ Before(K, x) /\ x \in IterEntries
          BY <4>2, <4>3 DEF SourcesOK, After
        <5> QED BY <1>1, <5>1, EntryOrder
      <4> QED BY <3>1, <4>2, <4>3
    <3>2. CASE current # 2
      <4>1. \A x \in A : ~Before(x, K)
        BY <1>1, EntryOrder DEF After
      <4> QED BY <3>2, <4>1, FindFileFirst
    <3> QED BY <3>1, <3>2
  <2>2. pos[2] = FirstOf(Readable \cap A)
    BY <1>3, <1>7, ChildrenIn DEF Children
  <2>3. PassedForward(from, pos[2]) = {}
    BY <1>4, <1>7
  <2> HIDE DEF A, pos, from
  <2> QED BY <2>1, <2>2, <2>3, FilesForward
<1>8. \A c \in Children : FirstIn(A, c, pos[c])
  BY <1>5, <1>6, <1>7 DEF Children
<1>9. MergeOK' /\ (\A x \in Visible : Ahead(x)' <=> x \in A) /\ (current' # 0 => Key' \in A)
  <2> HIDE DEF A, pos, passed
  <2> QED BY <1>2, <1>4, <1>8, ForwardLands
<1> QED BY <1>9, VisibleParts DEF After

\* A step back, which may first have to seek forward.
LEMMA PrevLands ==
  ASSUME SourcesOK, MergeOK, current \in Children, MergePrev, UNCHANGED sourceVars, ~failed'
  PROVE  MergeOK' /\ (\A x \in Visible : Behind(x)' <=> Before(x, Key)) /\ (current' # 0 => Before(Key', Key))
<1> DEFINE K == Key
           A == Until(IterEntries, K)
           pos == [c \in Children |-> IF c = current \/ merging # "reverse"
                                      THEN LastOf(Until(ChildEntries(c), K)) ELSE at[c]]
           back == IF current = 2 THEN FileOf(K)
                   ELSE IF SoughtForward # NoEntry THEN FileOf(SoughtForward) ELSE Len(files)
           passed == IF current = 2 THEN PassedBackward(back, pos[2])
                     ELSE IF merging # "reverse"
                     THEN PassedForward(FindFile(K), SoughtForward) \cup PassedBackward(back, pos[2])
                     ELSE {}
<1>1. K \in IterEntries /\ K \in ChildEntries(current)
  BY DEF MergeOK, Children
<1>2. A \subseteq IterEntries /\ \A x \in IterEntries, y \in A : Before(x, y) => x \in A
  BY <1>1, EntryOrder DEF Until
<1>3. \A c \in Children : c = current \/ merging # "reverse" =>
          pos[c] = LastOf(ChildEntries(c) \cap A)
  BY ChildrenIn
<1>4. Backward(pos, passed) /\ passed = {}
  BY DEF MergePrev, Backward
<1>5. ASSUME NEW c \in Children, ~(c = current \/ merging # "reverse") PROVE LastIn(A, c, pos[c])
  BY <1>5 DEF MergeOK, Children
<1>6. ASSUME current = 1 \/ merging # "reverse" PROVE LastIn(A, 1, pos[1])
  BY <1>3, <1>6, ChildrenIn, MemtableBackward DEF Children
<1>7. ASSUME current = 2 \/ merging # "reverse" PROVE LastIn(A, 2, pos[2])
  <2>1. back \in Int /\ \A f \in DOMAIN files : \A x \in files[f] : x \in A => f <= back
    <3>1. CASE current = 2
      <4>1. K \in InFiles
        BY <1>1, <3>1, ChildrenIn, ReadableIn
      <4>2. FileOf(K) \in DOMAIN files /\ K \in files[FileOf(K)] /\ DOMAIN files \subseteq Nat
        BY <4>1, FileOfEntry DEF SourcesOK
      <4>3. ASSUME NEW f \in DOMAIN files, NEW x \in files[f], x \in A, FileOf(K) < f PROVE FALSE
        <5>1. Before(x, K) /\ Before(K, x) /\ x \in IterEntries
          BY <4>2, <4>3 DEF SourcesOK, Until
        <5> QED BY <1>1, <5>1, EntryOrder
      <4>4. back = FileOf(K)
        BY <3>1
      <4> HIDE DEF back, A, K
      <4> QED BY <4>2, <4>3, <4>4
    <3>2. CASE current # 2 /\ SoughtForward # NoEntry
      <4> DEFINE p == SoughtForward
      <4>1. p \in Readable /\ ~Before(p, K)
        <5>1. AtOrAfter(Readable, K) # {}
          BY <3>2 DEF SoughtForward, FirstOf
        <5>2. p \in AtOrAfter(Readable, K)
          BY <5>1, FirstExists, ReadableIn DEF SoughtForward, AtOrAfter
        <5> QED BY <5>2 DEF AtOrAfter
      <4>2. FileOf(p) \in DOMAIN files /\ p \in files[FileOf(p)] /\ DOMAIN files \subseteq Nat
            /\ p \in IterEntries
        BY <4>1, FileOfEntry, ReadableIn DEF SourcesOK
      <4> HIDE DEF p
      <4>3. ASSUME NEW f \in DOMAIN files, NEW x \in files[f], x \in A, FileOf(p) < f PROVE FALSE
        <5>1. Before(p, x) /\ Before(x, K) /\ x \in IterEntries
          BY <4>2, <4>3 DEF SourcesOK, Until
        <5> QED BY <1>1, <4>1, <4>2, <5>1, EntryOrder
      <4> USE DEF p
      <4> QED BY <3>2, <4>2, <4>3
    <3>3. CASE current # 2 /\ SoughtForward = NoEntry
      <4>1. Len(files) \in Int /\ \A f \in DOMAIN files : f <= Len(files)
        BY DEF SourcesOK
      <4>2. back = Len(files)
        BY <3>3
      <4> HIDE DEF back
      <4> QED BY <4>1, <4>2
    <3> QED BY <3>1, <3>2, <3>3
  <2>2. pos[2] = LastOf(Readable \cap A)
    BY <1>3, <1>7, ChildrenIn DEF Children
  <2>3. PassedBackward(back, pos[2]) = {}
    BY <1>4, <1>7
  <2> HIDE DEF A, pos, back
  <2> QED BY <2>1, <2>2, <2>3, FilesBackward
<1>8. \A c \in Children : LastIn(A, c, pos[c])
  BY <1>5, <1>6, <1>7 DEF Children
<1>9. MergeOK' /\ (\A x \in Visible : Behind(x)' <=> x \in A) /\ (current' # 0 => Key' \in A)
  <2> HIDE DEF A, pos, passed
  <2> QED BY <1>2, <1>4, <1>8, BackwardLands
<1> QED BY <1>9, VisibleParts DEF Until
-----------------------------------------------------------------------------
(* DBIter.  What a loop will still show, of what is ahead of or behind it.     *)

\* Going forward: the keys that are not skipped.
ToCome == {e \in View : Ahead(e) /\ (skipping => e.k > savedKey)}
\* Going back: what is behind, and the value that is kept.
Kept(e) == valueType = "value" /\ e.k = savedKey /\ e.s = savedValue
StillBehind == {e \in View : Behind(e) \/ Kept(e)}

\* A call is over: the iterator shows the wanted entry, and stands on it or, after a call
\* that went back, before all entries of its key.
RestOK ==
    loop = "none" =>
        \/ ~valid /\ want = 0
        \/ /\ valid /\ direction = "forward"
           /\ current # 0 /\ Key \in View /\ Key.k = want
        \/ /\ valid /\ direction = "reverse"
           /\ savedKey = want /\ \E c \in View : c.k = savedKey /\ c.s = savedValue
           /\ \A x \in Visible : Behind(x) <=> x.k < savedKey

\* What was passed of the key() is skipped; what is skipped ends with the saved key.
ForwardOK ==
    loop \in {"seek", "next"} =>
        /\ direction = "forward" /\ want = FirstOf(ToCome).k
        /\ \A x \in Visible : current # 0 /\ Before(x, Key) /\ x.k = Key.k
                              => skipping /\ x.k <= savedKey
        /\ \A x \in Visible : Ahead(x) /\ skipping => savedKey <= x.k

\* All that is before the key that was shown is behind.
ScanOK ==
    loop = "scan" =>
        /\ direction = "forward" /\ want = LastOf({e \in View : e.k < savedKey}).k
        /\ \A x \in Visible : x.k < savedKey => Behind(x)

\* The value that is kept is the first entry that is not behind.
BackOK ==
    loop = "prev" =>
        /\ direction = "reverse" /\ want = LastOf(StillBehind).k
        /\ valueType = "value" =>
             \E c \in Visible : /\ c.t = "value" /\ Kept(c)
                                /\ \A x \in Visible : IF Behind(x) THEN Before(x, c)
                                                      ELSE x = c \/ Before(c, x)

IterTypes ==
    /\ valid \in BOOLEAN /\ skipping \in BOOLEAN /\ savedKey \in Int
    /\ loop \in {"none", "seek", "next", "scan", "prev"} /\ valueType \in Types
    /\ direction \in {"forward", "reverse"}

DBIterOK == IterTypes /\ RestOK /\ ForwardOK /\ ScanOK /\ BackOK

\* After an error nothing is promised but that the sources are what they were.
IterInv == SourcesOK /\ failed \in BOOLEAN /\ (~failed => MergeOK /\ DBIterOK)

LEMMA VisibleOrder ==
  ASSUME SourcesOK
  PROVE  /\ \A x \in Visible : /\ x \in IterEntries /\ x \in All /\ x.k \in Int /\ x.k # 0
                               /\ x.s \in Nat /\ x.s <= Sequence /\ x.t \in Types
         /\ View \subseteq Visible /\ View \subseteq All
         /\ \A e \in View : e.t = "value" /\ \A x \in Visible : x.k = e.k => x.s <= e.s
         /\ \A x, y \in Visible : x.s = y.s => x = y
<1>1. Visible \subseteq All /\ Visible \subseteq IterEntries
  BY VisibleParts
<1> QED BY <1>1, EntryOrder DEF Visible, View, IterEntries, SourcesOK

LEMMA KeyOrder ==
  ASSUME SourcesOK, MergeOK, current # 0
  PROVE  /\ current \in Children /\ Key \in IterEntries /\ Key \in All
         /\ Key.k \in Int /\ Key.k # 0 /\ Key.s \in Nat /\ Key.t \in Types
         /\ Key.s <= Sequence => Key \in Visible
         /\ \A x \in Visible : x = Key \/ Before(x, Key) \/ Before(Key, x)
<1>1. current \in Children /\ Key \in IterEntries /\ Key \in All
  BY VisibleParts DEF MergeOK
<1>2. Key.k \in Int /\ Key.k # 0 /\ Key.s \in Nat /\ Key.t \in Types
  BY <1>1, EntryOrder DEF IterEntries
<1>3. Key.s <= Sequence => Key \in Visible
  BY <1>1 DEF Visible, All, InFiles
<1>4. \A x \in Visible : x = Key \/ Before(x, Key) \/ Before(Key, x)
  BY <1>1, VisibleOrder, EntriesDiffer
<1> QED BY <1>1, <1>2, <1>3, <1>4

LEMMA ErrorsStay ==
  ASSUME failed \in BOOLEAN,
         \/ MergeNext \/ MergePrev \/ MergeSeekToFirst \/ MergeSeekToLast
         \/ \E k \in UserKeys : MergeSeek([k |-> k, s |-> Sequence, t |-> "value"])
  PROVE  failed' \in BOOLEAN /\ (~failed' => ~failed)
BY DEF MergeNext, MergePrev, MergeSeekToFirst, MergeSeekToLast, MergeSeek, Forward, Backward

LEMMA SeekKeeps ==
  ASSUME IterInv, NEW k \in UserKeys, Seek(k)
  PROVE  IterInv'
<1>1. /\ MergeSeek([k |-> k, s |-> Sequence, t |-> "value"])
      /\ direction' = "forward" /\ loop' = "seek" /\ skipping' = FALSE
      /\ savedKey' = 0 /\ want' = Wanted({e \in View : e.k >= k})
      /\ UNCHANGED sourceVars /\ UNCHANGED <<valid, valueType>>
  BY DEF Seek
<1>2. failed' \in BOOLEAN /\ (~failed' => ~failed) /\ SourcesOK'
  BY <1>1, ErrorsStay, SameSources DEF IterInv
<1>3. ASSUME ~failed' PROVE MergeOK' /\ DBIterOK'
  <2>1. MergeOK' /\ (\A x \in Visible : Ahead(x)' <=> x.k >= k) /\ (current' # 0 => Key'.k >= k)
    BY <1>1, <1>3, SeekLands DEF IterInv
  <2>2. Visible' = Visible /\ View' = View
    BY <1>1, SameSources
  <2>3. ToCome' = {e \in View : e.k >= k}
    BY <1>1, <2>1, <2>2, VisibleOrder DEF ToCome, IterInv
  <2>4. ASSUME NEW x \in Visible, current' # 0, Before(x, Key'), x.k = Key'.k PROVE FALSE
    BY <2>1, <2>4 DEF Ahead
  <2>5. ForwardOK'
    BY <1>1, <2>2, <2>3, <2>4 DEF ForwardOK, Wanted
  <2>6. IterTypes'
    <3>1. IterTypes
      BY <1>2, <1>3 DEF IterInv, DBIterOK
    <3>2. savedKey' \in Int
      BY <1>1
    <3> QED BY <1>1, <3>1, <3>2, Zenon DEF IterTypes
  <2>7. RestOK' /\ ScanOK' /\ BackOK'
    BY <1>1 DEF RestOK, ScanOK, BackOK
  <2> QED BY <2>1, <2>5, <2>6, <2>7 DEF DBIterOK
<1> QED BY <1>2, <1>3 DEF IterInv
LEMMA SeekToFirstKeeps ==
  ASSUME IterInv, SeekToFirst
  PROVE  IterInv'
<1>1. /\ MergeSeekToFirst
      /\ direction' = "forward" /\ loop' = "seek" /\ skipping' = FALSE
      /\ savedKey' = 0 /\ want' = Wanted(View)
      /\ UNCHANGED sourceVars /\ UNCHANGED <<valid, valueType>>
  BY DEF SeekToFirst
<1>2. failed' \in BOOLEAN /\ (~failed' => ~failed) /\ SourcesOK'
  BY <1>1, ErrorsStay, SameSources DEF IterInv
<1>3. ASSUME ~failed' PROVE MergeOK' /\ DBIterOK'
  <2>1. MergeOK' /\ (\A x \in Visible : Ahead(x)')
    BY <1>1, <1>3, SeekToFirstLands DEF IterInv
  <2>2. Visible' = Visible /\ View' = View
    BY <1>1, SameSources
  <2>3. ToCome' = View
    BY <1>1, <2>1, <2>2, VisibleOrder DEF ToCome, IterInv
  <2>4. ASSUME NEW x \in Visible, current' # 0, Before(x, Key') PROVE FALSE
    BY <2>1, <2>4 DEF Ahead
  <2>5. ForwardOK'
    BY <1>1, <2>2, <2>3, <2>4 DEF ForwardOK, Wanted
  <2>6. IterTypes'
    <3>1. IterTypes
      BY <1>2, <1>3 DEF IterInv, DBIterOK
    <3>2. savedKey' \in Int
      BY <1>1
    <3> QED BY <1>1, <3>1, <3>2, Zenon DEF IterTypes
  <2>7. RestOK' /\ ScanOK' /\ BackOK'
    BY <1>1 DEF RestOK, ScanOK, BackOK
  <2> QED BY <2>1, <2>5, <2>6, <2>7 DEF DBIterOK
<1> QED BY <1>2, <1>3 DEF IterInv

LEMMA SeekToLastKeeps ==
  ASSUME IterInv, SeekToLast
  PROVE  IterInv'
<1>1. /\ MergeSeekToLast
      /\ direction' = "reverse" /\ loop' = "prev" /\ valueType' = "deletion"
      /\ want' = LastOf(View).k
      /\ UNCHANGED sourceVars /\ UNCHANGED <<valid, savedKey, skipping>>
  BY DEF SeekToLast
<1>2. failed' \in BOOLEAN /\ (~failed' => ~failed) /\ SourcesOK'
  BY <1>1, ErrorsStay, SameSources DEF IterInv
<1>3. ASSUME ~failed' PROVE MergeOK' /\ DBIterOK'
  <2>1. MergeOK' /\ (\A x \in Visible : Behind(x)')
    BY <1>1, <1>3, SeekToLastLands DEF IterInv
  <2>2. Visible' = Visible /\ View' = View
    BY <1>1, SameSources
  <2>3. StillBehind' = View
    BY <2>1, <2>2, VisibleOrder DEF StillBehind, IterInv
  <2>4. BackOK'
    BY <1>1, <2>3 DEF BackOK
  <2>5. IterTypes'
    <3>1. IterTypes
      BY <1>2, <1>3 DEF IterInv, DBIterOK
    <3> QED BY <1>1, <3>1, Zenon DEF IterTypes, Types
  <2>6. RestOK' /\ ScanOK' /\ ForwardOK'
    BY <1>1 DEF RestOK, ScanOK, ForwardOK
  <2> QED BY <2>1, <2>4, <2>5, <2>6 DEF DBIterOK
<1> QED BY <1>2, <1>3 DEF IterInv

LEMMA NextKeeps ==
  ASSUME IterInv, Next
  PROVE  IterInv'
<1>1. /\ loop = "none" /\ valid
      /\ direction' = "forward" /\ loop' = "next" /\ skipping' = TRUE
      /\ want' = Wanted({e \in View : e.k > want})
      /\ UNCHANGED sourceVars /\ UNCHANGED <<valid, valueType>>
      /\ MergeNext \/ MergeSeekToFirst
  BY DEF Next, IterIdle
<1>2. failed' \in BOOLEAN /\ (~failed' => ~failed) /\ SourcesOK'
  BY <1>1, ErrorsStay, SameSources DEF IterInv
<1>3. ASSUME ~failed' PROVE MergeOK' /\ DBIterOK'
  <2>0. SourcesOK /\ MergeOK /\ IterTypes /\ RestOK
    BY <1>2, <1>3 DEF IterInv, DBIterOK
  <2>1. Visible' = Visible /\ View' = View
    BY <1>1, SameSources
  <2>2. /\ MergeOK' /\ savedKey' = want /\ want \in Int
        /\ \A x \in Visible : Ahead(x)' => want <= x.k
        /\ \A x \in Visible : ~Ahead(x)' /\ current' # 0 /\ x.k = Key'.k => x.k <= want
        /\ \A x \in Visible : want < x.k => Ahead(x)'
    <3>1. CASE direction = "forward"
      <4>1. current # 0 /\ Key \in View /\ Key.k = want /\ MergeNext /\ savedKey' = Key.k
        BY <1>1, <2>0, <3>1 DEF RestOK, Next
      <4>2. current \in Children /\ Key \in IterEntries /\ Key.k \in Int
        BY <2>0, <4>1, KeyOrder
      <4>3. MergeOK' /\ (\A x \in Visible : Ahead(x)' <=> Before(Key, x))
        BY <1>1, <1>3, <2>0, <4>1, <4>2, NextLands
      <4>4. \A x \in Visible : /\ Before(Key, x) => Key.k <= x.k
                               /\ ~Before(Key, x) => x.k <= Key.k
        BY <2>0, <4>2, VisibleOrder DEF Before
      <4> QED BY <2>0, <4>1, <4>2, <4>3, <4>4, VisibleOrder
    <3>2. CASE direction = "reverse"
      <4>1. /\ savedKey = want /\ savedKey' = savedKey /\ savedKey \in Int
            /\ \A x \in Visible : Behind(x) <=> x.k < savedKey
        BY <1>1, <2>0, <3>2 DEF RestOK, Next, IterTypes
      <4>2. MergeOK' /\ \A x \in Visible : Ahead(x)' <=> savedKey <= x.k
        <5>1. CASE current # 0
          <6>1. MergeNext
            BY <3>2, <5>1 DEF Next, IterValid
          <6>2. current \in Children
            BY <2>0, <5>1, KeyOrder
          <6>3. MergeOK' /\ \A x \in Visible : Ahead(x)' <=> Before(Key, x)
            BY <1>1, <1>3, <2>0, <6>1, <6>2, NextLands
          <6>4. \A x \in Visible : Before(Key, x) <=> ~Behind(x)
            BY <5>1 DEF Behind
          <6> QED BY <2>0, <4>1, <6>3, <6>4, VisibleOrder
        <5>2. CASE current = 0
          <6>1. MergeSeekToFirst
            BY <3>2, <5>2 DEF Next, IterValid
          <6>2. MergeOK' /\ \A x \in Visible : Ahead(x)'
            BY <1>1, <1>3, <2>0, <6>1, SeekToFirstLands
          <6> QED BY <2>0, <4>1, <5>2, <6>2, VisibleOrder DEF Behind
        <5> QED BY <5>1, <5>2
      <4> QED BY <2>0, <4>1, <4>2, VisibleOrder
    <3> QED BY <2>0, <3>1, <3>2 DEF IterTypes
  <2>3. ToCome' = {e \in View : e.k > want}
    BY <1>1, <2>0, <2>1, <2>2, VisibleOrder DEF ToCome
  <2>4. ASSUME NEW x \in Visible, current' # 0, Before(x, Key'), x.k = Key'.k
        PROVE  skipping' /\ x.k <= savedKey'
    BY <1>1, <2>2, <2>4 DEF Ahead
  <2>5. ForwardOK'
    BY <1>1, <2>1, <2>2, <2>3, <2>4 DEF ForwardOK, Wanted
  <2>6. IterTypes'
    <3>1. savedKey' \in Int
      BY <2>2
    <3> QED BY <1>1, <2>0, <3>1, Zenon DEF IterTypes
  <2>7. RestOK' /\ ScanOK' /\ BackOK'
    BY <1>1 DEF RestOK, ScanOK, BackOK
  <2> QED BY <2>2, <2>5, <2>6, <2>7 DEF DBIterOK
<1> QED BY <1>2, <1>3 DEF IterInv
LEMMA PrevKeeps ==
  ASSUME IterInv, Prev
  PROVE  IterInv'
<1>1. /\ loop = "none" /\ valid
      /\ want' = LastOf({e \in View : e.k < want}).k
      /\ UNCHANGED sourceVars /\ UNCHANGED <<direction, valid, skipping>>
  BY DEF Prev, IterIdle
<1>2. SourcesOK' /\ Visible' = Visible /\ View' = View
  BY <1>1, SameSources DEF IterInv
<1>3. CASE direction = "forward"
  <2>1. MergePrev /\ savedKey' = Key.k /\ loop' = "scan" /\ valueType' = valueType
    BY <1>3 DEF Prev
  <2>2. failed' \in BOOLEAN /\ (~failed' => ~failed)
    BY <2>1, ErrorsStay DEF IterInv
  <2>3. ASSUME ~failed' PROVE MergeOK' /\ DBIterOK'
    <3>0. SourcesOK /\ MergeOK /\ IterTypes /\ RestOK
      BY <2>2, <2>3 DEF IterInv, DBIterOK
    <3>1. current # 0 /\ Key \in View /\ Key.k = want
      BY <1>1, <1>3, <3>0 DEF RestOK
    <3>2. current \in Children /\ Key.k \in Int /\ Key.s \in Nat
      BY <3>0, <3>1, KeyOrder
    <3>3. MergeOK' /\ \A x \in Visible : Behind(x)' <=> Before(x, Key)
      BY <1>1, <2>1, <2>3, <3>0, <3>2, PrevLands
    <3>4. \A x \in Visible : x.k < Key.k => Before(x, Key)
      BY DEF Before
    <3>5. ScanOK'
      BY <1>1, <1>2, <1>3, <2>1, <3>1, <3>3, <3>4 DEF ScanOK
    <3>6. IterTypes'
      <4>1. savedKey' \in Int
        BY <2>1, <3>2
      <4> QED BY <1>1, <2>1, <3>0, <4>1, Zenon DEF IterTypes
    <3>7. RestOK' /\ ForwardOK' /\ BackOK'
      BY <2>1 DEF RestOK, ForwardOK, BackOK
    <3> QED BY <3>3, <3>5, <3>6, <3>7 DEF DBIterOK
  <2> QED BY <1>2, <2>2, <2>3 DEF IterInv
<1>4. CASE direction # "forward"
  <2>1. /\ loop' = "prev" /\ valueType' = "deletion" /\ UNCHANGED mergeVars
        /\ savedKey' = savedKey
    BY <1>4 DEF Prev
  <2>2. at' = at /\ failed' = failed /\ current' = current /\ merging' = merging
    BY <2>1 DEF mergeVars
  <2>3. ASSUME ~failed' PROVE MergeOK' /\ DBIterOK'
    <3>0. SourcesOK /\ MergeOK /\ IterTypes /\ RestOK
      BY <2>2, <2>3 DEF IterInv, DBIterOK
    <3>1. savedKey = want /\ direction = "reverse" /\ \A x \in Visible : Behind(x) <=> x.k < savedKey
      BY <1>1, <1>4, <3>0 DEF RestOK
    <3>2. MergeOK' /\ \A x : Behind(x)' <=> Behind(x)
      BY <1>1, <2>2, <3>0, SameSources DEF MergeOK, Behind, Key, FirstIn, LastIn
    <3>3. StillBehind' = {e \in View : e.k < want}
      BY <1>2, <2>1, <3>0, <3>1, <3>2, VisibleOrder DEF StillBehind, Kept
    <3>4. BackOK'
      BY <1>1, <2>1, <3>1, <3>3 DEF BackOK
    <3>5. IterTypes'
      BY <1>1, <2>1, <3>0, Zenon DEF IterTypes, Types
    <3>6. RestOK' /\ ForwardOK' /\ ScanOK'
      BY <2>1 DEF RestOK, ForwardOK, ScanOK
    <3> QED BY <3>2, <3>4, <3>5, <3>6 DEF DBIterOK
  <2> QED BY <1>2, <2>2, <2>3 DEF IterInv
<1> QED BY <1>3, <1>4

\* Steps that leave sources and children alone leave what is said of them.
LEMMA ChildrenRest ==
  ASSUME IterInv, UNCHANGED sourceVars, UNCHANGED mergeVars
  PROVE  /\ SourcesOK' /\ failed' \in BOOLEAN /\ (MergeOK <=> MergeOK') /\ failed' = failed
         /\ Visible' = Visible /\ View' = View /\ current' = current /\ Key' = Key
         /\ \A x : (Behind(x)' <=> Behind(x)) /\ (Ahead(x)' <=> Ahead(x))
<1>1. at' = at /\ failed' = failed /\ current' = current /\ merging' = merging
  BY DEF mergeVars
<1>2. Key' = Key
  BY <1>1 DEF Key
<1>3. MergeOK <=> MergeOK'
  <2>1. \A A, c, p : (FirstIn(A, c, p)' <=> FirstIn(A, c, p)) /\ (LastIn(A, c, p)' <=> LastIn(A, c, p))
    BY DEF FirstIn, LastIn, sourceVars, ChildEntries, VisibleIn, Readable, InFiles
  <2> QED BY <1>1, <1>2, <2>1, SameSources DEF MergeOK, FirstIn, LastIn
<1> QED BY <1>1, <1>2, <1>3, SameSources DEF IterInv, Behind, Ahead

LEMMA OutOfEntriesKeeps ==
  ASSUME IterInv, OutOfEntries
  PROVE  IterInv'
<1>1. /\ loop \in {"seek", "next"} /\ current = 0
      /\ loop' = "none" /\ valid' = FALSE /\ savedKey' = 0
      /\ UNCHANGED sourceVars /\ UNCHANGED mergeVars
      /\ UNCHANGED <<direction, savedValue, skipping, valueType, want>>
  BY DEF OutOfEntries, Ends, IterValid
<1>2. /\ SourcesOK' /\ failed' \in BOOLEAN /\ (MergeOK <=> MergeOK') /\ failed' = failed
  BY <1>1, ChildrenRest
<1>3. ASSUME ~failed' PROVE MergeOK' /\ DBIterOK'
  <2>0. MergeOK /\ IterTypes /\ ForwardOK
    BY <1>2, <1>3 DEF IterInv, DBIterOK
  <2>1. ToCome = {}
    BY <1>1 DEF ToCome, Ahead
  <2>2. want = 0
    BY <1>1, <2>0, <2>1 DEF ForwardOK, FirstOf, NoEntry
  <2>3. IterTypes'
    <3>1. savedKey' \in Int
      BY <1>1
    <3> QED BY <1>1, <2>0, <3>1, Zenon DEF IterTypes
  <2>4. RestOK' /\ ForwardOK' /\ ScanOK' /\ BackOK'
    BY <1>1, <2>2 DEF RestOK, ForwardOK, ScanOK, BackOK
  <2> QED BY <1>2, <2>0, <2>3, <2>4 DEF DBIterOK
<1> QED BY <1>2, <1>3 DEF IterInv

LEMMA FindNextKeeps ==
  ASSUME IterInv, FindNextUserEntry
  PROVE  IterInv'
<1>1. /\ loop \in {"seek", "next"} /\ current # 0
      /\ UNCHANGED sourceVars /\ UNCHANGED <<direction, savedValue, valueType, want>>
  BY DEF FindNextUserEntry, IterValid
<1>2. SourcesOK' /\ Visible' = Visible /\ View' = View
  BY <1>1, SameSources DEF IterInv
<1>3. CASE Shows
  <2>1. /\ loop' = "none" /\ valid' = TRUE /\ savedKey' = 0 /\ skipping' = skipping
        /\ UNCHANGED mergeVars
    BY <1>3 DEF FindNextUserEntry, Ends
  <2>2. failed' = failed /\ failed' \in BOOLEAN /\ (MergeOK <=> MergeOK') /\ current' = current /\ Key' = Key
    BY <1>1, <2>1, ChildrenRest
  <2>3. ASSUME ~failed' PROVE MergeOK' /\ DBIterOK'
    <3>0. SourcesOK /\ MergeOK /\ IterTypes /\ ForwardOK
      BY <2>2, <2>3 DEF IterInv, DBIterOK
    <3>1. /\ Key \in Visible /\ Key.k \in Int /\ Key.s \in Nat /\ Key.t = "value"
          /\ skipping => Key.k > savedKey
      BY <1>1, <1>3, <3>0, KeyOrder DEF Shows
    <3>2. ASSUME NEW x \in Visible, x.k = Key.k PROVE x.s <= Key.s
      <4>1. ~Before(x, Key)
        BY <1>1, <3>0, <3>1, <3>2 DEF ForwardOK, IterTypes
      <4> QED BY <3>0, <3>1, <3>2, <4>1, VisibleOrder DEF Before
    <3>3. Key \in View
      BY <3>1, <3>2 DEF View
    <3>4. Key \in ToCome
      BY <1>1, <3>0, <3>1, <3>3, KeyOrder, EntryOrder DEF ToCome, Ahead
    <3>5. \A x \in ToCome : ~Before(x, Key)
      BY DEF ToCome, Ahead
    <3>6. FirstOf(ToCome) = Key
      BY <3>0, <3>4, <3>5, FirstIs, VisibleOrder DEF ToCome
    <3>7. RestOK'
      BY <1>1, <1>2, <2>1, <2>2, <3>0, <3>3, <3>6 DEF RestOK, ForwardOK
    <3>8. IterTypes'
      <4>1. savedKey' \in Int
        BY <2>1
      <4> QED BY <1>1, <2>1, <3>0, <4>1, Zenon DEF IterTypes
    <3>9. ForwardOK' /\ ScanOK' /\ BackOK'
      BY <2>1 DEF ForwardOK, ScanOK, BackOK
    <3> QED BY <2>2, <3>0, <3>7, <3>8, <3>9 DEF DBIterOK
  <2> QED BY <1>2, <2>2, <2>3 DEF IterInv
<1>4. CASE ~Shows
  <2>1. /\ MergeNext /\ loop' = loop /\ valid' = valid
        /\ savedKey' = (IF Hides THEN Key.k ELSE savedKey)
        /\ skipping' = (skipping \/ Hides)
    BY <1>4 DEF FindNextUserEntry
  <2>2. failed' \in BOOLEAN /\ (~failed' => ~failed)
    BY <2>1, ErrorsStay DEF IterInv
  <2>3. ASSUME ~failed' PROVE MergeOK' /\ DBIterOK'
    <3>0. SourcesOK /\ MergeOK /\ IterTypes /\ ForwardOK
      BY <2>2, <2>3 DEF IterInv, DBIterOK
    <3>1. current \in Children /\ Key \in IterEntries /\ Key.k \in Int /\ Key.s \in Nat
          /\ Key.t \in Types /\ (Key.s <= Sequence => Key \in Visible)
          /\ savedKey \in Int /\ Sequence \in Nat
      BY <1>1, <3>0, KeyOrder, IteratorConstants DEF IterTypes
    <3>2. MergeOK' /\ (\A x \in Visible : Ahead(x)' <=> Before(Key, x))
          /\ (current' # 0 => Before(Key, Key'))
      BY <1>1, <2>1, <2>3, <3>0, <3>1, NextLands
    <3>3. \A x \in Visible : Before(Key, x) <=> Ahead(x) /\ x # Key
      BY <1>1, <3>0, <3>1, KeyOrder, VisibleOrder, EntryOrder DEF Ahead
    <3>4. \A x \in Visible : Before(Key, x) => Key.k <= x.k /\ (x.k = Key.k => x.s < Key.s)
      BY <3>0, <3>1, VisibleOrder DEF Before
    <3>5. ToCome' = ToCome
      <4>1. ASSUME NEW e \in View PROVE e \in ToCome <=> Ahead(e)' /\ (skipping' => e.k > savedKey')
        <5>0. e \in Visible /\ e.k \in Int /\ e.s \in Nat /\ e.s <= Sequence /\ e.t = "value"
              /\ \A x \in Visible : x.k = e.k => x.s <= e.s
          BY <3>0, VisibleOrder
        <5>1. CASE Hides
          <6>1. Key \in Visible /\ Key.t = "deletion" /\ savedKey' = Key.k /\ skipping' = TRUE
            BY <2>1, <3>1, <5>1 DEF Hides
          <6>2. e # Key
            BY <5>0, <6>1
          <6>3. Ahead(Key)
            BY <1>1, <3>1, EntryOrder DEF Ahead
          <6>4. skipping => savedKey <= Key.k
            BY <1>1, <3>0, <6>1, <6>3 DEF ForwardOK
          <6>5. Before(Key, e) => Key.k < e.k
            BY <3>1, <3>4, <5>0, <6>1
          <6>6. Before(Key, e) => (skipping => e.k > savedKey)
            BY <3>1, <5>0, <6>4, <6>5
          <6>7. Ahead(e) <=> Before(Key, e)
            BY <3>3, <5>0, <6>2
          <6>8. Ahead(e)' <=> Before(Key, e)
            BY <3>2, <5>0
          <6> QED BY <6>1, <6>5, <6>6, <6>7, <6>8 DEF ToCome
        <5>2. CASE ~Hides
          <6>1. savedKey' = savedKey /\ (skipping' <=> skipping)
            BY <2>1, <3>0, <5>2 DEF IterTypes
          <6>2. e = Key => skipping /\ ~(e.k > savedKey)
            BY <1>4, <5>0 DEF Shows
          <6>3. Ahead(e)' <=> Ahead(e) /\ e # Key
            BY <3>2, <3>3, <5>0
          <6> QED BY <6>1, <6>2, <6>3 DEF ToCome
        <5> QED BY <5>1, <5>2
      <4> QED BY <1>2, <4>1 DEF ToCome
    <3>6. ASSUME NEW x \in Visible, current' # 0, Before(x, Key'), x.k = Key'.k
          PROVE  skipping' /\ x.k <= savedKey'
      <4>0. Key'.k \in Int /\ Key' \in IterEntries /\ x \in IterEntries /\ x.k \in Int
        <5>1. Key' \in IterEntries
          BY <3>2, <3>6 DEF MergeOK
        <5> QED BY <3>0, <5>1, EntryOrder, VisibleOrder
      <4>1. ~Before(Key, x)
        BY <3>2, <3>6 DEF Ahead
      <4>2. x.k = Key.k
        <5>1. Key.k <= Key'.k
          BY <3>1, <3>2, <3>6, <4>0 DEF Before
        <5>2. x.k <= Key.k
          BY <3>1, <4>0, <4>1 DEF Before
        <5> QED BY <3>1, <3>6, <4>0, <5>1, <5>2
      <4>3. CASE x = Key
        <5>1. Key.s <= Sequence
          BY <4>3, <3>0, VisibleOrder
        <5>2. CASE Hides
          <6>1. skipping' /\ savedKey' = Key.k
            BY <2>1, <5>2
          <6> QED BY <3>1, <4>3, <6>1
        <5>3. CASE ~Hides
          <6>1. Key.t = "value"
            BY <3>1, <5>1, <5>3 DEF Hides, Types
          <6>2. skipping /\ ~(Key.k > savedKey)
            BY <1>4, <5>1, <6>1 DEF Shows
          <6>3. skipping' /\ savedKey' = savedKey
            BY <2>1, <5>3, <6>2
          <6> QED BY <3>1, <4>3, <6>2, <6>3
        <5> QED BY <5>2, <5>3
      <4>4. CASE x # Key
        <5>1. Before(x, Key)
          BY <1>1, <3>0, <4>1, <4>4, KeyOrder
        <5>2. skipping /\ x.k <= savedKey
          BY <1>1, <3>0, <4>2, <5>1 DEF ForwardOK
        <5>3. skipping' /\ (savedKey' = savedKey \/ savedKey' = Key.k)
          BY <2>1, <5>2
        <5> QED BY <3>1, <4>0, <4>2, <5>2, <5>3
      <4> QED BY <4>3, <4>4
    <3>7. ASSUME NEW x \in Visible, Ahead(x)', skipping' PROVE savedKey' <= x.k
      <4>1. Before(Key, x) /\ x.k \in Int /\ Key.k <= x.k /\ Ahead(x)
        BY <3>0, <3>2, <3>3, <3>4, <3>7, VisibleOrder
      <4>2. CASE Hides
        BY <2>1, <4>1, <4>2
      <4>3. CASE ~Hides
        BY <1>1, <2>1, <3>0, <3>7, <4>1, <4>3 DEF ForwardOK
      <4> QED BY <4>2, <4>3
    <3>8. ForwardOK'
      BY <1>1, <1>2, <2>1, <3>0, <3>5, <3>6, <3>7 DEF ForwardOK
    <3>9. IterTypes'
      <4>1. savedKey' \in Int
        BY <2>1, <3>1
      <4>2. skipping' \in BOOLEAN
        BY <2>1, <3>0, Zenon DEF IterTypes, Hides
      <4> QED BY <1>1, <2>1, <3>0, <4>1, <4>2, Zenon DEF IterTypes
    <3>10. RestOK' /\ ScanOK' /\ BackOK'
      BY <1>1, <2>1 DEF RestOK, ScanOK, BackOK
    <3> QED BY <3>2, <3>8, <3>9, <3>10 DEF DBIterOK
  <2> QED BY <1>2, <2>2, <2>3 DEF IterInv
<1> QED BY <1>3, <1>4
LEMMA ScanBackKeeps ==
  ASSUME IterInv, ScanBack
  PROVE  IterInv'
<1>1. /\ loop = "scan" /\ UNCHANGED sourceVars /\ UNCHANGED <<skipping, want>>
  BY DEF ScanBack
<1>2. SourcesOK' /\ Visible' = Visible /\ View' = View
  BY <1>1, SameSources DEF IterInv
<1>3. CASE current = 0
  <2>1. /\ loop' = "none" /\ valid' = FALSE /\ savedKey' = 0
        /\ UNCHANGED mergeVars /\ UNCHANGED <<direction, valueType>>
    BY <1>3 DEF ScanBack, Ends, IterValid
  <2>2. failed' = failed /\ failed' \in BOOLEAN /\ (MergeOK <=> MergeOK')
    BY <1>1, <2>1, ChildrenRest
  <2>3. ASSUME ~failed' PROVE MergeOK' /\ DBIterOK'
    <3>0. SourcesOK /\ MergeOK /\ IterTypes /\ ScanOK
      BY <2>2, <2>3 DEF IterInv, DBIterOK
    <3>1. {e \in View : e.k < savedKey} = {}
      BY <1>1, <1>3, <3>0, VisibleOrder DEF ScanOK, Behind
    <3>2. want = 0
      BY <1>1, <3>0, <3>1 DEF ScanOK, LastOf, NoEntry
    <3>3. IterTypes'
      <4>1. savedKey' \in Int
        BY <2>1
      <4> QED BY <1>1, <2>1, <3>0, <4>1, Zenon DEF IterTypes
    <3>4. RestOK' /\ ForwardOK' /\ ScanOK' /\ BackOK'
      BY <1>1, <2>1, <3>2 DEF RestOK, ForwardOK, ScanOK, BackOK
    <3> QED BY <2>2, <3>0, <3>3, <3>4 DEF DBIterOK
  <2> QED BY <1>2, <2>2, <2>3 DEF IterInv
<1>4. CASE current # 0 /\ Key.k < savedKey
  <2>1. /\ loop' = "prev" /\ direction' = "reverse" /\ valueType' = "deletion"
        /\ valid' = valid /\ savedKey' = savedKey /\ UNCHANGED mergeVars
    BY <1>4 DEF ScanBack, IterValid
  <2>2. /\ failed' = failed /\ failed' \in BOOLEAN /\ (MergeOK <=> MergeOK')
        /\ \A x : Behind(x)' <=> Behind(x)
    BY <1>1, <2>1, ChildrenRest
  <2>3. ASSUME ~failed' PROVE MergeOK' /\ DBIterOK'
    <3>0. SourcesOK /\ MergeOK /\ IterTypes /\ ScanOK
      BY <2>2, <2>3 DEF IterInv, DBIterOK
    <3>1. \A x \in Visible : Behind(x) => x.k < savedKey
      <4>1. Key.k \in Int /\ savedKey \in Int
        BY <1>4, <3>0, KeyOrder DEF IterTypes
      <4> QED BY <1>4, <3>0, <4>1, VisibleOrder DEF Behind, Before
    <3>2. StillBehind' = {e \in View : e.k < savedKey}
      BY <1>1, <1>2, <2>1, <2>2, <3>0, <3>1, VisibleOrder DEF StillBehind, Kept, ScanOK
    <3>3. BackOK'
      BY <1>1, <2>1, <3>0, <3>2 DEF BackOK, ScanOK
    <3>4. IterTypes'
      BY <1>1, <2>1, <3>0, Zenon DEF IterTypes, Types
    <3>5. RestOK' /\ ForwardOK' /\ ScanOK'
      BY <2>1 DEF RestOK, ForwardOK, ScanOK
    <3> QED BY <2>2, <3>0, <3>3, <3>4, <3>5 DEF DBIterOK
  <2> QED BY <1>2, <2>2, <2>3 DEF IterInv
<1>5. CASE current # 0 /\ ~(Key.k < savedKey)
  <2>1. MergePrev /\ UNCHANGED <<direction, loop, valueType, valid, savedKey>>
    BY <1>5 DEF ScanBack, IterValid
  <2>2. failed' \in BOOLEAN /\ (~failed' => ~failed)
    BY <2>1, ErrorsStay DEF IterInv
  <2>3. ASSUME ~failed' PROVE MergeOK' /\ DBIterOK'
    <3>0. SourcesOK /\ MergeOK /\ IterTypes /\ ScanOK
      BY <2>2, <2>3 DEF IterInv, DBIterOK
    <3>1. current \in Children /\ Key.k \in Int /\ savedKey \in Int
      BY <1>5, <3>0, KeyOrder DEF IterTypes
    <3>2. MergeOK' /\ \A x \in Visible : Behind(x)' <=> Before(x, Key)
      BY <1>1, <2>1, <2>3, <3>0, <3>1, PrevLands
    <3>3. \A x \in Visible : x.k < savedKey => Before(x, Key)
      BY <1>5, <3>0, <3>1, VisibleOrder DEF Before
    <3>4. ScanOK'
      BY <1>1, <1>2, <2>1, <3>0, <3>2, <3>3 DEF ScanOK
    <3>5. IterTypes'
      BY <1>1, <2>1, <3>0, Zenon DEF IterTypes
    <3>6. RestOK' /\ ForwardOK' /\ BackOK'
      BY <1>1, <2>1 DEF RestOK, ForwardOK, BackOK
    <3> QED BY <3>2, <3>4, <3>5, <3>6 DEF DBIterOK
  <2> QED BY <1>2, <2>2, <2>3 DEF IterInv
<1> QED BY <1>3, <1>4, <1>5

\* The search back ends where all that is behind has smaller keys than the value it kept.
LEMMA FindPrevEnds ==
  ASSUME IterInv, FindPrevUserEntry,
         current = 0 \/ (Key.s <= Sequence /\ valueType # "deletion" /\ Key.k < savedKey)
  PROVE  IterInv'
<1>1. /\ loop = "prev" /\ loop' = "none"
      /\ valid' = (valueType # "deletion")
      /\ IF valueType = "deletion" THEN savedKey' = 0
         ELSE UNCHANGED <<savedKey, savedValue, direction>>
      /\ valueType = "deletion" => direction' = "forward"
      /\ UNCHANGED mergeVars /\ UNCHANGED sourceVars /\ UNCHANGED <<valueType, skipping, want>>
  BY DEF FindPrevUserEntry, Ends, IterValid
<1>2. /\ SourcesOK' /\ Visible' = Visible /\ View' = View
      /\ failed' = failed /\ failed' \in BOOLEAN /\ (MergeOK <=> MergeOK')
      /\ \A x : Behind(x)' <=> Behind(x)
  BY <1>1, ChildrenRest
<1>3. ASSUME ~failed' PROVE MergeOK' /\ DBIterOK'
  <2>0. SourcesOK /\ MergeOK /\ IterTypes /\ BackOK
    BY <1>2, <1>3 DEF IterInv, DBIterOK
  <2>1. CASE valueType = "deletion"
    <3>1. StillBehind = {}
      BY <2>1 DEF StillBehind, Behind, Kept
    <3>2. want = 0
      BY <1>1, <2>0, <3>1 DEF BackOK, LastOf, NoEntry
    <3>3. IterTypes'
      <4>1. savedKey' \in Int
        BY <1>1, <2>1
      <4>2. valid' \in BOOLEAN
        BY <1>1, Zenon
      <4> QED BY <1>1, <2>0, <2>1, <4>1, <4>2, Zenon DEF IterTypes
    <3>4. RestOK'
      BY <1>1, <2>1, <3>2 DEF RestOK
    <3>5. ForwardOK' /\ ScanOK' /\ BackOK'
      BY <1>1 DEF ForwardOK, ScanOK, BackOK
    <3> QED BY <1>2, <2>0, <3>3, <3>4, <3>5 DEF DBIterOK
  <2>2. CASE valueType # "deletion"
    <3>0. valueType = "value" /\ savedKey \in Int
      BY <2>0, <2>2 DEF IterTypes, Types
    <3>1. PICK c \in Visible :
            /\ c.t = "value" /\ c.k = savedKey /\ c.s = savedValue
            /\ \A x \in Visible : IF Behind(x) THEN Before(x, c) ELSE x = c \/ Before(c, x)
      BY <1>1, <2>0, <3>0 DEF BackOK, Kept
    <3>2. \A x \in Visible : Behind(x) => x.k < savedKey
      <4>1. CASE current = 0
        BY <4>1 DEF Behind
      <4>2. CASE current # 0 /\ Key.k < savedKey
        <5>1. Key.k \in Int
          BY <2>0, <4>2, KeyOrder
        <5> QED BY <2>0, <3>0, <4>2, <5>1, VisibleOrder DEF Behind, Before
      <4> QED BY <4>1, <4>2
    <3>3. \A x \in Visible : ~Behind(x) => savedKey <= x.k /\ (x.k = savedKey => x.s <= c.s)
      BY <2>0, <3>0, <3>1, VisibleOrder DEF Before
    <3>4. c \in View
      BY <2>0, <3>0, <3>1, <3>2, <3>3, VisibleOrder DEF View
    <3>5. \A x \in StillBehind : x = c \/ Before(x, c)
      BY <2>0, <3>1, VisibleOrder DEF StillBehind, Kept
    <3>6. LastOf(StillBehind) = c
      <4>1. c \in StillBehind /\ StillBehind \subseteq All
        BY <2>0, <3>0, <3>1, <3>4, VisibleOrder DEF StillBehind, Kept
      <4>2. \A x \in StillBehind : ~Before(c, x)
        <5>1. \A x \in StillBehind : x \in IterEntries /\ c \in IterEntries
          BY <2>0, <4>1, VisibleOrder DEF SourcesOK, All
        <5> QED BY <3>5, <5>1, EntryOrder
      <4> QED BY <2>0, <4>1, <4>2, LastIs
    <3>7. want = savedKey
      BY <1>1, <2>0, <3>1, <3>6 DEF BackOK
    <3>8. RestOK'
      <4>1. valid' /\ savedKey' = savedKey /\ savedValue' = savedValue /\ direction' = "reverse"
            /\ want' = want
        BY <1>1, <2>0, <2>2 DEF BackOK
      <4>2. \A x \in Visible : Behind(x) <=> x.k < savedKey
        BY <2>0, <3>0, <3>2, <3>3, VisibleOrder
      <4> QED BY <1>1, <1>2, <3>1, <3>4, <3>7, <4>1, <4>2 DEF RestOK
    <3>9. IterTypes'
      <4>2. valid' \in BOOLEAN
        BY <1>1, Zenon
      <4> QED BY <1>1, <2>0, <2>2, <4>2, Zenon DEF IterTypes
    <3>10. ForwardOK' /\ ScanOK' /\ BackOK'
      BY <1>1 DEF ForwardOK, ScanOK, BackOK
    <3> QED BY <1>2, <2>0, <3>8, <3>9, <3>10 DEF DBIterOK
  <2> QED BY <2>1, <2>2
<1> QED BY <1>2, <1>3 DEF IterInv

LEMMA FindPrevGoesOn ==
  ASSUME IterInv, FindPrevUserEntry,
         ~(current = 0 \/ (Key.s <= Sequence /\ valueType # "deletion" /\ Key.k < savedKey))
  PROVE  IterInv'
<1>1. /\ loop = "prev" /\ MergePrev /\ UNCHANGED sourceVars
      /\ UNCHANGED <<loop, valid, direction, skipping, want>>
      /\ IF Key.s <= Sequence
         THEN /\ valueType' = Key.t
              /\ savedKey' = (IF Key.t = "value" THEN Key.k ELSE 0)
              /\ savedValue' = (IF Key.t = "value" THEN Key.s ELSE 0)
         ELSE UNCHANGED <<valueType, savedKey, savedValue>>
  BY DEF FindPrevUserEntry, IterValid
<1>2. SourcesOK' /\ Visible' = Visible /\ View' = View
  BY <1>1, SameSources DEF IterInv
<1>3. failed' \in BOOLEAN /\ (~failed' => ~failed)
  BY <1>1, ErrorsStay DEF IterInv
<1>4. ASSUME ~failed' PROVE MergeOK' /\ DBIterOK'
  <2>0. SourcesOK /\ MergeOK /\ IterTypes /\ BackOK
    BY <1>3, <1>4 DEF IterInv, DBIterOK
  <2>1. current \in Children /\ Key \in IterEntries /\ Key.k \in Int /\ Key.s \in Nat
        /\ Key.t \in Types /\ (Key.s <= Sequence => Key \in Visible)
        /\ savedKey \in Int /\ Sequence \in Nat /\ current # 0
    BY <2>0, KeyOrder, IteratorConstants DEF IterTypes
  <2>2. MergeOK' /\ \A x \in Visible : Behind(x)' <=> Before(x, Key)
    BY <1>1, <1>4, <2>0, <2>1, PrevLands
  <2>3. \A x \in Visible : /\ Before(x, Key) <=> Behind(x) /\ x # Key
                           /\ ~Before(x, Key) => x = Key \/ Before(Key, x)
    BY <2>0, <2>1, KeyOrder, VisibleOrder, EntryOrder DEF Behind
  <2>4. Behind(Key)
    BY <2>1, EntryOrder DEF Behind
  <2>5. CASE Key.s <= Sequence
    <3>1. \A e \in View : Kept(e) => Behind(e)
      <4> SUFFICES ASSUME NEW e \in View, Kept(e), ~Behind(e) PROVE FALSE
        OBVIOUS
      <4>0. e \in Visible /\ e.k \in Int /\ e.s \in Nat /\ \A x \in Visible : x.k = e.k => x.s <= e.s
        BY <2>0, VisibleOrder
      <4>1. PICK c \in Visible : Kept(c) /\ \A x \in Visible : Behind(x) => Before(x, c)
        BY <1>1, <2>0 DEF BackOK, Kept
      <4>2. c = e
        BY <2>0, <4>0, <4>1, VisibleOrder DEF Kept
      <4>3. Before(Key, e)
        BY <2>1, <2>4, <2>5, <4>1, <4>2
      <4>4. ~(Key.k < e.k)
        BY <2>5, <2>1 DEF Kept
      <4> QED BY <2>1, <2>5, <4>0, <4>3, <4>4 DEF Before
    <3>2. ASSUME Key.t = "value" PROVE BackOK' /\ IterTypes'
      <4>1. valueType' = "value" /\ savedKey' = Key.k /\ savedValue' = Key.s
        BY <1>1, <2>5, <3>2
      <4>2. \A e \in Visible : Kept(e)' <=> e = Key
        BY <2>0, <2>1, <2>5, <4>1, VisibleOrder DEF Kept
      <4>3. StillBehind' = StillBehind
        BY <1>2, <2>0, <2>2, <2>3, <2>4, <3>1, <4>2, VisibleOrder DEF StillBehind
      <4>4. BackOK'
        <5>1. Key \in Visible
          BY <2>1, <2>5
        <5>2. \A x \in Visible : IF Behind(x)' THEN Before(x, Key) ELSE x = Key \/ Before(Key, x)
          BY <2>2, <2>3
        <5> QED BY <1>1, <1>2, <2>0, <3>2, <4>2, <4>3, <5>1, <5>2 DEF BackOK
      <4>5. IterTypes'
        <5>1. savedKey' \in Int
          BY <2>1, <4>1
        <5> QED BY <1>1, <2>0, <4>1, <5>1, Zenon DEF IterTypes, Types
      <4> QED BY <4>4, <4>5
    <3>3. ASSUME Key.t # "value" PROVE BackOK' /\ IterTypes'
      <4>1. valueType' = "deletion" /\ savedKey' = 0
        BY <1>1, <2>1, <2>5, <3>3 DEF Types
      <4>2. Key \notin View
        BY <3>3 DEF View
      <4>3. \A e : ~Kept(e)'
        BY <4>1 DEF Kept
      <4>4. StillBehind' = StillBehind
        BY <1>2, <2>0, <2>2, <2>3, <3>1, <4>2, <4>3, VisibleOrder DEF StillBehind
      <4>5. BackOK'
        BY <1>1, <2>0, <4>1, <4>4 DEF BackOK
      <4>6. IterTypes'
        <5>1. savedKey' \in Int
          BY <4>1
        <5> QED BY <1>1, <2>0, <4>1, <5>1, Zenon DEF IterTypes, Types
      <4> QED BY <4>5, <4>6
    <3>4. BackOK' /\ IterTypes'
      BY <3>2, <3>3
    <3>5. RestOK' /\ ForwardOK' /\ ScanOK'
      BY <1>1 DEF RestOK, ForwardOK, ScanOK
    <3> QED BY <2>2, <3>4, <3>5 DEF DBIterOK
  <2>6. CASE ~(Key.s <= Sequence)
    <3>1. valueType' = valueType /\ savedKey' = savedKey /\ savedValue' = savedValue
      BY <1>1, <2>6
    <3>2. \A x \in Visible : (Behind(x)' <=> Behind(x)) /\ (Kept(x)' <=> Kept(x))
      BY <2>0, <2>2, <2>3, <2>6, <3>1, VisibleOrder DEF Kept
    <3>3. StillBehind' = StillBehind
      BY <1>2, <2>0, <3>2, VisibleOrder DEF StillBehind
    <3>4. BackOK'
      BY <1>1, <1>2, <2>0, <3>1, <3>2, <3>3 DEF BackOK
    <3>5. IterTypes'
      BY <1>1, <2>0, <3>1, Zenon DEF IterTypes
    <3>6. RestOK' /\ ForwardOK' /\ ScanOK'
      BY <1>1 DEF RestOK, ForwardOK, ScanOK
    <3> QED BY <2>2, <3>4, <3>5, <3>6 DEF DBIterOK
  <2> QED BY <2>5, <2>6
<1> QED BY <1>2, <1>3, <1>4 DEF IterInv

-----------------------------------------------------------------------------
(* The writes of others *)

\* The last sequence number is that of an entry, or the snapshot's, and none is greater.
LEMMA LastSequenceIs ==
  ASSUME SourcesOK
  PROVE  LastSequence \in Nat /\ LastSequence >= Sequence /\ \A e \in All : LastSequence >= e.s
<1> DEFINE S == {Sequence} \cup {e.s : e \in All}
           Later(n) == {e \in All : e.s > n}
           T == {Later(n) : n \in S}
<1>1. \A e \in All : e.s \in Nat
  BY EntryOrder DEF All, SourcesOK
<1>2. S \subseteq Nat /\ IsFiniteSet(All)
  BY <1>1, IteratorConstants, FS_Union DEF SourcesOK, All
<1>3. PICK U \in T : \A V \in T : <<V, U>> \notin StrictSubsetOrdering(All)
  <2>1. T \subseteq SUBSET All /\ T # {}
    OBVIOUS
  <2>2. IsWellFoundedOn(StrictSubsetOrdering(All), SUBSET All)
    BY <1>2, FS_StrictSubsetOrderingWellFounded, FS_FiniteSubsetsOfFinite
  <2> HIDE DEF T
  <2> QED BY <2>1, <2>2, WFMin
<1>4. PICK n \in S : U = Later(n)
  OBVIOUS
<1>5. \A e \in All : e.s <= n
  <2> SUFFICES ASSUME NEW d \in All, d.s > n PROVE FALSE
    BY <1>1, <1>2
  <2>1. Later(d.s) \subseteq U /\ d \notin Later(d.s) /\ d \in U
    BY <1>1, <1>2, <1>4
  <2>2. <<Later(d.s), U>> \in StrictSubsetOrdering(All)
    BY <1>4, <2>1 DEF StrictSubsetOrdering
  <2> QED BY <1>3, <2>2
<1>6. \E m \in S : \A x \in S : m >= x
  <2>1. CASE n >= Sequence
    BY <1>1, <1>2, <1>5, <2>1
  <2>2. CASE ~(n >= Sequence)
    <3>1. \A x \in S : Sequence >= x
      BY <1>1, <1>2, <1>5, <2>2
    <3> QED BY <3>1
  <2> QED BY <2>1, <2>2
<1>7. LastSequence = Max(S)
  BY DEF LastSequence, All, InFiles
<1>8. Max(S) \in S /\ \A x \in S : Max(S) >= x
  <2> HIDE DEF S
  <2> QED BY <1>6 DEF Max
<1> QED BY <1>2, <1>7, <1>8

LEMMA MemtableAddKeeps ==
  ASSUME IterInv, NEW k \in UserKeys, NEW t \in Types, MemtableAdd(k, t)
  PROVE  IterInv'
<1> DEFINE new == [k |-> k, s |-> LastSequence + 1, t |-> t]
<1>1. /\ memtable' = memtable \cup {new} /\ files' = files /\ bad' = bad
      /\ at' = at /\ failed' = failed /\ current' = current /\ merging' = merging
      /\ direction' = direction /\ valid' = valid /\ savedKey' = savedKey
      /\ savedValue' = savedValue /\ loop' = loop /\ skipping' = skipping
      /\ valueType' = valueType /\ want' = want
  BY DEF MemtableAdd, mergeVars, dbIterVars
<1>2. SourcesOK
  BY DEF IterInv
<1>3. new \in IterEntries /\ new.s > Sequence /\ \A x \in All : new.s > x.s
  <2>1. \A x \in All : x.s \in Nat
    BY <1>2, EntryOrder DEF All, SourcesOK
  <2> QED BY <1>2, <2>1, LastSequenceIs, IteratorConstants DEF IterEntries
<1> HIDE DEF new
<1>n. Sequence \in Nat /\ new.s \in Nat /\ \A x \in All : x.s \in Nat
  BY <1>2, <1>3, EntryOrder, IteratorConstants DEF All, SourcesOK
<1>4. InFiles' = InFiles /\ Readable' = Readable /\ All' = All \cup {new}
  BY <1>1 DEF InFiles, Readable, All
<1>5. SourcesOK'
  <2>1. memtable' \subseteq IterEntries /\ IsFiniteSet(memtable')
    BY <1>1, <1>2, <1>3, FS_AddElement DEF SourcesOK
  <2>2. memtable' \cap InFiles = {}
    BY <1>1, <1>2, <1>3, <1>n DEF SourcesOK, All
  <2>3. \A x, y \in All' : x.s = y.s => x = y
    BY <1>2, <1>3, <1>4, <1>n DEF SourcesOK
  <2> QED BY <1>1, <1>2, <1>4, <2>1, <2>2, <2>3 DEF SourcesOK
<1>6. \A c \in Children : ChildEntries(c) \subseteq ChildEntries(c)' /\ VisibleIn(c)' = VisibleIn(c)
  BY <1>1, <1>3, <1>4, <1>n DEF ChildEntries, VisibleIn
<1>7. Visible' = Visible /\ View' = View
  <2>1. Visible = {e \in All : e.s <= Sequence} /\ Visible' = {e \in All' : e.s <= Sequence}
    BY DEF Visible, All, InFiles
  <2>2. Visible' = Visible
    BY <1>3, <1>4, <1>n, <2>1
  <2> QED BY <2>2 DEF View
<1>8. Key' = Key /\ \A x : (Behind(x)' <=> Behind(x)) /\ (Ahead(x)' <=> Ahead(x))
  BY <1>1 DEF Key, Behind, Ahead
<1>9. ASSUME MergeOK PROVE MergeOK'
  <2> SUFFICES ASSUME current # 0 PROVE MergeOK'
    BY <1>1 DEF MergeOK
  <2>1. current \in Children /\ Key \in ChildEntries(current)' /\ Key \in IterEntries
    <3>1. PICK c \in Children : c = current /\ Key \in ChildEntries(c)
      BY <1>9 DEF MergeOK
    <3>2. Key \in ChildEntries(c)'
      BY <1>6, <3>1
    <3>3. c = current' /\ Key \in IterEntries
      BY <1>1, <1>9, <3>1 DEF MergeOK
    <3> QED BY <3>1, <3>2, <3>3
  <2>2. ASSUME NEW A, NEW c \in Children
        PROVE  (FirstIn(A, c, at[c]) => FirstIn(A, c, at[c])')
               /\ (LastIn(A, c, at[c]) => LastIn(A, c, at[c])')
    BY <1>1, <1>6 DEF FirstIn, LastIn
  <2> QED BY <1>1, <1>8, <1>9, <2>1, <2>2 DEF MergeOK, After, Until
<1>10. ASSUME DBIterOK PROVE DBIterOK'
  <2>1. ToCome' = ToCome /\ StillBehind' = StillBehind /\ \A x : Kept(x)' <=> Kept(x)
    BY <1>1, <1>7, <1>8 DEF ToCome, StillBehind, Kept
  <2>2. IterTypes' /\ RestOK'
    <3>1. IterTypes'
      BY <1>1, <1>10, Zenon DEF DBIterOK, IterTypes
    <3>2. RestOK'
      BY <1>1, <1>7, <1>8, <1>10 DEF DBIterOK, RestOK
    <3> QED BY <3>1, <3>2
  <2>3. ForwardOK' /\ ScanOK'
    BY <1>1, <1>7, <1>8, <1>10, <2>1 DEF DBIterOK, ForwardOK, ScanOK
  <2>4. BackOK'
    BY <1>1, <1>7, <1>8, <1>10, <2>1 DEF DBIterOK, BackOK
  <2> QED BY <2>2, <2>3, <2>4 DEF DBIterOK
<1> QED BY <1>1, <1>5, <1>9, <1>10 DEF IterInv

-----------------------------------------------------------------------------
(* The initial states, and the theorem *)

LEMMA IteratorInitial == IteratorInit => IterInv
<1> SUFFICES ASSUME IteratorInit PROVE IterInv
  OBVIOUS
<1>1. PICK ks \in [1 .. Sequence -> UserKeys \X Types], inMemtable \in SUBSET (1 .. Sequence) :
        LET e(s) == [k |-> ks[s][1], s |-> s, t |-> ks[s][2]]
            old == {e(s) : s \in (1 .. Sequence) \ inMemtable}
        IN  /\ memtable = {e(s) : s \in inMemtable}
            /\ IF old = {} THEN files = <<>>
               ELSE \E m \in old : files = IF After(old, m) = {} THEN <<old>>
                                           ELSE <<old \ After(old, m), After(old, m)>>
  BY DEF IteratorInit
<1> DEFINE e(s) == [k |-> ks[s][1], s |-> s, t |-> ks[s][2]]
           old == {e(s) : s \in (1 .. Sequence) \ inMemtable}
<1>2. \A s \in 1 .. Sequence : e(s) \in IterEntries /\ e(s).s = s
  BY IteratorConstants DEF IterEntries
<1>3. ASSUME NEW D \in SUBSET (1 .. Sequence) PROVE IsFiniteSet({e(s) : s \in D})
  <2> DEFINE f == [s \in D |-> e(s)]
  <2>1. IsFiniteSet(D)
    <3>1. IsFiniteSet(1 .. Sequence)
      BY IteratorConstants, FS_Interval
    <3> QED BY <3>1, FS_Subset
  <2>2. f \in Surjection(D, {e(s) : s \in D})
    BY DEF Surjection
  <2> HIDE DEF f
  <2> QED BY <2>1, <2>2, FS_Surjection
<1>4. old \subseteq IterEntries /\ IsFiniteSet(old) /\ \A x \in old : x.s \in 1 .. Sequence \ inMemtable
  <2>1. IsFiniteSet(old)
    BY <1>3
  <2> QED BY <1>2, <2>1
<1>5. memtable = {e(s) : s \in inMemtable} /\ memtable \subseteq IterEntries /\ IsFiniteSet(memtable)
      /\ \A x \in memtable : x.s \in inMemtable
  <2>1. memtable = {e(s) : s \in inMemtable}
    BY <1>1
  <2>2. IsFiniteSet(memtable)
    BY <1>3, <2>1
  <2> QED BY <1>2, <2>1, <2>2
<1>6. \A x, y \in memtable \cup old : x.s = y.s => x = y
  <2>1. \A x \in memtable \cup old : x.s \in 1 .. Sequence /\ x = e(x.s)
    BY <1>2, <1>5
  <2> HIDE DEF e, old
  <2> QED BY <2>1
<1>7. IF old = {} THEN files = <<>>
      ELSE \E m \in old : files = IF After(old, m) = {} THEN <<old>>
                                  ELSE <<old \ After(old, m), After(old, m)>>
  BY <1>1
<1> HIDE DEF e, old
<1>8. /\ files \in Seq(SUBSET IterEntries) /\ InFiles = old
      /\ \A f, g \in DOMAIN files : f < g => \A x \in files[f], y \in files[g] : Before(x, y)
  <2>1. CASE old = {}
    BY <1>7, <2>1 DEF InFiles
  <2>2. CASE old # {}
    <3>1. PICK m \in old : files = IF After(old, m) = {} THEN <<old>>
                                   ELSE <<old \ After(old, m), After(old, m)>>
      BY <1>7, <2>2
    <3>2. CASE After(old, m) = {}
      <4>1. files = <<old>>
        BY <3>1, <3>2
      <4>2. DOMAIN files = {1} /\ files[1] = old
        BY <4>1
      <4> QED BY <1>4, <4>1, <4>2 DEF InFiles
    <3>3. CASE After(old, m) # {}
      <4>1. files = <<old \ After(old, m), After(old, m)>>
        BY <3>1, <3>3
      <4>2. /\ DOMAIN files = {1, 2}
            /\ files[1] = old \ After(old, m) /\ files[2] = After(old, m)
        BY <4>1
      <4>3. After(old, m) \subseteq old
        BY DEF After
      <4>4. files \in Seq(SUBSET IterEntries)
        BY <1>4, <4>1, <4>3
      <4>5. InFiles = old
        BY <4>2, <4>3 DEF InFiles
      <4>6. ASSUME NEW x \in old \ After(old, m), NEW y \in After(old, m) PROVE Before(x, y)
        <5>1. ~Before(m, x) /\ Before(m, y) /\ y \in old
          BY DEF After
        <5>2. x.s = m.s => x = m
          BY <1>6
        <5> QED BY <1>4, <5>1, <5>2, EntryOrder
      <4> QED BY <4>2, <4>4, <4>5, <4>6
    <3> QED BY <3>2, <3>3
  <2> QED BY <2>1, <2>2
<1>9. SourcesOK
  <2>1. bad \subseteq DOMAIN files
    BY DEF IteratorInit
  <2>2. memtable \cap old = {}
    BY <1>4, <1>5
  <2>3. \A x \in old : x.s <= Sequence
    BY <1>4, IteratorConstants
  <2> QED BY <1>4, <1>5, <1>6, <1>8, <2>1, <2>2, <2>3 DEF SourcesOK, All
<1>10. /\ failed = FALSE /\ current = 0 /\ direction = "forward" /\ valid = FALSE
       /\ savedKey = 0 /\ loop = "none" /\ skipping = FALSE /\ valueType = "deletion" /\ want = 0
  BY DEF IteratorInit
<1>11. MergeOK /\ DBIterOK
  <2>1. MergeOK
    BY <1>10 DEF MergeOK
  <2>2. IterTypes
    <3>1. valid \in BOOLEAN /\ skipping \in BOOLEAN
      BY <1>10, Zenon
    <3> QED BY <1>10, <3>1 DEF IterTypes, Types
  <2>3. RestOK /\ ForwardOK /\ ScanOK /\ BackOK
    BY <1>10 DEF RestOK, ForwardOK, ScanOK, BackOK
  <2> QED BY <2>1, <2>2, <2>3 DEF DBIterOK
<1> QED BY <1>9, <1>10, <1>11 DEF IterInv

LEMMA IteratorStep == IterInv /\ [IteratorNext]_iteratorVars => IterInv'
<1> SUFFICES ASSUME IterInv, [IteratorNext]_iteratorVars PROVE IterInv'
  OBVIOUS
<1>1. ASSUME NEW k \in UserKeys, Seek(k) PROVE IterInv'
  BY <1>1, SeekKeeps
<1>2. ASSUME NEW k \in UserKeys, NEW t \in Types, MemtableAdd(k, t) PROVE IterInv'
  BY <1>2, MemtableAddKeeps
<1>3. CASE SeekToFirst
  BY <1>3, SeekToFirstKeeps
<1>4. CASE SeekToLast
  BY <1>4, SeekToLastKeeps
<1>5. CASE Next
  BY <1>5, NextKeeps
<1>6. CASE Prev
  BY <1>6, PrevKeeps
<1>7. CASE OutOfEntries
  BY <1>7, OutOfEntriesKeeps
<1>8. CASE FindNextUserEntry
  BY <1>8, FindNextKeeps
<1>9. CASE ScanBack
  BY <1>9, ScanBackKeeps
<1>10. CASE FindPrevUserEntry
  BY <1>10, FindPrevEnds, FindPrevGoesOn
<1>11. CASE UNCHANGED iteratorVars
  <2>1. UNCHANGED sourceVars /\ UNCHANGED mergeVars /\ UNCHANGED dbIterVars /\ want' = want
    BY <1>11 DEF iteratorVars
  <2>2. /\ SourcesOK' /\ failed' \in BOOLEAN /\ (MergeOK <=> MergeOK') /\ failed' = failed
        /\ Visible' = Visible /\ View' = View /\ current' = current /\ Key' = Key
        /\ \A x : (Behind(x)' <=> Behind(x)) /\ (Ahead(x)' <=> Ahead(x))
    BY <2>1, ChildrenRest
  <2>3. /\ direction' = direction /\ valid' = valid /\ savedKey' = savedKey
        /\ savedValue' = savedValue /\ loop' = loop /\ skipping' = skipping
        /\ valueType' = valueType /\ want' = want
    BY <2>1 DEF dbIterVars
  <2>4. ASSUME DBIterOK PROVE DBIterOK'
    <3>1. ToCome' = ToCome /\ StillBehind' = StillBehind /\ \A x : Kept(x)' <=> Kept(x)
      BY <2>2, <2>3 DEF ToCome, StillBehind, Kept
    <3>2. IterTypes'
      BY <2>3, <2>4, Zenon DEF DBIterOK, IterTypes
    <3>3. RestOK' /\ ForwardOK' /\ ScanOK'
      BY <2>2, <2>3, <2>4, <3>1 DEF DBIterOK, RestOK, ForwardOK, ScanOK
    <3>4. BackOK'
      BY <2>2, <2>3, <2>4, <3>1 DEF DBIterOK, BackOK
    <3> QED BY <3>2, <3>3, <3>4 DEF DBIterOK
  <2> QED BY <2>2, <2>4 DEF IterInv
<1> QED
  BY <1>1, <1>2, <1>3, <1>4, <1>5, <1>6, <1>7, <1>8, <1>9, <1>10, <1>11 DEF IteratorNext

LEMMA RestFollows == IterInv => IteratorFollowsSnapshot
<1> SUFFICES ASSUME IterInv, loop = "none", ~failed
             PROVE  /\ valid <=> want # 0
                    /\ valid => \E e \in View : e.k = want /\ Shown = <<e.k, e.s>>
  BY DEF IteratorFollowsSnapshot, IterIdle
<1>1. SourcesOK /\ RestOK
  BY DEF IterInv, DBIterOK
<1>2. \A e \in View : e.k # 0
  BY <1>1, VisibleOrder
<1>3. CASE ~valid /\ want = 0
  BY <1>3
<1>4. CASE valid /\ direction = "forward" /\ Key \in View /\ Key.k = want
  BY <1>2, <1>4 DEF Shown
<1>5. CASE valid /\ direction = "reverse" /\ savedKey = want
           /\ \E c \in View : c.k = savedKey /\ c.s = savedValue
  BY <1>2, <1>5 DEF Shown
<1> QED BY <1>1, <1>3, <1>4, <1>5 DEF RestOK

\* An iterator of the store shows the snapshot it was made for, key after key and newest
\* value of each, wherever the caller turns it between Next, Prev and the Seeks and
\* whatever others write to the memtable meanwhile; the only way out is an error of
\* status().  (DBIter, MergingIterator, TwoLevelIterator.)
THEOREM IteratorFollows == IteratorSpec => []IteratorFollowsSnapshot
<1>1. IteratorInit => IterInv
  BY IteratorInitial
<1>2. IterInv /\ [IteratorNext]_iteratorVars => IterInv'
  BY IteratorStep
<1>3. IterInv => IteratorFollowsSnapshot
  BY RestFollows
<1> QED BY <1>1, <1>2, <1>3, PTL DEF IteratorSpec
=============================================================================
