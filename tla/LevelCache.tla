----------------------------- MODULE LevelCache -----------------------------
(* The cache of open tables and of blocks of the local store (leveldb): a      *)
(* shard of util/cache.cc under its mutex, and the threads of                  *)
(* db/table_cache.cc that look a table up, open it and insert it, use it and   *)
(* release it, while obsolete tables are evicted.                              *)
EXTENDS Integers, SequencesExt

CONSTANTS
    CacheThreads,
    FileNumbers,   \* the keys of the cache
    Handles,       \* the memory for entries, positive numbers
    Capacities,    \* the capacities a shard may have
    EntryCharge    \* of each key the charge of its entry

\* A handle is a pointer that is not null; charges are of type size_t.
ASSUME CacheConstants ==
    /\ IsFiniteSet(CacheThreads) /\ IsFiniteSet(Handles) /\ 0 \notin Handles
    /\ Capacities \subseteq Nat /\ EntryCharge \in [FileNumbers -> Nat]

VARIABLES
    capacity,   \* capacity_
    usage,      \* usage_
    entry,      \* of each handle its key, refs and in_cache; refs is 0 when it is free
    lru,        \* the list lru_, the oldest entry first
    table,      \* table_: the handle of a key, 0 for none
    task,       \* what each thread does
    holds,      \* the handle each thread has, 0 for none
    owner       \* the thread that is in a loop under mutex_, or NoThread

cacheVars == <<capacity, usage, entry, lru, table, task, holds, owner>>

NoThread == "none"
Idle == [op |-> "idle"]
Free == [key |-> 0, refs |-> 0, inCache |-> FALSE]

-----------------------------------------------------------------------------
(* Ref, Unref and FinishErase, on the entries and the list together.           *)

\* Mutant of Ref: the entry stays on the list of what may be evicted.
RefStaysListed(h) == entry' = [entry EXCEPT ![h].refs = @ + 1] /\ UNCHANGED lru

Ref(h) ==
    /\ entry' = [entry EXCEPT ![h].refs = @ + 1]
    /\ lru' = RemoveFirst(lru, h)

\* Unref: the last reference frees the entry, the last but the cache's makes it the
\* newest of the list
Unref(h) ==
    LET e == entry[h] IN
    /\ entry' = [entry EXCEPT ![h] = IF e.refs = 1 THEN Free ELSE [e EXCEPT !.refs = @ - 1]]
    /\ lru' = IF e.refs = 2 /\ e.inCache THEN Append(RemoveFirst(lru, h), h) ELSE lru

\* FinishErase of an entry already taken from the table
Erased(h, es) ==
    LET e == es[h] IN
    [es EXCEPT ![h] = IF e.refs = 1 THEN Free
                      ELSE [e EXCEPT !.refs = @ - 1, !.inCache = FALSE]]

-----------------------------------------------------------------------------
(* Calls of the threads.                                                       *)

\* FindTable, first part: LRUCache::Lookup
Lookup(t, k) ==
    /\ owner = NoThread /\ task[t] = Idle /\ holds[t] = 0
    /\ IF table[k] # 0
       THEN /\ Ref(table[k])
            /\ holds' = [holds EXCEPT ![t] = table[k]]
            /\ UNCHANGED task
       ELSE /\ task' = [task EXCEPT ![t] = [op |-> "open", key |-> k]]
            /\ UNCHANGED <<entry, lru, holds>>
    /\ UNCHANGED <<capacity, usage, table, owner>>

\* The file cannot be opened: nothing is cached
OpenFails(t) ==
    /\ task[t].op = "open"
    /\ task' = [task EXCEPT ![t] = Idle]
    /\ UNCHANGED <<capacity, usage, entry, lru, table, holds, owner>>

\* FindTable, second part: LRUCache::Insert up to its loop.  Another thread may have
\* inserted the key meanwhile: its entry leaves the cache.
InsertEntry(t, h) ==
    /\ owner = NoThread /\ task[t].op = "open" /\ entry[h] = Free
    /\ LET k == task[t].key
           old == table[k]
           cached == capacity > 0
           new == [key |-> k, refs |-> IF cached THEN 2 ELSE 1, inCache |-> cached]
           with == [entry EXCEPT ![h] = new]
           replaces == cached /\ old # 0
       IN  /\ entry' = IF replaces THEN Erased(old, with) ELSE with
           /\ lru' = IF replaces THEN RemoveFirst(lru, old) ELSE lru
           /\ usage' = usage + (IF cached THEN EntryCharge[k] ELSE 0)
                             - (IF replaces THEN EntryCharge[k] ELSE 0)
           /\ table' = IF cached THEN [table EXCEPT ![k] = h] ELSE table
    /\ holds' = [holds EXCEPT ![t] = h]
    /\ task' = [task EXCEPT ![t] = [op |-> "evict"]]
    /\ owner' = t
    /\ UNCHANGED capacity

\* The oldest entry nobody uses leaves the cache
RemoveOldest ==
    LET h == Head(lru) IN
    /\ entry' = Erased(h, entry)
    /\ lru' = RemoveFirst(lru, h)
    /\ usage' = usage - EntryCharge[entry[h].key]
    /\ table' = [table EXCEPT ![entry[h].key] = 0]

\* The loop of Insert
Overfull == usage > capacity /\ lru # <<>>
EvictOldest(t) ==
    /\ owner = t /\ task[t].op = "evict" /\ Overfull
    /\ RemoveOldest
    /\ UNCHANGED <<capacity, task, holds, owner>>
InsertReturns(t) ==
    /\ owner = t /\ task[t].op = "evict" /\ ~Overfull
    /\ task' = [task EXCEPT ![t] = Idle] /\ owner' = NoThread
    /\ UNCHANGED <<capacity, usage, entry, lru, table, holds>>

\* TableCache::Get at its end, or an iterator that is deleted: Release
Release(t) ==
    /\ owner = NoThread /\ task[t] = Idle /\ holds[t] # 0
    /\ Unref(holds[t])
    /\ holds' = [holds EXCEPT ![t] = 0]
    /\ UNCHANGED <<capacity, usage, table, task, owner>>

\* TableCache::Evict: an obsolete table leaves the cache, in use or not
Erase(t, k) ==
    /\ owner = NoThread /\ task[t] = Idle
    /\ table[k] # 0
    /\ entry' = Erased(table[k], entry)
    /\ lru' = RemoveFirst(lru, table[k])
    /\ usage' = usage - EntryCharge[k]
    /\ table' = [table EXCEPT ![k] = 0]
    /\ UNCHANGED <<capacity, task, holds, owner>>

\* Prune: what nobody uses leaves the cache
PruneBegins(t) ==
    /\ owner = NoThread /\ task[t] = Idle
    /\ task' = [task EXCEPT ![t] = [op |-> "prune"]] /\ owner' = t
    /\ UNCHANGED <<capacity, usage, entry, lru, table, holds>>
PruneOldest(t) ==
    /\ owner = t /\ task[t].op = "prune" /\ lru # <<>>
    /\ RemoveOldest
    /\ UNCHANGED <<capacity, task, holds, owner>>
PruneReturns(t) ==
    /\ owner = t /\ task[t].op = "prune" /\ lru = <<>>
    /\ task' = [task EXCEPT ![t] = Idle] /\ owner' = NoThread
    /\ UNCHANGED <<capacity, usage, entry, lru, table, holds>>

-----------------------------------------------------------------------------

CacheInit ==
    /\ capacity \in Capacities
    /\ usage = 0
    /\ entry = [h \in Handles |-> Free]
    /\ lru = <<>>
    /\ table = [k \in FileNumbers |-> 0]
    /\ task = [t \in CacheThreads |-> Idle]
    /\ holds = [t \in CacheThreads |-> 0]
    /\ owner = NoThread

CacheNext ==
    \E t \in CacheThreads :
        \/ \E k \in FileNumbers : Lookup(t, k) \/ Erase(t, k)
        \/ \E h \in Handles : InsertEntry(t, h)
        \/ OpenFails(t) \/ EvictOldest(t) \/ InsertReturns(t) \/ Release(t)
        \/ PruneBegins(t) \/ PruneOldest(t) \/ PruneReturns(t)

CacheSpec == CacheInit /\ [][CacheNext]_cacheVars

-----------------------------------------------------------------------------
(* Properties.                                                                 *)

UsersOf(h) == {t \in CacheThreads : holds[t] = h}

\* The charges of the entries in the cache, added up: the size of a set that has for each of
\* them as many members as its charge.
Units(es) == UNION {{h} \X (1 .. EntryCharge[es[h].key]) : h \in {x \in Handles : es[x].inCache}}
TotalCharge(es) == Cardinality(Units(es))

\* Every reference is accounted for: an entry is kept exactly while the cache or a
\* thread refers to it, the list holds what only the cache refers to, each once, and
\* the table finds what is in the cache.  So no table stays open that nobody can reach.
CacheAccountsForAll ==
    /\ \A h \in Handles :
         /\ entry[h].refs = Cardinality(UsersOf(h)) + (IF entry[h].inCache THEN 1 ELSE 0)
         /\ entry[h].inCache <=> \E k \in FileNumbers : table[k] = h
         /\ h \in Range(lru) <=> entry[h].inCache /\ entry[h].refs = 1
    /\ \A k \in FileNumbers : table[k] # 0 => entry[table[k]].key = k
    /\ IsInjective(lru)
    /\ usage = TotalCharge(entry)

=============================================================================
