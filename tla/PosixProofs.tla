----------------------------- MODULE PosixProofs -----------------------------
(* Proofs about the POSIX environment of the local store (util/env_posix.cc):  *)
(* the lock of a database, the limiters of the files opened for reading, the   *)
(* background thread and the file that is written.                             *)
EXTENDS PosixLocks, PosixReaders, PosixWriter, PosixBackground,
        FiniteSetTheorems, SequenceTheorems, TLAPS

-----------------------------------------------------------------------------
(* The lock of a database: any threads and processes.                          *)

\* Between its insertion in the table and its removal a thread is in LockFile, has the
\* lock, is in UnlockFile, or failed to give the lock up.
InTable ==
    {t \in Threads : pc[t] \in {"inserted", "failing", "locked", "unlocked", "stuck"}}

PcValues ==
    {"free", "opened", "inserted", "failing", "locked", "unlocked", "stuck", "removed"}

\* OneHolderInProcess is not inductive: a thread on its way to the lock has to be the
\* one its process has in the table, and the only one.
TableInv ==
    /\ pc \in [Threads -> PcValues]
    /\ \A t \in InTable : ProcessOf[t] \in lockedFiles
    /\ \A t, u \in InTable : ProcessOf[t] = ProcessOf[u] => t = u

-----------------------------------------------------------------------------

\* Nobody is in the table when the threads start (PosixLockTable is empty).
LEMMA TableInit == LocksInit => TableInv
BY DEF LocksInit, TableInv, InTable, PcValues

\* A thread inserts its process only if it was not there, so no other thread of that
\* process is between insertion and removal; a removal is made by the thread that
\* inserted (LockFile, UnlockFile of env_posix.cc).
LEMMA TableStep == TableInv /\ [LocksNext]_lockVars => TableInv'
<1> SUFFICES ASSUME TableInv, [LocksNext]_lockVars PROVE TableInv'
  OBVIOUS
<1> USE DEF TableInv, InTable, PcValues
<1>1. CASE UNCHANGED lockVars
  BY <1>1 DEF lockVars
<1>2. ASSUME NEW t \in Threads, OpenLockFile(t) PROVE TableInv'
  BY <1>2 DEF OpenLockFile, Goes
<1>3. ASSUME NEW t \in Threads, InsertLock(t) PROVE TableInv'
  BY <1>3 DEF InsertLock, Goes
<1>4. ASSUME NEW t \in Threads, AlreadyHeld(t) PROVE TableInv'
  BY <1>4 DEF AlreadyHeld, Goes
<1>5. ASSUME NEW t \in Threads, SetLock(t) PROVE TableInv'
  BY <1>5 DEF SetLock, Goes
<1>6. ASSUME NEW t \in Threads, SetLockFails(t) PROVE TableInv'
  BY <1>6 DEF SetLockFails, Goes
<1>7. ASSUME NEW t \in Threads, RemoveFailed(t) PROVE TableInv'
  BY <1>7 DEF RemoveFailed, Goes
<1>8. ASSUME NEW t \in Threads, Unlock(t) PROVE TableInv'
  BY <1>8 DEF Unlock, Goes
<1>9. ASSUME NEW t \in Threads, RemoveLock(t) PROVE TableInv'
  BY <1>9 DEF RemoveLock, Goes
<1>10. ASSUME NEW t \in Threads, CloseLockFile(t) PROVE TableInv'
  BY <1>10 DEF CloseLockFile, Goes
<1>11. ASSUME NEW t \in Threads, UnlockFails(t) PROVE TableInv'
  BY <1>11 DEF UnlockFails, Goes
<1>12. QED
  BY <1>1, <1>2, <1>3, <1>4, <1>5, <1>6, <1>7, <1>8, <1>9, <1>10, <1>11 DEF LocksNext

\* Two threads of one process never have the lock of a database at the same time, which
\* fcntl alone does not see to (PosixLockTable in env_posix.cc).
THEOREM OneThreadHolds == LocksSpec => []OneHolderInProcess
<1>1. TableInv => OneHolderInProcess
  BY DEF TableInv, InTable, OneHolderInProcess, Holders
<1>2. QED
  BY <1>1, TableInit, TableStep, PTL DEF LocksSpec

-----------------------------------------------------------------------------
(* The limiters: any finite number of threads, any limits.                     *)

Places == {"closed", "opened", "mapping", "mmap", "noMmap", "descriptor", "fd", "noFd",
           "byName"}

\* The counters may be negative between Acquire and its return, so LimitsHold is kept
\* with the type of the variables only.
ReadersInv ==
    /\ mmaps \in Int /\ fds \in Int
    /\ open \in [ReaderThreads -> Places]
    /\ LimitsHold

-----------------------------------------------------------------------------

\* The threads whose place, in f, is in S.
InPlaces(f, S) == {u \in ReaderThreads : f[u] \in S}

\* One thread that goes from one place to another changes the number of threads in a set
\* of places by what it leaves and what it enters.
LEMMA OneMoves ==
    ASSUME NEW f \in [ReaderThreads -> Places], NEW t \in ReaderThreads,
           NEW v \in Places, NEW S, NEW g \in [ReaderThreads -> Places],
           g[t] = v, \A u \in ReaderThreads : u # t => g[u] = f[u]
    PROVE  /\ Cardinality(InPlaces(f, S)) \in Nat
           /\ Cardinality(InPlaces(g, S)) \in Nat
           /\ v \in S /\ f[t] \notin S => Cardinality(InPlaces(g, S)) = Cardinality(InPlaces(f, S)) + 1
           /\ v \notin S /\ f[t] \in S => Cardinality(InPlaces(f, S)) = Cardinality(InPlaces(g, S)) + 1
           /\ (v \in S <=> f[t] \in S) => Cardinality(InPlaces(g, S)) = Cardinality(InPlaces(f, S))
<1> DEFINE A == InPlaces(f, S)
           B == InPlaces(g, S)
<1>1. IsFiniteSet(A) /\ IsFiniteSet(B)
  BY ReadersConstants, FS_Subset DEF InPlaces
<1>2. Cardinality(A) \in Nat /\ Cardinality(B) \in Nat
  BY <1>1, FS_CardinalityType
<1>3. CASE v \in S /\ f[t] \notin S
  <2>1. B = A \cup {t} /\ t \notin A
    BY <1>3 DEF InPlaces
  <2>2. Cardinality(B) = Cardinality(A) + 1
    BY <1>1, <2>1, FS_AddElement
  <2>3. QED
    BY <1>2, <1>3, <2>2
<1>4. CASE v \notin S /\ f[t] \in S
  <2>1. A = B \cup {t} /\ t \notin B
    BY <1>4 DEF InPlaces
  <2>2. Cardinality(A) = Cardinality(B) + 1
    BY <1>1, <2>1, FS_AddElement
  <2>3. QED
    BY <1>2, <1>4, <2>2
<1>5. CASE v \in S <=> f[t] \in S
  <2>1. A = B
    BY <1>5 DEF InPlaces
  <2>2. QED
    BY <1>2, <1>5, <2>1
<1>6. QED
  BY <1>3, <1>4, <1>5

\* At the start no file is open and nothing was taken from the limiters.
LEMMA ReadersInitial ==
    ASSUME ReadersInit
    PROVE  ReadersInv
<1>1. In({"mapping", "mmap"}) = {} /\ In({"fd"}) = {}
  BY DEF ReadersInit, In
<1>2. In({"mapping", "mmap", "noMmap"}) = {} /\ In({"fd", "noFd"}) = {}
  BY DEF ReadersInit, In
<1>3. Cardinality({}) = 0
  BY FS_EmptySet
<1>4. LimitsHold
  BY <1>1, <1>2, <1>3, ReadersConstants DEF ReadersInit, LimitsHold
<1>5. QED
  BY <1>4, ReadersConstants DEF ReadersInit, ReadersInv, Places

\* What a step from one place to another does to the number of threads in S.
Moved(S, from, to) ==
    /\ Cardinality(In(S)) \in Nat /\ Cardinality(In(S))' \in Nat
    /\ Cardinality(In(S))' = Cardinality(In(S)) + (IF to \in S THEN 1 ELSE 0)
                                               - (IF from \in S THEN 1 ELSE 0)

\* A step of a thread, on the four sets of LimitsHold.
LEMMA Counts ==
    ASSUME ReadersInv, NEW t \in ReaderThreads,
           NEW from, NEW to \in Places, At(t, from, to)
    PROVE  /\ open' \in [ReaderThreads -> Places]
           /\ Moved({"mapping", "mmap"}, from, to)
           /\ Moved({"mapping", "mmap", "noMmap"}, from, to)
           /\ Moved({"fd"}, from, to)
           /\ Moved({"fd", "noFd"}, from, to)
<1>1. open[t] = from /\ open' = [open EXCEPT ![t] = to]
  BY DEF At
<1>2. open \in [ReaderThreads -> Places] /\ open' \in [ReaderThreads -> Places]
  BY <1>1 DEF ReadersInv
<1>3. open'[t] = to /\ \A u \in ReaderThreads : u # t => open'[u] = open[u]
  BY <1>1, <1>2
<1>4. ASSUME NEW S PROVE Moved(S, from, to)
  <2>1. In(S) = InPlaces(open, S) /\ In(S)' = InPlaces(open', S)
    BY DEF In, InPlaces
  <2>2. /\ Cardinality(InPlaces(open, S)) \in Nat /\ Cardinality(InPlaces(open', S)) \in Nat
        /\ to \in S /\ open[t] \notin S =>
              Cardinality(InPlaces(open', S)) = Cardinality(InPlaces(open, S)) + 1
        /\ to \notin S /\ open[t] \in S =>
              Cardinality(InPlaces(open, S)) = Cardinality(InPlaces(open', S)) + 1
        /\ (to \in S <=> open[t] \in S) =>
              Cardinality(InPlaces(open', S)) = Cardinality(InPlaces(open, S))
    BY <1>2, <1>3, OneMoves
  <2>3. QED
    BY <1>1, <2>1, <2>2 DEF Moved
<1>5. QED
  BY <1>2, <1>4

\* A thread with a map is one that has taken from the limiter, and likewise for descriptors.
LEMMA MappedHaveTaken ==
    /\ Cardinality(In({"mapping", "mmap"})) <= Cardinality(In({"mapping", "mmap", "noMmap"}))
    /\ Cardinality(In({"fd"})) <= Cardinality(In({"fd", "noFd"}))
<1>1. IsFiniteSet(In({"mapping", "mmap", "noMmap"})) /\ IsFiniteSet(In({"fd", "noFd"}))
  BY ReadersConstants, FS_Subset DEF In
<1>2. In({"mapping", "mmap"}) \subseteq In({"mapping", "mmap", "noMmap"})
  BY DEF In
<1>3. In({"fd"}) \subseteq In({"fd", "noFd"})
  BY DEF In
<1>4. QED
  BY <1>1, <1>2, <1>3, FS_Subset

\* Each step of opening or closing takes from a limiter, or gives back to it, just what
\* its place stands for (NewRandomAccessFile and the two kinds of files).
LEMMA ReadersStep ==
    ASSUME ReadersInv, [ReadersNext]_readersVars
    PROVE  ReadersInv'
<1> USE ReadersConstants DEF ReadersInv, LimitsHold, Places, Moved
<1>1. CASE UNCHANGED readersVars
  <2>1. ASSUME NEW S PROVE In(S)' = In(S)
    BY <1>1 DEF readersVars, In
  <2>2. QED
    BY <1>1, <2>1 DEF readersVars
<1>2. ASSUME NEW t \in ReaderThreads, OpenFile(t) PROVE ReadersInv'
  <2>1. At(t, "closed", "opened")
    BY <1>2 DEF OpenFile
  <2>2. QED
    BY <1>2, <2>1, Counts DEF OpenFile
<1>3. ASSUME NEW t \in ReaderThreads, AcquireMmap(t) PROVE ReadersInv'
  <2>1. CASE mmaps > 0
    <3>1. At(t, "opened", "mapping")
      BY <1>3, <2>1 DEF AcquireMmap
    <3>2. QED
      BY <1>3, <2>1, <3>1, Counts, MappedHaveTaken DEF AcquireMmap
  <2>2. CASE ~(mmaps > 0)
    <3>1. At(t, "opened", "noMmap")
      BY <1>3, <2>2 DEF AcquireMmap
    <3>2. QED
      BY <1>3, <2>2, <3>1, Counts DEF AcquireMmap
  <2>3. QED
    BY <2>1, <2>2
<1>4. ASSUME NEW t \in ReaderThreads, ReturnMmap(t) PROVE ReadersInv'
  <2>1. At(t, "noMmap", "descriptor")
    BY <1>4 DEF ReturnMmap
  <2>2. QED
    BY <1>4, <2>1, Counts DEF ReturnMmap
<1>5. ASSUME NEW t \in ReaderThreads, Mmap(t) PROVE ReadersInv'
  <2>1. At(t, "mapping", "mmap")
    BY <1>5 DEF Mmap
  <2>2. QED
    BY <1>5, <2>1, Counts DEF Mmap
<1>6. ASSUME NEW t \in ReaderThreads, MmapFails(t) PROVE ReadersInv'
  <2>1. At(t, "mapping", "closed")
    BY <1>6 DEF MmapFails
  <2>2. QED
    BY <1>6, <2>1, Counts DEF MmapFails
<1>7. ASSUME NEW t \in ReaderThreads, AcquireFd(t) PROVE ReadersInv'
  <2>1. CASE fds > 0
    <3>1. At(t, "descriptor", "fd")
      BY <1>7, <2>1 DEF AcquireFd
    <3>2. QED
      BY <1>7, <2>1, <3>1, Counts, MappedHaveTaken DEF AcquireFd
  <2>2. CASE ~(fds > 0)
    <3>1. At(t, "descriptor", "noFd")
      BY <1>7, <2>2 DEF AcquireFd
    <3>2. QED
      BY <1>7, <2>2, <3>1, Counts DEF AcquireFd
  <2>3. QED
    BY <2>1, <2>2
<1>8. ASSUME NEW t \in ReaderThreads, ReturnFd(t) PROVE ReadersInv'
  <2>1. At(t, "noFd", "byName")
    BY <1>8 DEF ReturnFd
  <2>2. QED
    BY <1>8, <2>1, Counts DEF ReturnFd
<1>9. ASSUME NEW t \in ReaderThreads, CloseMmap(t) PROVE ReadersInv'
  <2>1. At(t, "mmap", "closed")
    BY <1>9 DEF CloseMmap
  <2>2. QED
    BY <1>9, <2>1, Counts DEF CloseMmap
<1>10. ASSUME NEW t \in ReaderThreads, CloseFd(t) PROVE ReadersInv'
  <2>1. At(t, "fd", "closed")
    BY <1>10 DEF CloseFd
  <2>2. QED
    BY <1>10, <2>1, Counts DEF CloseFd
<1>11. ASSUME NEW t \in ReaderThreads, CloseByName(t) PROVE ReadersInv'
  <2>1. At(t, "byName", "closed")
    BY <1>11 DEF CloseByName
  <2>2. QED
    BY <1>11, <2>1, Counts DEF CloseByName
<1>12. QED
  BY <1>1, <1>2, <1>3, <1>4, <1>5, <1>6, <1>7, <1>8, <1>9, <1>10, <1>11 DEF ReadersNext

\* A limit is never passed and nothing that was taken from it is lost, however threads open
\* and close files and however many mappings fail (Limiter in env_posix.cc).
THEOREM LimitsAccounted == ReadersSpec => []LimitsHold
<1>1. ReadersInit => ReadersInv
  BY ReadersInitial
<1>2. ReadersInv /\ [ReadersNext]_readersVars => ReadersInv'
  BY ReadersStep
<1>3. ReadersInv => LimitsHold
  BY DEF ReadersInv
<1>4. QED
  BY <1>1, <1>2, <1>3, PTL DEF ReadersSpec

-----------------------------------------------------------------------------
(* The background thread: any number of threads that schedule.                 *)

ThreadPlaces == {"none", "lock", "test", "waiting", "running"}
CallPlaces == {"idle", "locked", "signal", "push"}

BackgroundTypes ==
    /\ queue \in Seq(Nat) /\ ran \in Seq(Nat) /\ count \in Nat
    /\ started \in BOOLEAN /\ thread \in ThreadPlaces
    /\ mutex \in Schedulers \cup {"free", "thread"}
    /\ calls \in [Schedulers -> CallPlaces]

\* WorkIsTaken is not inductive: it speaks of a free mutex, while the signal is given before
\* the item is in the queue, with the mutex held.  NotMissed says of every state that a
\* queued item has a thread that is awake, and of one about to be queued that its signal
\* was not given too early.
MutexOwned ==
    /\ \A s \in Schedulers : calls[s] # "idle" <=> mutex = s
    /\ thread = "test" <=> mutex = "thread"
NotMissed ==
    /\ started <=> thread # "none"
    /\ queue # <<>> => thread \notin {"none", "waiting"}
    /\ \A s \in Schedulers : /\ calls[s] \in {"signal", "push"} => started
                             /\ calls[s] = "push" => thread \in {"lock", "running"}
UpTo(n) == [i \in 1 .. n |-> i]
InOrder == ran \o queue = UpTo(count)

BackgroundInv == BackgroundTypes /\ MutexOwned /\ NotMissed /\ InOrder

-----------------------------------------------------------------------------

\* An item put at the end of the queue is the last of all.
LEMMA PushKeepsOrder ==
    ASSUME NEW r \in Seq(Nat), NEW q \in Seq(Nat), NEW n \in Nat,
           r \o q = UpTo(n)
    PROVE  r \o Append(q, n + 1) = UpTo(n + 1)
<1> DEFINE all == r \o q
           more == r \o Append(q, n + 1)
<1>1. all \in Seq(Nat) /\ Len(all) = n /\ \A i \in 1 .. n : all[i] = i
  <2>1. all \in Seq(Nat) /\ DOMAIN all = 1 .. Len(all) /\ Len(all) \in Nat
    BY DEF UpTo
  <2>2. DOMAIN all = 1 .. n
    BY DEF UpTo
  <2>3. Len(all) = n
    BY <2>1, <2>2
  <2>4. QED
    BY <2>1, <2>3 DEF UpTo
<1>2. more = Append(all, n + 1)
  <2>1. /\ more \in Seq(Nat) /\ Append(all, n + 1) \in Seq(Nat)
        /\ Len(more) = Len(Append(all, n + 1))
    BY <1>1
  <2>2. ASSUME NEW i \in 1 .. Len(more) PROVE more[i] = Append(all, n + 1)[i]
    BY <1>1
  <2> HIDE DEF all, more
  <2>3. QED
    BY <2>1, <2>2, SeqEqual
<1>3. more \in Seq(Nat) /\ Len(more) = n + 1
  BY <1>1, <1>2
<1> HIDE DEF all, more
<1>4. ASSUME NEW i \in 1 .. n + 1 PROVE more[i] = i
  <2>1. CASE i \in 1 .. n
    BY <1>1, <1>2, <2>1
  <2>2. CASE i = n + 1
    BY <1>1, <1>2, <2>2
  <2>3. QED
    BY <2>1, <2>2
<1>5. more = [i \in 1 .. n + 1 |-> more[i]]
  BY <1>3
<1>6. more = [i \in 1 .. n + 1 |-> i]
  BY <1>4, <1>5
<1>7. QED
  BY <1>6 DEF more, UpTo

\* An item that goes from the front of the queue to the end of those that ran stays where
\* it is among all.
LEMMA PopKeepsOrder ==
    ASSUME NEW r \in Seq(Nat), NEW q \in Seq(Nat), q # <<>>
    PROVE  Append(r, Head(q)) \o Tail(q) = r \o q
<1> DEFINE left == Append(r, Head(q)) \o Tail(q)
           right == r \o q
<1>1. Len(left) = Len(right) /\ left \in Seq(Nat) /\ right \in Seq(Nat)
  OBVIOUS
<1>2. ASSUME NEW i \in 1 .. Len(right) PROVE left[i] = right[i]
  OBVIOUS
<1>3. QED
  BY <1>1, <1>2

-----------------------------------------------------------------------------

\* Nothing is queued and nobody is in Schedule when the environment is made.
LEMMA BackgroundInitial ==
    ASSUME BackgroundInit
    PROVE  BackgroundInv
<1>1. BackgroundTypes /\ MutexOwned /\ NotMissed
  <2>1. "free" \notin Schedulers
    BY SchedulersAreNeither
  <2>2. BackgroundTypes
    <3>1. queue \in Seq(Nat) /\ ran \in Seq(Nat)
      BY DEF BackgroundInit
    <3>2. count \in Nat
      BY DEF BackgroundInit
    <3>3. /\ started \in BOOLEAN /\ thread \in ThreadPlaces
          /\ mutex \in Schedulers \cup {"free", "thread"}
      BY DEF BackgroundInit, ThreadPlaces
    <3>4. calls \in [Schedulers -> CallPlaces]
      BY DEF BackgroundInit, CallPlaces
    <3>5. QED
      BY <3>1, <3>2, <3>3, <3>4 DEF BackgroundTypes
  <2>3. MutexOwned
    BY <2>1 DEF BackgroundInit, MutexOwned
  <2>4. NotMissed
    BY DEF BackgroundInit, NotMissed
  <2>5. QED
    BY <2>2, <2>3, <2>4
<1>2. /\ <<>> \o <<>> = <<>>
      /\ UpTo(0) = <<>>
  <2>1. <<>> \in Seq(Nat) /\ <<>> \o <<>> \in Seq(Nat) /\ Len(<<>> \o <<>>) = 0
    OBVIOUS
  <2>2. UpTo(0) \in Seq(Nat) /\ Len(UpTo(0)) = 0
    BY DEF UpTo
  <2>3. \A s \in Seq(Nat) : Len(s) = 0 => s = <<>>
    BY EmptySeq
  <2>4. QED
    BY <2>1, <2>2, <2>3
<1>3. InOrder
  BY <1>2 DEF BackgroundInit, InOrder
<1>4. QED
  BY <1>1, <1>3 DEF BackgroundInv

\* A step of the thread that schedules or of the one that works (Schedule and
\* BackgroundThreadMain of env_posix.cc).
LEMMA BackgroundStep ==
    ASSUME BackgroundInv, [BackgroundNext]_backgroundVars
    PROVE  BackgroundInv'
<1> USE SchedulersAreNeither DEF BackgroundInv, BackgroundTypes, MutexOwned, NotMissed, InOrder,
            ThreadPlaces, CallPlaces
<1>1. CASE UNCHANGED backgroundVars
  BY <1>1 DEF backgroundVars
<1>2. ASSUME NEW s \in Schedulers, LockToSchedule(s) PROVE BackgroundInv'
  BY <1>2, SMTT(30) DEF LockToSchedule
<1>3. ASSUME NEW s \in Schedulers, StartThread(s) PROVE BackgroundInv'
  BY <1>3 DEF StartThread
<1>4. ASSUME NEW s \in Schedulers, Signal(s) PROVE BackgroundInv'
  BY <1>4 DEF Signal
<1>5. ASSUME NEW s \in Schedulers, Push(s) PROVE BackgroundInv'
  <2>1. InOrder'
    BY <1>5, PushKeepsOrder DEF Push
  <2>2. BackgroundTypes' /\ MutexOwned' /\ NotMissed'
    BY <1>5 DEF Push
  <2>3. QED
    BY <2>1, <2>2
<1>6. CASE LockToWork
  BY <1>6 DEF LockToWork
<1>7. CASE Wait
  BY <1>7 DEF Wait
<1>8. CASE WakesUp
  BY <1>8 DEF WakesUp
<1>9. CASE Pop
  <2>1. InOrder'
    BY <1>9, PopKeepsOrder DEF Pop
  <2>2. BackgroundTypes' /\ MutexOwned' /\ NotMissed'
    BY <1>9 DEF Pop
  <2>3. QED
    BY <2>1, <2>2
<1>10. CASE WorkReturns
  BY <1>10 DEF WorkReturns
<1>11. QED
  BY <1>1, <1>2, <1>3, <1>4, <1>5, <1>6, <1>7, <1>8, <1>9, <1>10 DEF BackgroundNext

\* No wake-up is lost although only the item that finds the queue empty signals, and the
\* items run once each, in the order in which Schedule was called.
THEOREM NoItemMissed == BackgroundSpec => []WorkIsTaken
<1>1. BackgroundInit => BackgroundInv
  BY BackgroundInitial
<1>2. BackgroundInv /\ [BackgroundNext]_backgroundVars => BackgroundInv'
  BY BackgroundStep
<1>3. BackgroundInv => WorkIsTaken
  BY DEF BackgroundInv, BackgroundTypes, ThreadPlaces, MutexOwned, NotMissed, InOrder, UpTo, WorkIsTaken
<1>4. QED
  BY <1>1, <1>2, <1>3, PTL DEF BackgroundSpec

-----------------------------------------------------------------------------
(* The file that is written: any buffer, any sizes of data, any errors.        *)

\* The bytes on their way: the file, the buffer, the data that is being written and the
\* data that waits for it.
Stream == contents \o (buf \o (direct \o rest))

Ordered(s, n) ==
    /\ s \in Seq(Nat)
    /\ \A i, j \in 1 .. Len(s) : i < j => s[i] < s[j]
    /\ \A i \in 1 .. Len(s) : s[i] <= n

WriterTypes ==
    /\ contents \in Seq(Nat) /\ buf \in Seq(Nat) /\ direct \in Seq(Nat) /\ rest \in Seq(Nat)
    /\ then \in {"ready", "return", "buffer", "direct", "sync"}
    /\ appended \in Nat /\ lost \in BOOLEAN /\ synced \in Nat

\* BytesInOrder speaks of the file and the buffer; while a call is under way the order
\* has to hold for what it still carries too, and the buffer is then empty.
WriterInv ==
    /\ WriterTypes
    /\ Len(buf) <= BufferSize
    /\ IF Ready THEN direct = <<>> /\ rest = <<>> ELSE buf = <<>>
    /\ then = "buffer" => Len(rest) < BufferSize
    /\ then \in {"return", "sync"} => rest = <<>>
    /\ Ordered(Stream, appended)
    /\ ~lost => Stream = UpTo(appended)
    /\ synced <= Len(contents)

-----------------------------------------------------------------------------

LEMMA Concat ==
    ASSUME NEW s \in Seq(Nat), NEW r \in Seq(Nat)
    PROVE  /\ s \o r \in Seq(Nat) /\ Len(s \o r) = Len(s) + Len(r) /\ Len(s) \in Nat
           /\ \A i \in 1 .. Len(s \o r) :
                 (s \o r)[i] = IF i <= Len(s) THEN s[i] ELSE r[i - Len(s)]
OBVIOUS

\* What is appended is numbered after all that was.
LEMMA BytesFollow ==
    ASSUME appended \in Nat, NEW n \in Nat, NEW s, Ordered(s, appended)
    PROVE  /\ Bytes(n) \in Seq(Nat) /\ Len(Bytes(n)) = n
           /\ Ordered(s \o Bytes(n), appended + n)
           /\ s = UpTo(appended) => s \o Bytes(n) = UpTo(appended + n)
<1>1. /\ Bytes(n) \in Seq(Nat) /\ Len(Bytes(n)) = n
      /\ \A i \in 1 .. n : Bytes(n)[i] = appended + i
  BY DEF Bytes
<1>2. s \in Seq(Nat)
  BY DEF Ordered
<1> DEFINE m == s \o Bytes(n)
<1>3. /\ m \in Seq(Nat) /\ Len(m) = Len(s) + n /\ Len(s) \in Nat
      /\ \A i \in 1 .. Len(s) : m[i] = s[i]
      /\ \A i \in 1 .. Len(m) : i > Len(s) => m[i] = appended + (i - Len(s))
  <2>1. /\ m \in Seq(Nat) /\ Len(m) = Len(s) + n /\ Len(s) \in Nat
        /\ \A i \in 1 .. Len(m) : m[i] = IF i <= Len(s) THEN s[i] ELSE Bytes(n)[i - Len(s)]
    BY <1>1, <1>2, Concat
  <2>2. ASSUME NEW i \in 1 .. Len(m), i > Len(s) PROVE m[i] = appended + (i - Len(s))
    <3>1. i - Len(s) \in 1 .. n
      BY <2>1, <2>2
    <3> QED BY <1>1, <2>1, <2>2, <3>1
  <2> HIDE DEF m
  <2> QED BY <2>1, <2>2
<1> HIDE DEF m
<1>4. ASSUME NEW i \in 1 .. Len(m), NEW j \in 1 .. Len(m), i < j PROVE m[i] < m[j]
  <2>0. i \in Nat /\ j \in Nat /\ (j <= Len(s) => i <= Len(s))
    BY <1>3, <1>4
  <2>1. CASE j <= Len(s)
    BY <1>3, <1>4, <2>0, <2>1 DEF Ordered
  <2>2. CASE i <= Len(s) /\ j > Len(s)
    <3>1. i \in 1 .. Len(s) /\ j - Len(s) >= 1
      BY <1>3, <1>4, <2>2
    <3>2. m[i] = s[i] /\ s[i] <= appended /\ s[i] \in Nat
      BY <1>2, <1>3, <3>1, SMTT(30) DEF Ordered
    <3>3. m[j] = appended + (j - Len(s))
      BY <1>3, <1>4, <2>2
    <3> QED BY <1>3, <2>0, <3>1, <3>2, <3>3
  <2>3. CASE i > Len(s)
    <3>1. m[i] = appended + (i - Len(s)) /\ m[j] = appended + (j - Len(s))
      BY <1>3, <1>4, <2>0, <2>3
    <3> QED BY <1>3, <1>4, <2>0, <3>1
  <2> QED BY <1>3, <2>0, <2>1, <2>2, <2>3
<1>5. ASSUME NEW i \in 1 .. Len(m) PROVE m[i] <= appended + n
  <2>1. CASE i <= Len(s)
    <3>1. i \in 1 .. Len(s)
      BY <1>3, <2>1
    <3>2. m[i] = s[i] /\ s[i] <= appended /\ s[i] \in Nat
      BY <1>2, <1>3, <3>1 DEF Ordered
    <3> QED BY <3>2
  <2>2. CASE i > Len(s)
    <3>1. m[i] = appended + (i - Len(s)) /\ i - Len(s) <= n
      BY <1>3, <2>2
    <3> QED BY <1>3, <3>1
  <2> QED BY <1>3, <2>1, <2>2
<1>6. ASSUME s = UpTo(appended) PROVE m = UpTo(appended + n)
  <2>1. Len(s) = appended /\ \A i \in 1 .. appended : s[i] = i
    <3>1. DOMAIN s = 1 .. appended /\ DOMAIN s = 1 .. Len(s) /\ Len(s) \in Nat
      BY <1>2, <1>3, <1>6 DEF UpTo
    <3> QED BY <1>6, <3>1 DEF UpTo
  <2>2. ASSUME NEW i \in 1 .. appended + n PROVE m[i] = i
    BY <1>3, <2>1
  <2>3. m = [i \in 1 .. appended + n |-> m[i]]
    BY <1>3, <2>1
  <2> QED BY <2>2, <2>3 DEF UpTo
<1> QED BY <1>1, <1>3, <1>4, <1>5, <1>6 DEF Ordered, m

\* What is left of a stream when its end is lost is still in order.
LEMMA PrefixOrdered ==
    ASSUME NEW s \in Seq(Nat), NEW r \in Seq(Nat), NEW n \in Nat, Ordered(s \o r, n)
    PROVE  Ordered(s, n)
<1> DEFINE all == s \o r
<1>1. /\ Len(s) \in Nat /\ Len(r) \in Nat /\ Len(all) = Len(s) + Len(r)
      /\ \A i \in 1 .. Len(s) : all[i] = s[i]
  OBVIOUS
<1>2. \A i \in 1 .. Len(s) : i \in 1 .. Len(all)
  BY <1>1
<1>3. Ordered(all, n)
  OBVIOUS
<1> HIDE DEF all
<1> QED BY <1>1, <1>2, <1>3 DEF Ordered

LEMMA Split ==
    ASSUME NEW s \in Seq(Nat), NEW k \in 0 .. Len(s)
    PROVE  /\ SubSeq(s, 1, k) \in Seq(Nat) /\ Len(SubSeq(s, 1, k)) = k
           /\ SubSeq(s, k + 1, Len(s)) \in Seq(Nat)
           /\ Len(SubSeq(s, k + 1, Len(s))) = Len(s) - k
           /\ SubSeq(s, 1, k) \o SubSeq(s, k + 1, Len(s)) = s
<1> DEFINE a == SubSeq(s, 1, k)
           b == SubSeq(s, k + 1, Len(s))
<1>0. Len(s) \in Nat /\ k \in Nat /\ k <= Len(s)
  OBVIOUS
<1>1. a \in Seq(Nat) /\ Len(a) = k /\ \A i \in 1 .. k : a[i] = s[i]
  BY <1>0
<1>2. /\ b \in Seq(Nat) /\ Len(b) = Len(s) - k
      /\ \A i \in 1 .. Len(s) - k : b[i] = s[k + i]
  BY <1>0
<1> HIDE DEF a, b
<1>3. a \o b \in Seq(Nat) /\ Len(a \o b) = Len(s)
  <2>1. a \o b \in Seq(Nat) /\ Len(a \o b) = Len(a) + Len(b)
    BY <1>1, <1>2, Concat
  <2> QED BY <1>0, <1>1, <1>2, <2>1
<1>4. ASSUME NEW i \in 1 .. Len(s) PROVE (a \o b)[i] = s[i]
  <2>1. (a \o b)[i] = IF i <= k THEN a[i] ELSE b[i - k]
    BY <1>1, <1>2, <1>3, Concat, SMTT(30)
  <2>2. CASE i <= k
    BY <1>0, <1>1, <2>1, <2>2
  <2>3. CASE ~(i <= k)
    <3>1. i - k \in 1 .. Len(s) - k /\ k + (i - k) = i
      BY <1>0, <2>3
    <3> QED BY <1>2, <2>1, <2>3, <3>1
  <2> QED BY <2>2, <2>3
<1>5. a \o b = s
  BY <1>3, <1>4, SeqEqual
<1> QED BY <1>1, <1>2, <1>5 DEF a, b

LEMMA Assoc ==
    ASSUME NEW c \in Seq(Nat), NEW d \in Seq(Nat), NEW r \in Seq(Nat)
    PROVE  (c \o d) \o r = c \o (d \o r)
<1> DEFINE left  == (c \o d) \o r
           right == c \o (d \o r)
           n == Len(c)
           m == Len(d)
           all == n + m + Len(r)
<1>1. n \in Nat /\ m \in Nat /\ Len(r) \in Nat
  OBVIOUS
<1>2. /\ c \o d \in Seq(Nat) /\ Len(c \o d) = n + m
      /\ \A i \in 1 .. n + m : (c \o d)[i] = IF i <= n THEN c[i] ELSE d[i - n]
  BY Concat
<1>3. /\ d \o r \in Seq(Nat) /\ Len(d \o r) = m + Len(r)
      /\ \A i \in 1 .. m + Len(r) : (d \o r)[i] = IF i <= m THEN d[i] ELSE r[i - m]
  BY Concat
<1>4. /\ left \in Seq(Nat) /\ Len(left) = all
      /\ \A i \in 1 .. all : left[i] = IF i <= n + m THEN (c \o d)[i] ELSE r[i - (n + m)]
  BY <1>2, Concat
<1>5. /\ right \in Seq(Nat) /\ Len(right) = all
      /\ \A i \in 1 .. all : right[i] = IF i <= n THEN c[i] ELSE (d \o r)[i - n]
  <2>1. /\ right \in Seq(Nat) /\ Len(right) = n + (m + Len(r))
        /\ \A i \in 1 .. n + (m + Len(r)) : right[i] = IF i <= n THEN c[i] ELSE (d \o r)[i - n]
    BY <1>3, Concat
  <2>2. n + (m + Len(r)) = all
    BY <1>1
  <2> QED BY <2>1, <2>2
<1> HIDE DEF left, right, n, m
<1>6. ASSUME NEW i \in 1 .. all PROVE left[i] = right[i]
  <2>1. CASE i <= n
    <3>1. i \in 1 .. n + m /\ i <= n + m
      BY <1>1, <2>1
    <3>2. left[i] = (c \o d)[i]
      BY <1>4, <3>1
    <3> QED BY <1>2, <1>5, <2>1, <3>1, <3>2
  <2>2. CASE ~(i <= n) /\ i <= n + m
    <3>1. i \in 1 .. n + m /\ i - n \in 1 .. m + Len(r) /\ i - n <= m
      BY <1>1, <2>2
    <3>2. left[i] = (c \o d)[i] /\ right[i] = (d \o r)[i - n]
      BY <1>4, <1>5, <2>2
    <3> QED BY <1>2, <1>3, <2>2, <3>1, <3>2
  <2>3. CASE ~(i <= n + m)
    <3>1. /\ i - n \in 1 .. m + Len(r) /\ ~(i <= n) /\ ~(i - n <= m)
          /\ i - n - m = i - (n + m)
      BY <1>1, <2>3
    <3>2. left[i] = r[i - (n + m)]
      BY <1>4, <2>3
    <3>3. right[i] = (d \o r)[i - n]
      BY <1>5, <3>1
    <3> QED BY <1>3, <3>1, <3>2, <3>3
  <2> QED BY <2>1, <2>2, <2>3
<1>7. left = right
  BY <1>4, <1>5, <1>6, SeqEqual
<1> QED BY <1>7 DEF left, right

\* Where a step puts the bytes does not matter as long as their order stays.
LEMMA Regroup ==
    ASSUME NEW c \in Seq(Nat), NEW b \in Seq(Nat), NEW d \in Seq(Nat), NEW r \in Seq(Nat)
    PROVE  /\ c \o (b \o (<<>> \o <<>>)) = c \o b
           /\ c \o (<<>> \o (b \o <<>>)) = c \o b
           /\ c \o (<<>> \o (d \o r)) = c \o (d \o r)
           /\ c \o (<<>> \o (<<>> \o r)) = c \o r
           /\ (c \o d) \o r = c \o (d \o r)
           /\ c \o d \in Seq(Nat) /\ d \o r \in Seq(Nat)
           /\ <<>> \in Seq(Nat)
<1>1. <<>> \in Seq(Nat) /\ d \o r \in Seq(Nat) /\ c \o d \in Seq(Nat)
  BY Concat
<1>2. /\ <<>> \o r = r /\ <<>> \o <<>> = <<>> /\ b \o <<>> = b /\ <<>> \o b = b
      /\ <<>> \o (d \o r) = d \o r
  BY <1>1, ConcatEmptySeq
<1>3. (c \o d) \o r = c \o (d \o r)
  BY Assoc
<1> QED BY <1>1, <1>2, <1>3

\* Of what is appended the part that fits, and what is left.
LEMMA FitsSplits ==
    ASSUME WriterInv, NEW n \in AppendSizes
    PROVE  /\ n \in Nat /\ Len(buf) \in Nat
           /\ Fits(n) \in 0 .. n /\ Len(buf) + Fits(n) <= BufferSize
           /\ Bytes(n) \in Seq(Nat) /\ Len(Bytes(n)) = n
BY WriterConstants DEF WriterInv, WriterTypes, Fits, Bytes

LEMMA AppendKeeps ==
    ASSUME WriterInv, NEW n \in AppendSizes, AppendData(n)
    PROVE  WriterInv'
<1> DEFINE data == Bytes(n)
           k == Fits(n)
           fits == SubSeq(data, 1, k)
           left == SubSeq(data, k + 1, n)
           full == buf \o fits
<1>0. /\ n \in Nat /\ k \in 0 .. n /\ Len(buf) + k <= BufferSize /\ Len(buf) \in Nat
      /\ data \in Seq(Nat) /\ Len(data) = n
  BY FitsSplits
<1>1. /\ contents \in Seq(Nat) /\ buf \in Seq(Nat) /\ appended \in Nat
      /\ direct = <<>> /\ rest = <<>> /\ Ready
      /\ Ordered(Stream, appended) /\ (~lost => Stream = UpTo(appended))
  BY DEF AppendData, WriterInv, WriterTypes
<1>2. Stream = contents \o buf
  BY <1>1, Regroup DEF Stream
<1>3. /\ fits \in Seq(Nat) /\ Len(fits) = k
      /\ left \in Seq(Nat) /\ Len(left) = n - k /\ fits \o left = data
  BY <1>0, Split
<1>4. full = buf \o fits
  OBVIOUS
<1>5. /\ UNCHANGED <<contents, lost, synced>> /\ appended' = appended + n
       /\ IF left = <<>>
          THEN buf' = full /\ UNCHANGED <<direct, then, rest>>
          ELSE /\ buf' = <<>> /\ direct' = full /\ rest' = left
               /\ then' = IF Len(left) < BufferSize THEN "buffer" ELSE "direct"
  BY DEF AppendData
<1> HIDE DEF fits, left, full, k
<1>6. full \in Seq(Nat) /\ Len(full) = Len(buf) + k /\ full \o left = buf \o data
  <2>1. full \in Seq(Nat) /\ Len(full) = Len(buf) + Len(fits)
    BY <1>1, <1>3, <1>4, Concat
  <2>2. buf \in Seq(Nat) /\ fits \in Seq(Nat) /\ left \in Seq(Nat)
    BY <1>1, <1>3
  <2>3. (buf \o fits) \o left = buf \o (fits \o left)
    BY <2>2, Assoc, Zenon
  <2> QED BY <1>3, <1>4, <2>1, <2>3
<1>7. /\ Ordered(Stream \o data, appended + n)
      /\ ~lost => Stream \o data = UpTo(appended + n)
  BY <1>0, <1>1, BytesFollow
<1>8. Stream \o data = contents \o (buf \o data)
  <2> HIDE DEF data
  <2>1. contents \in Seq(Nat) /\ buf \in Seq(Nat) /\ data \in Seq(Nat)
    BY <1>0, <1>1
  <2>2. (contents \o buf) \o data = contents \o (buf \o data)
    BY <2>1, Assoc, Zenon
  <2> QED BY <1>2, <2>2
<1>9. UNCHANGED <<contents, lost, synced>> /\ appended' = appended + n /\ appended' \in Nat
  BY <1>0, <1>1, <1>5
<1> HIDE DEF data
<1>10. CASE left = <<>>
  <2>1. buf' = full /\ UNCHANGED <<direct, then, rest>>
    BY <1>10, <1>5
  <2>2. full = buf \o data
    <3>1. full \o <<>> = full
      BY <1>6, ConcatEmptySeq
    <3> QED BY <1>6, <1>10, <3>1
  <2>3. Stream' = Stream \o data
    <3>1. Stream' = contents \o (full \o (<<>> \o <<>>))
      BY <1>1, <1>9, <2>1 DEF Stream
    <3>2. contents \o (full \o (<<>> \o <<>>)) = contents \o full
      BY <1>1, <1>6, Regroup
    <3> QED BY <1>8, <2>2, <3>1, <3>2
  <2> QED BY <1>0, <1>1, <1>6, <1>7, <1>9, <2>1, <2>3 DEF WriterInv, WriterTypes, Ready
<1>11. CASE left # <<>>
  <2>1. /\ buf' = <<>> /\ direct' = full /\ rest' = left
        /\ then' = IF Len(left) < BufferSize THEN "buffer" ELSE "direct"
    BY <1>11, <1>5
  <2>2. Stream' = Stream \o data
    <3>1. Stream' = contents \o (<<>> \o (full \o left))
      BY <1>9, <2>1 DEF Stream
    <3>2. contents \o (<<>> \o (full \o left)) = contents \o (full \o left)
      BY <1>1, <1>3, <1>6, Regroup
    <3> QED BY <1>6, <1>8, <3>1, <3>2
  <2>3. Len(<<>>) <= BufferSize /\ <<>> \in Seq(Nat)
    BY WriterConstants
  <2> QED BY <1>1, <1>3, <1>6, <1>7, <1>9, <2>1, <2>2, <2>3 DEF WriterInv, WriterTypes, Ready
<1> QED BY <1>10, <1>11

\* The other calls, and write(): the bytes move along the stream, or its end is lost.
LEMMA WriterStep ==
    ASSUME WriterInv, [WriterNext]_writerVars
    PROVE  WriterInv'
<1>0. /\ contents \in Seq(Nat) /\ buf \in Seq(Nat) /\ direct \in Seq(Nat) /\ rest \in Seq(Nat)
      /\ appended \in Nat /\ synced \in Nat /\ synced <= Len(contents)
      /\ Ordered(Stream, appended) /\ (~lost => Stream = UpTo(appended))
      /\ <<>> \in Seq(Nat) /\ Len(<<>>) = 0 /\ 0 < BufferSize /\ BufferSize \in Nat
      /\ Len(contents) \in Nat
  BY WriterConstants DEF WriterInv, WriterTypes
<1>1. ASSUME NEW n \in AppendSizes, AppendData(n) PROVE WriterInv'
  BY <1>1, AppendKeeps
<1>2. ASSUME NEW next \in {"return", "sync"}, Flush(next) PROVE WriterInv'
  <2>1. direct = <<>> /\ rest = <<>>
    BY <1>2 DEF WriterInv, Flush
  <2>2. /\ direct' = buf /\ buf' = <<>> /\ rest' = <<>> /\ then' = next
        /\ UNCHANGED <<contents, appended, lost, synced, errors>>
    BY <1>2 DEF Flush
  <2>3. Stream' = Stream
    <3>1. Stream' = contents \o (<<>> \o (buf \o <<>>))
      BY <2>2 DEF Stream
    <3>2. Stream = contents \o (buf \o (<<>> \o <<>>))
      BY <2>1 DEF Stream
    <3> QED BY <1>0, <3>1, <3>2, Regroup
  <2> QED BY <1>0, <2>2, <2>3 DEF WriterInv, WriterTypes, Ready
<1>3. ASSUME NEW n \in 1 .. Len(direct), Write(n) PROVE WriterInv'
  <2> DEFINE out == SubSeq(direct, 1, n)
             left == SubSeq(direct, n + 1, Len(direct))
  <2>1. /\ contents' = contents \o out /\ direct' = left
        /\ UNCHANGED <<buf, then, rest, appended, lost, synced, errors>>
    BY <1>3 DEF Write
  <2>2. ~Ready /\ buf = <<>>
    BY <1>3 DEF WriterInv, Write
  <2>3. n \in 0 .. Len(direct)
    BY <1>0
  <2>4. /\ out \in Seq(Nat) /\ left \in Seq(Nat) /\ out \o left = direct /\ Len(out) = n
    BY <1>0, <2>3, Split
  <2> HIDE DEF out, left
  <2>5. Stream' = Stream
    <3>1. Stream' = (contents \o out) \o (<<>> \o (left \o rest))
      BY <2>1, <2>2 DEF Stream
    <3>2. Stream = contents \o (<<>> \o (direct \o rest))
      BY <2>2 DEF Stream
    <3>3. /\ contents \o out \in Seq(Nat) /\ left \o rest \in Seq(Nat)
          /\ direct \o rest \in Seq(Nat)
      BY <1>0, <2>4, Concat
    <3>4. Stream' = (contents \o out) \o (left \o rest)
      BY <1>0, <2>4, <3>1, <3>3, Regroup
    <3>5. Stream = contents \o (direct \o rest)
      BY <1>0, <3>2, Regroup
    <3>6. (contents \o out) \o (left \o rest) = contents \o (out \o (left \o rest))
      <4>1. contents \in Seq(Nat)
        BY <1>0
      <4>2. out \in Seq(Nat)
        BY <2>4
      <4>3. left \o rest \in Seq(Nat)
        BY <3>3
      <4> QED BY ONLY <4>1, <4>2, <4>3, Assoc
    <3>7. (out \o left) \o rest = out \o (left \o rest)
      <4>1. rest \in Seq(Nat)
        BY <1>0
      <4>2. out \in Seq(Nat)
        BY <2>4
      <4>3. left \in Seq(Nat)
        BY <2>4
      <4> QED BY ONLY <4>1, <4>2, <4>3, Assoc
    <3> QED BY <2>4, <3>4, <3>5, <3>6, <3>7
  <2>6. contents' \in Seq(Nat) /\ Len(contents') >= Len(contents)
    <3>1. /\ contents \o out \in Seq(Nat) /\ Len(contents \o out) = Len(contents) + n
      BY <1>0, <2>4, Concat
    <3> QED BY <1>0, <2>1, <2>3, <3>1
  <2>7. synced' <= Len(contents')
    <3>1. Len(contents') \in Nat
      BY <2>6
    <3> QED BY <1>0, <2>1, <2>6, <3>1
  <2> QED BY <1>0, <2>1, <2>2, <2>4, <2>5, <2>6, <2>7 DEF WriterInv, WriterTypes, Ready
<1>4. CASE SyncDirFails
  <2>1. Stream' = Stream
    BY <1>4 DEF SyncDirFails, Stream
  <2> QED BY <1>0, <1>4, <2>1 DEF SyncDirFails, WriterInv, WriterTypes, Ready
<1>5. CASE WriteFails
  <2>1. buf = <<>> /\ buf' = <<>> /\ direct' = <<>> /\ rest' = <<>> /\ then' = "ready"
    BY <1>5 DEF WriteFails, WriterInv
  <2>2. UNCHANGED <<contents, appended, synced>> /\ lost' = TRUE
    BY <1>5 DEF WriteFails
  <2>3. Stream' = contents
    <3>1. Stream' = contents \o (<<>> \o (<<>> \o <<>>))
      BY <2>1, <2>2 DEF Stream
    <3> QED BY <1>0, <3>1, Regroup, ConcatEmptySeq
  <2>4. Ordered(contents, appended)
    <3>1. buf \o (direct \o rest) \in Seq(Nat)
      BY <1>0, Concat
    <3> QED BY <1>0, <3>1, PrefixOrdered DEF Stream
  <2> QED BY <1>0, <2>1, <2>2, <2>3, <2>4 DEF WriterInv, WriterTypes, Ready
<1>6. CASE Written
  <2>1. /\ buf = <<>> /\ direct = <<>> /\ ~Ready /\ UNCHANGED <<contents, appended>>
        /\ then \in {"return", "buffer", "direct", "sync"}
    BY <1>6 DEF Written, WriterInv, WriterTypes, Ready
  <2>2. Stream = contents \o rest
    <3>1. Stream = contents \o (<<>> \o (<<>> \o rest))
      BY <2>1 DEF Stream
    <3> QED BY <1>0, <3>1, Regroup
  <2>3. CASE then = "buffer"
    <3>1. /\ buf' = rest /\ rest' = <<>> /\ then' = "ready"
          /\ UNCHANGED <<direct, synced, lost, errors>>
      BY <1>6, <2>3 DEF Written
    <3>2. Stream' = Stream
      <4>1. Stream' = contents \o (rest \o (<<>> \o <<>>))
        BY <2>1, <3>1 DEF Stream
      <4> QED BY <1>0, <2>2, <4>1, Regroup
    <3>3. Len(rest) \in Nat /\ Len(rest) <= BufferSize
      BY <1>0, <2>3 DEF WriterInv
    <3> QED BY <1>0, <2>1, <3>1, <3>2, <3>3 DEF WriterInv, WriterTypes, Ready
  <2>4. CASE then = "direct"
    <3>1. /\ direct' = rest /\ rest' = <<>> /\ then' = "return"
          /\ UNCHANGED <<buf, synced, lost, errors>>
      BY <1>6, <2>4 DEF Written
    <3>2. Stream' = Stream
      <4>1. Stream' = contents \o (<<>> \o (rest \o <<>>))
        BY <2>1, <3>1 DEF Stream
      <4> QED BY <1>0, <2>2, <4>1, Regroup
    <3> QED BY <1>0, <2>1, <3>1, <3>2 DEF WriterInv, WriterTypes, Ready
  <2>5. CASE then = "return"
    <3>1. then' = "ready" /\ UNCHANGED <<buf, direct, rest, synced, lost, errors>>
      BY <1>6, <2>5 DEF Written
    <3>2. Stream' = Stream
      BY <2>1, <3>1 DEF Stream
    <3> QED BY <1>0, <2>1, <2>5, <3>1, <3>2 DEF WriterInv, WriterTypes, Ready
  <2>6. CASE then = "sync"
    <3>1. /\ then' = "ready" /\ UNCHANGED <<buf, direct, rest>>
          /\ synced' \in {synced, Len(contents)}
          /\ lost' \in BOOLEAN /\ (~lost' => ~lost)
      BY <1>6, <2>6 DEF Written, WriterInv, WriterTypes
    <3>2. Stream' = Stream
      BY <2>1, <3>1 DEF Stream
    <3>3. synced' \in Nat /\ synced' <= Len(contents)
      BY <1>0, <3>1
    <3> QED BY <1>0, <2>1, <2>6, <3>1, <3>2, <3>3 DEF WriterInv, WriterTypes, Ready
  <2> QED BY <2>1, <2>3, <2>4, <2>5, <2>6
<1>7. CASE UNCHANGED writerVars
  BY <1>7 DEF writerVars, WriterInv, WriterTypes, Ready, Stream
<1> QED BY <1>1, <1>2, <1>3, <1>4, <1>5, <1>6, <1>7 DEF WriterNext

LEMMA WriterInitial == WriterInit => WriterInv
<1> SUFFICES ASSUME WriterInit PROVE WriterInv
  OBVIOUS
<1>1. /\ <<>> \in Seq(Nat) /\ Len(<<>>) = 0
      /\ <<>> \o <<>> = <<>>
  BY Concat, ConcatEmptySeq
<1>2. Stream = <<>>
  BY <1>1 DEF WriterInit, Stream
<1>3. UpTo(0) = <<>>
  <2>1. UpTo(0) \in Seq(Nat) /\ Len(UpTo(0)) = 0
    BY DEF UpTo
  <2> QED BY <2>1, EmptySeq
<1>4. /\ contents = <<>> /\ buf = <<>> /\ direct = <<>> /\ rest = <<>> /\ then = "ready"
      /\ appended = 0 /\ synced = 0
  BY DEF WriterInit
<1>5. WriterTypes
  <2>1. contents \in Seq(Nat) /\ buf \in Seq(Nat) /\ direct \in Seq(Nat) /\ rest \in Seq(Nat)
    BY <1>1, <1>4, Zenon
  <2>2. lost \in BOOLEAN
    BY DEF WriterInit
  <2>3. /\ then \in {"ready", "return", "buffer", "direct", "sync"}
        /\ appended \in Nat /\ synced \in Nat
    BY <1>4
  <2> QED BY <2>1, <2>2, <2>3 DEF WriterTypes
<1>6. Ordered(Stream, appended)
  BY <1>1, <1>2 DEF Ordered
<1>7. Stream = UpTo(appended)
  BY <1>2, <1>3, <1>4
<1> QED BY <1>1, <1>4, <1>5, <1>6, <1>7, WriterConstants DEF WriterInv, Ready

\* What the file and the buffer hold is the beginning of the stream.
LEMMA StreamBegins == WriterInv => BytesInOrder
<1> SUFFICES ASSUME WriterInv PROVE BytesInOrder
  OBVIOUS
<1> DEFINE all == contents \o buf
           more == direct \o rest
<1>1. /\ contents \in Seq(Nat) /\ buf \in Seq(Nat) /\ direct \in Seq(Nat) /\ rest \in Seq(Nat)
      /\ all \in Seq(Nat) /\ more \in Seq(Nat) /\ appended \in Nat
  BY Concat DEF WriterInv, WriterTypes
<1>2. Stream = all \o more
  <2> HIDE DEF more
  <2>1. contents \in Seq(Nat) /\ buf \in Seq(Nat) /\ more \in Seq(Nat)
    BY <1>1
  <2>2. (contents \o buf) \o more = contents \o (buf \o more)
    BY <2>1, Assoc, Zenon
  <2>3. Stream = contents \o (buf \o more)
    BY DEF Stream, more
  <2> QED BY <2>2, <2>3
<1>3. Ordered(all, appended)
  BY <1>1, <1>2, PrefixOrdered DEF WriterInv
<1>4. ASSUME NEW i \in 1 .. Len(all) - 1 PROVE all[i] < all[i + 1]
  <2>1. i \in 1 .. Len(all) /\ i + 1 \in 1 .. Len(all) /\ i < i + 1
    BY <1>1
  <2> QED BY <1>3, <2>1 DEF Ordered
<1>5. ASSUME ~lost
      PROVE  /\ Len(Stream) = appended /\ \A i \in 1 .. Len(Stream) : Stream[i] = i
             /\ Len(Stream) = Len(all) + Len(more)
             /\ Len(all) = Len(contents) + Len(buf)
             /\ \A i \in 1 .. Len(contents) : Stream[i] = contents[i]
  <2>1. Stream \in Seq(Nat) /\ Stream = UpTo(appended)
    BY <1>1, <1>2, <1>5, Concat DEF WriterInv
  <2>2. Len(Stream) = appended
    <3>1. DOMAIN Stream = 1 .. appended
      BY <2>1 DEF UpTo
    <3> QED BY <1>1, <2>1, <3>1
  <2>3. /\ Len(Stream) = Len(all) + Len(more) /\ Len(all) = Len(contents) + Len(buf)
    BY <1>1, <1>2, Concat
  <2>4. ASSUME NEW i \in 1 .. Len(contents) PROVE Stream[i] = contents[i]
    <3>1. buf \o more \in Seq(Nat) /\ Stream = contents \o (buf \o more)
      BY <1>1, Concat DEF Stream
    <3> HIDE DEF more
    <3> QED BY <1>1, <3>1
  <2> QED BY <2>1, <2>2, <2>3, <2>4 DEF UpTo
<1>6. ASSUME Ready, ~lost PROVE Len(all) = appended
  <2>1. more = <<>>
    BY <1>1, <1>6, ConcatEmptySeq DEF WriterInv
  <2>2. Len(more) = 0 /\ Len(all) \in Nat
    BY <1>1, <2>1
  <2> QED BY <1>5, <1>6, <2>2
<1>7. ASSUME ~lost
      PROVE  synced <= Len(contents) /\ contents = [i \in DOMAIN contents |-> i]
  <2>1. Len(contents) \in Nat /\ Len(buf) \in Nat /\ Len(more) \in Nat
    BY <1>1
  <2>2. \A i \in 1 .. Len(contents) : contents[i] = i
    BY <1>5, <1>7, <2>1
  <2>3. contents = [i \in DOMAIN contents |-> contents[i]] /\ DOMAIN contents = 1 .. Len(contents)
    BY <1>1
  <2> QED BY <2>2, <2>3 DEF WriterInv
<1> QED BY <1>4, <1>6, <1>7 DEF BytesInOrder

\* A file gets the bytes that were appended, each once and in order, whatever part of
\* them a write() takes; after an error bytes are missing and none is doubled: the
\* property BytesInOrder of PosixWritableFile.
THEOREM FileKeepsOrder == WriterSpec => []BytesInOrder
<1> QED BY WriterInitial, WriterStep, StreamBegins, PTL DEF WriterSpec

=============================================================================
