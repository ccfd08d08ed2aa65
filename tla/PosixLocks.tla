----------------------------- MODULE PosixLocks -----------------------------
(* The lock that keeps a database of the local store (leveldb) to one user:    *)
(* LockFile and UnlockFile of util/env_posix.cc, called by the threads of some *)
(* processes for one file.                                                     *)
(*                                                                             *)
(* fcntl locks belong to a process: another thread of it gets the lock again,  *)
(* and closing any descriptor of the file gives it up.                         *)
EXTENDS Integers, FiniteSets

CONSTANTS
    Threads,
    ProcessOf     \* of each thread its process

Nobody == "nobody"

VARIABLES
    pc,            \* where each thread is in its call
    lockedFiles,   \* the processes whose locked_files_ holds the file
    fileLock       \* the process the operating system has given the lock, or Nobody

lockVars == <<pc, lockedFiles, fileLock>>

Goes(t, from, to) == pc[t] = from /\ pc' = [pc EXCEPT ![t] = to]
GivenUp(p) == IF fileLock = p THEN Nobody ELSE fileLock

-----------------------------------------------------------------------------
(* LockFile.                                                                   *)

OpenLockFile(t) ==
    /\ Goes(t, "free", "opened")
    /\ UNCHANGED <<lockedFiles, fileLock>>

\* Mutant of InsertLock: the table of the process is not asked.
InsertLockAgain(t) ==
    /\ Goes(t, "opened", "inserted")
    /\ lockedFiles' = lockedFiles \cup {ProcessOf[t]}
    /\ UNCHANGED fileLock

\* PosixLockTable::Insert; the file is closed if another thread has the lock
InsertLock(t) ==
    /\ ProcessOf[t] \notin lockedFiles
    /\ Goes(t, "opened", "inserted")
    /\ lockedFiles' = lockedFiles \cup {ProcessOf[t]}
    /\ UNCHANGED fileLock
AlreadyHeld(t) ==
    /\ ProcessOf[t] \in lockedFiles
    /\ Goes(t, "opened", "free")
    /\ fileLock' = GivenUp(ProcessOf[t])
    /\ UNCHANGED lockedFiles

\* LockOrUnlock(fd, true)
SetLock(t) ==
    /\ fileLock \in {Nobody, ProcessOf[t]}
    /\ Goes(t, "inserted", "locked")
    /\ fileLock' = ProcessOf[t]
    /\ UNCHANGED lockedFiles
SetLockFails(t) ==
    /\ fileLock \notin {Nobody, ProcessOf[t]}
    /\ Goes(t, "inserted", "failing")
    /\ UNCHANGED <<lockedFiles, fileLock>>
RemoveFailed(t) ==
    /\ Goes(t, "failing", "free")
    /\ lockedFiles' = lockedFiles \ {ProcessOf[t]}
    /\ UNCHANGED fileLock

-----------------------------------------------------------------------------
(* UnlockFile: the lock, the entry in the table, the descriptor.               *)

Unlock(t) ==
    /\ Goes(t, "locked", "unlocked")
    /\ fileLock' = GivenUp(ProcessOf[t])
    /\ UNCHANGED lockedFiles
\* The lock cannot be given up: the table and the descriptor keep the file, and no
\* thread of the process gets it any more
UnlockFails(t) ==
    /\ Goes(t, "locked", "stuck")
    /\ UNCHANGED <<lockedFiles, fileLock>>
RemoveLock(t) ==
    /\ Goes(t, "unlocked", "removed")
    /\ lockedFiles' = lockedFiles \ {ProcessOf[t]}
    /\ UNCHANGED fileLock
CloseLockFile(t) ==
    /\ Goes(t, "removed", "free")
    /\ fileLock' = GivenUp(ProcessOf[t])
    /\ UNCHANGED lockedFiles

-----------------------------------------------------------------------------

LocksInit ==
    /\ pc = [t \in Threads |-> "free"]
    /\ lockedFiles = {}
    /\ fileLock = Nobody

LocksNext ==
    \E t \in Threads :
        \/ OpenLockFile(t) \/ InsertLock(t) \/ AlreadyHeld(t)
        \/ SetLock(t) \/ SetLockFails(t) \/ RemoveFailed(t)
        \/ Unlock(t) \/ UnlockFails(t) \/ RemoveLock(t) \/ CloseLockFile(t)

LocksSpec == LocksInit /\ [][LocksNext]_lockVars

-----------------------------------------------------------------------------
(* Properties.                                                                 *)

Holders == {t \in Threads : pc[t] = "locked"}

\* Within a process one thread at most has the lock: PosixLockTable does what fcntl
\* does not.
OneHolderInProcess ==
    \A t, u \in Holders : ProcessOf[t] = ProcessOf[u] => t = u

\* A claim of the code, not a property it has: the lock is "used to prevent concurrent
\* access to the same db by multiple processes" (include/leveldb/env.h), so one thread
\* of all processes has it.
OneHolder == Cardinality(Holders) <= 1

=============================================================================
