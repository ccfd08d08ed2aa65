---------------------------- MODULE PosixReaders ----------------------------
(* Table files that are opened for reading (util/env_posix.cc): mapped into    *)
(* memory while a limit allows, else read through a descriptor that is kept    *)
(* while another limit allows, else opened for every read.                     *)
EXTENDS Integers, FiniteSets

CONSTANTS
    ReaderThreads,   \* threads, each with one file
    MmapLimit,       \* MaxMmaps
    FdLimit          \* MaxOpenFiles

ASSUME ReadersConstants ==
    IsFiniteSet(ReaderThreads) /\ MmapLimit \in Nat /\ FdLimit \in Nat

VARIABLES
    mmaps,       \* acquires_allowed_ of mmap_limiter_
    fds,         \* acquires_allowed_ of fd_limiter_
    open         \* where each thread is: the open, its file, its destruction

readersVars == <<mmaps, fds, open>>

At(t, from, to) == open[t] = from /\ open' = [open EXCEPT ![t] = to]

-----------------------------------------------------------------------------

\* NewRandomAccessFile: the file is opened and the first limiter asked.  Acquire
\* takes one and gives it back if there was none.
OpenFile(t) ==
    /\ At(t, "closed", "opened")
    /\ UNCHANGED <<mmaps, fds>>
AcquireMmap(t) ==
    /\ At(t, "opened", IF mmaps > 0 THEN "mapping" ELSE "noMmap")
    /\ mmaps' = mmaps - 1
    /\ UNCHANGED fds
ReturnMmap(t) ==
    /\ At(t, "noMmap", "descriptor")
    /\ mmaps' = mmaps + 1
    /\ UNCHANGED fds
\* The size is asked by name, then the file is mapped
Mmap(t) ==
    /\ At(t, "mapping", "mmap")
    /\ UNCHANGED <<mmaps, fds>>
\* Mutant of MmapFails: what was acquired is not given back.
MmapFailsKeeps(t) == At(t, "mapping", "closed") /\ UNCHANGED <<mmaps, fds>>

MmapFails(t) ==
    /\ At(t, "mapping", "closed")
    /\ mmaps' = mmaps + 1
    /\ UNCHANGED fds

\* PosixRandomAccessFile: its descriptor is kept or closed again
AcquireFd(t) ==
    /\ At(t, "descriptor", IF fds > 0 THEN "fd" ELSE "noFd")
    /\ fds' = fds - 1
    /\ UNCHANGED mmaps
ReturnFd(t) ==
    /\ At(t, "noFd", "byName")
    /\ fds' = fds + 1
    /\ UNCHANGED mmaps

\* The file object is destroyed
CloseMmap(t) ==
    /\ At(t, "mmap", "closed")
    /\ mmaps' = mmaps + 1
    /\ UNCHANGED fds
CloseFd(t) ==
    /\ At(t, "fd", "closed")
    /\ fds' = fds + 1
    /\ UNCHANGED mmaps
CloseByName(t) ==
    /\ At(t, "byName", "closed")
    /\ UNCHANGED <<mmaps, fds>>

-----------------------------------------------------------------------------

ReadersInit ==
    /\ mmaps = MmapLimit /\ fds = FdLimit
    /\ open = [t \in ReaderThreads |-> "closed"]

ReadersNext ==
    \E t \in ReaderThreads :
        \/ OpenFile(t) \/ AcquireMmap(t) \/ ReturnMmap(t) \/ Mmap(t) \/ MmapFails(t)
        \/ AcquireFd(t) \/ ReturnFd(t)
        \/ CloseMmap(t) \/ CloseFd(t) \/ CloseByName(t)

ReadersSpec == ReadersInit /\ [][ReadersNext]_readersVars

-----------------------------------------------------------------------------
(* Properties.                                                                 *)

In(places) == {t \in ReaderThreads : open[t] \in places}

\* However threads open and close files, the maps and the descriptors that are kept stay
\* within their limits, and when no open is under way the counters say exactly what is
\* left: a failed open costs nothing for good (Limiter, NewRandomAccessFile).
LimitsHold ==
    /\ Cardinality(In({"mapping", "mmap"})) <= MmapLimit
    /\ Cardinality(In({"fd"})) <= FdLimit
    /\ mmaps + Cardinality(In({"mapping", "mmap", "noMmap"})) = MmapLimit
    /\ fds + Cardinality(In({"fd", "noFd"})) = FdLimit

=============================================================================
