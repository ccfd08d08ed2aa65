----------------------------- MODULE PosixWriter -----------------------------
(* PosixWritableFile of util/env_posix.cc, the file under the logs, tables and *)
(* manifests of the local store: a buffer before write(), and Sync().          *)
EXTENDS Integers, Sequences

CONSTANTS
    BufferSize,    \* kWritableFileBufferSize
    AppendSizes,   \* the sizes of appended data
    MaxBytes,      \* bound: the bytes of a behaviour
    MaxErrors      \* bound: the calls of the operating system that fail

ASSUME WriterConstants == BufferSize \in Nat \ {0} /\ AppendSizes \subseteq Nat

VARIABLES
    contents,    \* the file: the numbers of its bytes, in the order of Append
    buf,         \* buf_[0, pos_ - 1]
    direct,      \* the data of WriteUnbuffered under way that is not yet in contents
    then,        \* what follows when it is written: "return", "buffer", "direct" or "sync"
    rest,        \* the part of the appended data that waits for FlushBuffer
    appended,    \* bytes appended so far
    lost,        \* a call has returned an error
    synced,      \* the length of contents when Sync last returned OK
    errors       \* the errors so far

writerVars == <<contents, buf, direct, then, rest, appended, lost, synced, errors>>

Ready == then = "ready"
Bytes(n) == [i \in 1 .. n |-> appended + i]
Fits(n) == IF n < BufferSize - Len(buf) THEN n ELSE BufferSize - Len(buf)

-----------------------------------------------------------------------------

\* Append: what fits goes to the buffer; if something is left the buffer is written
AppendData(n) ==
    /\ Ready /\ appended + n <= MaxBytes
    /\ LET data == Bytes(n)
           full == buf \o SubSeq(data, 1, Fits(n))
           left == SubSeq(data, Fits(n) + 1, n)
       IN  IF left = <<>>
           THEN /\ buf' = full
                /\ UNCHANGED <<direct, then, rest>>
           ELSE /\ buf' = <<>> /\ direct' = full /\ rest' = left
                /\ then' = IF Len(left) < BufferSize THEN "buffer" ELSE "direct"
    /\ appended' = appended + n
    /\ UNCHANGED <<contents, lost, synced, errors>>

\* Flush, Close, and Sync, which first syncs the directory of a manifest
Flush(next) ==
    /\ Ready
    /\ direct' = buf /\ buf' = <<>> /\ rest' = <<>> /\ then' = next
    /\ UNCHANGED <<contents, appended, lost, synced, errors>>

SyncDirFails ==
    /\ Ready /\ errors < MaxErrors
    /\ errors' = errors + 1 /\ lost' = TRUE
    /\ UNCHANGED <<contents, buf, direct, then, rest, appended, synced>>

\* Mutant of Write: what was not written is forgotten.
WriteForgetsRest(n) ==
    /\ ~Ready /\ n \in 1 .. Len(direct)
    /\ contents' = contents \o SubSeq(direct, 1, n)
    /\ direct' = <<>>
    /\ UNCHANGED <<buf, then, rest, appended, lost, synced, errors>>

\* write(): some of the data, or an interruption after which it is called again
Write(n) ==
    /\ ~Ready /\ n \in 1 .. Len(direct)
    /\ contents' = contents \o SubSeq(direct, 1, n)
    /\ direct' = SubSeq(direct, n + 1, Len(direct))
    /\ UNCHANGED <<buf, then, rest, appended, lost, synced, errors>>

\* write() fails: FlushBuffer has given up the buffer, Append the rest
WriteFails ==
    /\ ~Ready /\ direct # <<>> /\ errors < MaxErrors
    /\ errors' = errors + 1 /\ lost' = TRUE
    /\ direct' = <<>> /\ rest' = <<>> /\ then' = "ready"
    /\ UNCHANGED <<contents, buf, appended, synced>>

\* All is written
Written ==
    /\ ~Ready /\ direct = <<>>
    /\ CASE then = "buffer" -> buf' = rest /\ rest' = <<>> /\ then' = "ready"
                               /\ UNCHANGED <<direct, synced, lost, errors>>
         [] then = "direct" -> direct' = rest /\ rest' = <<>> /\ then' = "return"
                               /\ UNCHANGED <<buf, synced, lost, errors>>
         [] then = "return" -> then' = "ready"
                               /\ UNCHANGED <<buf, direct, rest, synced, lost, errors>>
         [] then = "sync"   -> /\ then' = "ready"
                               /\ \/ synced' = Len(contents) /\ UNCHANGED <<lost, errors>>
                                  \/ /\ errors < MaxErrors /\ errors' = errors + 1
                                     /\ lost' = TRUE /\ UNCHANGED synced
                               /\ UNCHANGED <<buf, direct, rest>>
    /\ UNCHANGED <<contents, appended>>

-----------------------------------------------------------------------------

WriterInit ==
    /\ contents = <<>> /\ buf = <<>> /\ direct = <<>> /\ rest = <<>>
    /\ then = "ready" /\ appended = 0 /\ lost = FALSE /\ synced = 0 /\ errors = 0

WriterNext ==
    \/ \E n \in AppendSizes : AppendData(n)
    \/ \E next \in {"return", "sync"} : Flush(next)
    \/ \E n \in 1 .. Len(direct) : Write(n)
    \/ SyncDirFails \/ WriteFails \/ Written

WriterSpec == WriterInit /\ [][WriterNext]_writerVars

-----------------------------------------------------------------------------
(* Properties.                                                                 *)

\* Between two calls the file and the buffer hold every byte appended, in order, as long
\* as no call has failed; after a failure bytes may be missing but none is doubled or out
\* of its order, and what is missing is missing for good (Append, WriteUnbuffered).
BytesInOrder ==
    LET all == contents \o buf
    IN  /\ \A i \in 1 .. Len(all) - 1 : all[i] < all[i + 1]
        /\ Ready /\ ~lost => Len(all) = appended
        /\ ~lost => synced <= Len(contents) /\ contents = [i \in DOMAIN contents |-> i]

=============================================================================
