------------------------------ MODULE LevelLog ------------------------------
(* The format of the logs and of the manifest of the local store (leveldb):    *)
(* records are cut into fragments that do not cross a block, and a reader      *)
(* finds its way again after a cut or damaged file.  db/log_writer.cc and      *)
(* db/log_reader.cc.                                                           *)
(*                                                                             *)
(* A file is a sequence of cells.  A cell of a fragment knows its fragment and *)
(* its place there, so a header or a checksum is right exactly if the cells    *)
(* are those of one fragment, from its first on.                               *)
EXTENDS Integers, Sequences, SequencesExt, FiniteSets

CONSTANTS
    BlockSize, HeaderSize,   \* kBlockSize, kHeaderSize
    Sizes,                   \* the sizes of records
    MaxRecords,              \* bound: records of a behaviour
    Offsets                  \* the initial offsets readers start from

\* A block has room for more than a header; sizes and offsets are numbers.
ASSUME LogConstants ==
    /\ HeaderSize \in Nat \ {0} /\ BlockSize \in Nat /\ HeaderSize < BlockSize
    /\ Sizes \subseteq Nat /\ Offsets \subseteq Nat

VARIABLES
    logFile,      \* the cells
    blockOffset,  \* block_offset_ of the writer
    starts,       \* of each record its fragments (none if it failed or is being written)
                  \* and its first and last cell
    writing,      \* of the record that is being written: what is left, its fragments
    harm,         \* what happened to the file: "none", "cut", "damaged" or "torn"
    hurt,         \* the place of the cut or of the damage
    reader        \* the reader, or NoReader

logVars == <<logFile, blockOffset, starts, writing, harm, hurt, reader>>

NoReader == [on |-> FALSE]
Zero == [r |-> 0, f |-> 0, t |-> "zero", n |-> 0, i |-> 0]
Damaged == [Zero EXCEPT !.r = -1]

-----------------------------------------------------------------------------
(* The writer.                                                                 *)

NotWriting == [on |-> FALSE, left |-> 0, f |-> 0]

AddRecord(size) ==
    /\ ~reader.on /\ ~writing.on /\ harm # "cut" /\ Len(starts) < MaxRecords
    /\ starts' = Append(starts, [frags |-> 0, at |-> 0, last |-> 0])
    /\ writing' = [on |-> TRUE, left |-> size, f |-> 0]
    /\ UNCHANGED <<logFile, blockOffset, harm, hurt, reader>>

\* What the loop of AddRecord writes next: zeros if no header fits the block, and a
\* fragment, the last one if the rest of the record fits
leftover == BlockSize - blockOffset
trailer == IF leftover < HeaderSize THEN leftover ELSE 0
offset == IF leftover < HeaderSize THEN 0 ELSE blockOffset
avail == BlockSize - offset - HeaderSize
length == IF writing.left < avail THEN writing.left ELSE avail
begin == writing.f = 0
end == writing.left = length
type ==
    IF begin THEN IF end THEN "full" ELSE "first" ELSE IF end THEN "last" ELSE "middle"
Cell(i) == [r |-> Len(starts), f |-> writing.f + 1, t |-> type, n |-> length, i |-> i]
Cells ==
    [i \in 1 .. trailer + HeaderSize + length |->
        IF i <= trailer THEN Zero ELSE Cell(i - trailer)]

EmitPhysicalRecord ==
    /\ writing.on
    /\ logFile' = logFile \o Cells
    /\ blockOffset' = offset + HeaderSize + length
    /\ writing' = IF end THEN NotWriting
                  ELSE [on |-> TRUE, left |-> writing.left - length, f |-> writing.f + 1]
    /\ starts' = [starts EXCEPT ![Len(starts)] =
           [frags |-> IF end THEN writing.f + 1 ELSE 0,
            at |-> IF begin THEN Len(logFile) + trailer + 1 ELSE @.at,
            last |-> Len(logFile')]]
    /\ UNCHANGED <<harm, hurt, reader>>

\* A fragment is written in part, or not at all, and AddRecord fails; the offset of
\* the writer moves on as if it were there
EmitFails ==
    /\ writing.on /\ harm = "none"
    /\ \E n \in 0 .. Len(Cells) - 1 : logFile' = logFile \o SubSeq(Cells, 1, n)
    /\ blockOffset' = offset + HeaderSize + length
    /\ writing' = NotWriting
    /\ harm' = "torn"
    /\ UNCHANGED <<starts, hurt, reader>>

\* Writer(dest, dest_length): a log that is taken up again after a cut (reuse_logs)
Reopen ==
    /\ ~reader.on /\ harm = "cut"
    /\ blockOffset' = Len(logFile) % BlockSize
    /\ harm' = "torn"
    /\ UNCHANGED <<logFile, starts, writing, hurt, reader>>

\* A crash leaves a part of the file, or a cell is read otherwise than it was written
CutFile(n) ==
    /\ ~reader.on /\ ~writing.on /\ harm = "none" /\ n < Len(logFile)
    /\ logFile' = SubSeq(logFile, 1, n)
    /\ harm' = "cut" /\ hurt' = n
    /\ UNCHANGED <<blockOffset, starts, writing, reader>>
DamageCell(n) ==
    /\ ~reader.on /\ ~writing.on /\ harm = "none" /\ n <= Len(logFile)
    /\ logFile' = [logFile EXCEPT ![n] = Damaged]
    /\ harm' = "damaged" /\ hurt' = n
    /\ UNCHANGED <<blockOffset, starts, writing, reader>>

-----------------------------------------------------------------------------
(* The reader.                                                                 *)

BlockEnd(p) == ((p \div BlockSize) + 1) * BlockSize

\* Mutant of InitialBlock: the next block unless the offset is the start of one.
NextBlock(from) == ((from + BlockSize - 1) \div BlockSize) * BlockSize

\* SkipToInitialBlock: the block of the offset, the next one within a trailer
InitialBlock(from) ==
    IF from % BlockSize > BlockSize - (HeaderSize - 1)
    THEN from - (from % BlockSize) + BlockSize
    ELSE from - (from % BlockSize)

\* The position and the end of the buffer count cells already read
Open(from) ==
    /\ ~reader.on /\ ~writing.on
    /\ InitialBlock(from) <= Len(logFile)
    /\ reader' = [on |-> TRUE, from |-> from, pos |-> InitialBlock(from),
                  end |-> InitialBlock(from), eof |-> FALSE,
                  resync |-> from > 0, open |-> FALSE, scratch |-> <<>>,
                  out |-> <<>>, drops |-> 0, done |-> FALSE]
    /\ UNCHANGED <<logFile, blockOffset, starts, writing, harm, hurt>>

Left == reader.end - reader.pos
Header == SubSeq(logFile, reader.pos + 1, reader.pos + HeaderSize)
Fragment(n) == SubSeq(logFile, reader.pos + 1, reader.pos + HeaderSize + n)
IsFragment(cells) == \A i \in DOMAIN cells : cells[i] = [Head(cells) EXCEPT !.i = i]
                                             /\ cells[i].r > 0
Zeros == \A i \in DOMAIN Header : Header[i] = Zero

\* The next block, a whole one unless the file ends in it
Refill ==
    /\ reader.on /\ ~reader.done /\ Left < HeaderSize /\ ~reader.eof
    /\ LET p == reader.end
           e == IF Len(logFile) - p < BlockSize THEN Len(logFile) ELSE p + BlockSize
       IN  reader' = [reader EXCEPT !.pos = p, !.end = e, !.eof = e - p < BlockSize]
    /\ UNCHANGED <<logFile, blockOffset, starts, writing, harm, hurt>>

\* ReadRecord at the end of the file: an unfinished record is left out, and so is
\* what follows a length that points beyond the end
AtEof ==
    /\ reader.on /\ ~reader.done /\ reader.eof
    /\ \/ Left < HeaderSize
       \/ Left >= HeaderSize /\ IsFragment(Header) /\ HeaderSize + Header[1].n > Left
       \/ Left >= HeaderSize /\ ~IsFragment(Header) /\ ~Zeros
    /\ reader' = [reader EXCEPT !.done = TRUE, !.pos = reader.end, !.open = FALSE,
                                !.scratch = <<>>]
    /\ UNCHANGED <<logFile, blockOffset, starts, writing, harm, hurt>>

\* Mutant of Dropped: the fragments read before it are kept.
DroppedKeepsScratch(rd, reported) ==
    [rd EXCEPT !.pos = rd.end, !.resync = FALSE, !.drops = @ + (IF reported THEN 1 ELSE 0)]

\* kBadRecord after dropping the rest of the block: a header that is none, a length
\* beyond the block, a checksum that does not match; zeros are not reported.  What
\* has been read of a record is dropped too.
Dropped(rd, reported) ==
    [rd EXCEPT !.pos = rd.end, !.open = FALSE, !.scratch = <<>>,
               !.resync = FALSE,
               !.drops = @ + (IF reported THEN 1 ELSE 0) + (IF rd.open THEN 1 ELSE 0)]
BadRecord ==
    /\ reader.on /\ ~reader.done /\ Left >= HeaderSize
    /\ \/ ~IsFragment(Header)
       \/ HeaderSize + Header[1].n > Left /\ ~reader.eof
       \/ HeaderSize + Header[1].n <= Left /\ ~IsFragment(Fragment(Header[1].n))
    /\ reader' = Dropped(reader, ~Zeros)
    /\ UNCHANGED <<logFile, blockOffset, starts, writing, harm, hurt>>

\* ReadRecord on a good fragment.  One that starts before the offset is a bad record
\* without a report; while resynchronising, the rest of a record is skipped.
Piece(c) == <<c.r, c.f>>
Taken(rd, c) ==
    CASE c.t = "full" -> [rd EXCEPT
              !.drops = @ + (IF rd.open /\ rd.scratch # <<>> THEN 1 ELSE 0),
              !.open = FALSE, !.scratch = <<>>,
              !.out = Append(@, <<Piece(c)>>)]
      [] c.t = "first" -> [rd EXCEPT
              !.drops = @ + (IF rd.open /\ rd.scratch # <<>> THEN 1 ELSE 0),
              !.open = TRUE, !.scratch = <<Piece(c)>>]
      [] c.t = "middle" /\ rd.open -> [rd EXCEPT !.scratch = Append(@, Piece(c))]
      [] c.t = "last" /\ rd.open -> [rd EXCEPT
              !.open = FALSE, !.scratch = <<>>,
              !.out = Append(@, Append(rd.scratch, Piece(c)))]
      [] OTHER -> [rd EXCEPT !.drops = @ + 1]
Resynced(rd, c) ==
    CASE c.t = "middle" -> rd
      [] c.t = "last"   -> [rd EXCEPT !.resync = FALSE]
      [] OTHER          -> Taken([rd EXCEPT !.resync = FALSE], c)
ReadFragment ==
    /\ reader.on /\ ~reader.done /\ Left >= HeaderSize /\ IsFragment(Header)
    /\ HeaderSize + Header[1].n <= Left /\ IsFragment(Fragment(Header[1].n))
    /\ LET c == Header[1]
           rd == [reader EXCEPT !.pos = @ + HeaderSize + c.n]
       IN  reader' = IF reader.pos < reader.from
                     THEN [rd EXCEPT !.open = FALSE, !.scratch = <<>>, !.resync = FALSE]
                     ELSE IF reader.resync THEN Resynced(rd, c) ELSE Taken(rd, c)
    /\ UNCHANGED <<logFile, blockOffset, starts, writing, harm, hurt>>

-----------------------------------------------------------------------------

LogInit ==
    /\ logFile = <<>> /\ blockOffset = 0 /\ starts = <<>> /\ writing = NotWriting
    /\ harm = "none" /\ hurt = 0
    /\ reader = NoReader

LogNext ==
    \/ \E size \in Sizes : AddRecord(size)
    \/ EmitPhysicalRecord \/ EmitFails
    \/ \E n \in 0 .. Len(logFile) : CutFile(n) \/ (n > 0 /\ DamageCell(n))
    \/ Reopen
    \/ \E from \in Offsets : Open(from)
    \/ Refill \/ AtEof \/ BadRecord \/ ReadFragment

LogSpec == LogInit /\ [][LogNext]_logVars

-----------------------------------------------------------------------------
(* Properties.                                                                 *)

\* What the reader returned, as numbers of records
Whole(r) == [f \in 1 .. starts[r].frags |-> <<r, f>>]
Logged == {r \in DOMAIN starts : starts[r].frags > 0}
Returned == {r \in Logged : \E i \in DOMAIN reader.out : reader.out[i] = Whole(r)}
AllRead == reader.on /\ reader.done

\* Whatever happened to a file, its reader returns only records that were written,
\* whole and in their order: never the pieces of two records as one, and never a
\* record twice (ReadRecord).
ReadsAreRecords ==
    reader.on =>
        /\ \A i \in DOMAIN reader.out : \E r \in DOMAIN starts :
              /\ Len(reader.out[i]) > 0
              /\ reader.out[i] = [f \in 1 .. Len(reader.out[i]) |-> <<r, f>>]
              /\ starts[r].frags = Len(reader.out[i])
        /\ \A i, j \in DOMAIN reader.out :
              i < j => reader.out[i][1][1] < reader.out[j][1][1]

\* A whole file gives every record that starts at or after the offset; a file cut by
\* a crash gives every record that ends before the cut and reports nothing; a damaged
\* cell costs only records that lie in its block, at or after it (SkipToInitialBlock,
\* ReadPhysicalRecord).
NoNeedlessLoss ==
    AllRead /\ harm # "torn" =>
        /\ \A r \in Logged :
              /\ starts[r].at > reader.from
              /\ harm = "cut" => starts[r].last <= hurt
              /\ harm = "damaged" =>
                     \/ starts[r].last < hurt
                     \/ starts[r].at > BlockEnd(hurt - 1)
              => r \in Returned
        /\ \A r \in Returned : starts[r].at > reader.from
        /\ harm = "cut" /\ reader.from = 0 => reader.drops = 0

=============================================================================
