---------------------------- MODULE LevelLogProofs ----------------------------
(***************************************************************************)
(* Proofs that the reader of a log returns nothing but whole records, in   *)
(* their order, whatever harm is done to the file, and that it loses no    *)
(* record it need not lose, for any sizes of blocks, headers and records.  *)
(***************************************************************************)
EXTENDS LevelLog, SequenceTheorems, TLAPS

Types == {"full", "first", "middle", "last"}
CellType == [r : Int, f : Nat, t : Types \cup {"zero"}, n : Nat, i : Nat]
RecordType == [frags : Nat, at : Nat, last : Nat]
ReaderType ==
    [on : {TRUE}, from : Nat, pos : Nat, end : Nat, eof : BOOLEAN, resync : BOOLEAN,
     open : BOOLEAN, scratch : Seq(Nat \X Nat), out : Seq(Seq(Nat \X Nat)), drops : Nat,
     done : BOOLEAN]

\* The cells up to q are those of the fragment of c up to c, but for damaged ones.
Nth(c, k) == [r |-> c.r, f |-> c.f, t |-> c.t, n |-> c.n, i |-> k]
PartOf(s, q, c) ==
    c.i <= q /\ \A j \in 1 .. c.i : s[q - c.i + j] \in {Damaged, Nth(c, j)}

\* The cells up to q are those of a fragment.
Ends(s, q, r, f) ==
    \E t \in Types, n \in Nat :
        PartOf(s, q, [r |-> r, f |-> f, t |-> t, n |-> n, i |-> HeaderSize + n])

\* A cell of a fragment has all before it at its place, and before them the fragment
\* that comes before in the record; only the last fragment of a record says so.
CellOK(s, st, q, c) ==
    /\ c.r <= Len(st) /\ c.f > 0 /\ c.i \in 1 .. HeaderSize + c.n /\ c.t \in Types
    /\ c.f = 1 <=> c.t \in {"full", "first"}
    /\ st[c.r].frags # 0 /\ c.t \in {"full", "last"} => c.f = st[c.r].frags
    /\ PartOf(s, q, c)
    /\ c.f > 1 => Ends(s, q - c.i, c.r, c.f - 1)

\* Cells are in the order of the records, of their fragments, and in these.
Earlier(a, b) ==
    a.r < b.r \/ (a.r = b.r /\ (a.f < b.f \/ (a.f = b.f /\ a.i < b.i)))

FileOK(s, st) ==
    /\ s \in Seq(CellType)
    /\ \A q \in DOMAIN s : s[q].r > 0 => CellOK(s, st, q, s[q])
    /\ \A p, q \in DOMAIN s : p < q /\ s[p].r > 0 /\ s[q].r > 0 => Earlier(s[p], s[q])

\* A last fragment that is whole ends a record that was written.
LastOK(s, st) ==
    \A q \in DOMAIN s :
        s[q].r > 0 /\ s[q].t \in {"full", "last"} /\ s[q].i = HeaderSize + s[q].n
            => st[s[q].r].frags # 0

\* The record that is being written has no last fragment, and the fragment before the
\* next one ends the file and the block.
WritingOK(s, wr) ==
    wr.on =>
        /\ starts # << >> /\ starts[Len(starts)].frags = 0
        /\ \A q \in DOMAIN s :
              s[q].r = Len(starts) => s[q].f <= wr.f /\ s[q].t \in {"first", "middle"}
        /\ wr.f > 0 => blockOffset = BlockSize /\ Ends(s, Len(s), Len(starts), wr.f)

\* A record, or the beginning of one
Run(r, m) == [x \in 1 .. m |-> <<r, x>>]

\* What was returned, with some cell of each record behind the reader
OutOK(rd) ==
    /\ \A i \in DOMAIN rd.out :
          \E r \in DOMAIN starts, m \in Nat \ {0} :
              /\ rd.out[i] = Run(r, m) /\ starts[r].frags = m
              /\ \E p \in DOMAIN logFile : p <= rd.pos /\ logFile[p].r = r
    /\ \A i, j \in DOMAIN rd.out : i < j => rd.out[i][1][1] < rd.out[j][1][1]

\* The fragments read so far end with that of p, the one before the reader; between them
\* it skipped the end of a block, which has no room for a fragment.
ScratchOK(rd) ==
    rd.open =>
        \E p \in DOMAIN logFile :
            /\ logFile[p].r > 0 /\ logFile[p].i = HeaderSize + logFile[p].n
            /\ rd.scratch = Run(logFile[p].r, logFile[p].f)
            /\ p <= rd.pos /\ rd.pos < p + HeaderSize
            /\ p = rd.pos \/ rd.end - rd.pos >= HeaderSize \/ rd.eof
            /\ \A j \in DOMAIN rd.out : rd.out[j][1][1] < logFile[p].r

ReaderOK(rd) ==
    /\ rd \in ReaderType
    /\ rd.pos <= rd.end /\ rd.end <= Len(logFile)
    /\ rd.resync => ~rd.open
    /\ OutOK(rd) /\ ScratchOK(rd)

LogInv ==
    /\ starts \in Seq(RecordType)
    /\ blockOffset \in 0 .. BlockSize
    /\ writing \in [on : BOOLEAN, left : Nat, f : Nat]
    /\ FileOK(logFile, starts) /\ LastOK(logFile, starts) /\ WritingOK(logFile, writing)
    /\ writing.on => harm # "cut"
    /\ reader = NoReader \/ (~writing.on /\ ReaderOK(reader))

-----------------------------------------------------------------------------
(* The file *)

LEMMA NthIs ==
  ASSUME NEW c \in CellType, NEW k \in Nat
  PROVE  /\ Nth(c, k) \in CellType /\ Nth(c, k).i = k
         /\ Nth(c, k).r = c.r /\ Nth(c, k).f = c.f /\ Nth(c, k).t = c.t /\ Nth(c, k).n = c.n
         /\ \A j : Nth(Nth(c, k), j) = Nth(c, j)
BY DEF Nth, CellType

LEMMA PartKept ==
  ASSUME NEW s, NEW s1, NEW q \in Nat, NEW c \in CellType, PartOf(s, q, c),
         \A x \in 1 .. q : s1[x] \in {s[x], Damaged}
  PROVE  PartOf(s1, q, c)
<1>1. c.i \in Nat /\ c.i <= q
  BY DEF CellType, PartOf
<1>2. \A j \in 1 .. c.i : q - c.i + j \in 1 .. q
  BY <1>1
<1> QED BY <1>1, <1>2 DEF PartOf

LEMMA EndsKept ==
  ASSUME NEW s, NEW s1, NEW q \in Nat, NEW r \in Int, NEW f \in Nat, Ends(s, q, r, f),
         \A x \in 1 .. q : s1[x] \in {s[x], Damaged}
  PROVE  Ends(s1, q, r, f)
<1> DEFINE last(t, n) == [r |-> r, f |-> f, t |-> t, n |-> n, i |-> HeaderSize + n]
<1>1. PICK t \in Types, n \in Nat : PartOf(s, q, last(t, n))
  BY DEF Ends
<1>2. last(t, n) \in CellType
  BY LogConstants DEF CellType
<1> HIDE DEF last
<1>3. PartOf(s1, q, last(t, n))
  BY <1>1, <1>2, PartKept
<1> QED BY <1>3 DEF Ends, last

LEMMA CellKept ==
  ASSUME NEW s, NEW s1, NEW st, NEW q \in Nat, NEW c \in CellType, c.r > 0, CellOK(s, st, q, c),
         \A x \in 1 .. q : s1[x] \in {s[x], Damaged}
  PROVE  CellOK(s1, st, q, c)
<1>1. PartOf(s1, q, c)
  BY PartKept DEF CellOK
<1>2. ASSUME c.f > 1 PROVE Ends(s1, q - c.i, c.r, c.f - 1)
  <2>1. /\ q - c.i \in Nat /\ c.r \in Int /\ c.f - 1 \in Nat
        /\ \A x \in 1 .. q - c.i : x \in 1 .. q
    BY <1>2 DEF CellOK, PartOf, CellType
  <2> QED BY <2>1, <1>2, EndsKept DEF CellOK
<1> QED BY <1>1, <1>2 DEF CellOK

\* The file goes on the same, ends before, or has a damaged cell.
LEMMA FileShrinks ==
  ASSUME NEW s, NEW st, FileOK(s, st), NEW s1 \in Seq(CellType), Len(s1) <= Len(s),
         \A x \in 1 .. Len(s1) : s1[x] \in {s[x], Damaged}
  PROVE  FileOK(s1, st)
<1>1. s \in Seq(CellType) /\ DOMAIN s1 \subseteq DOMAIN s /\ Damaged.r = -1
  BY DEF FileOK, Damaged, Zero
<1>2. \A x \in DOMAIN s1 : s1[x].r > 0 => s1[x] = s[x]
  BY <1>1
<1>3. ASSUME NEW q \in DOMAIN s1, s1[q].r > 0 PROVE CellOK(s1, st, q, s1[q])
  <2>1. /\ q \in DOMAIN s /\ s1[q] = s[q] /\ s[q].r > 0 /\ s[q] \in CellType /\ q \in Nat
        /\ \A x \in 1 .. q : x \in 1 .. Len(s1)
    BY <1>1, <1>2, <1>3
  <2>2. CellOK(s, st, q, s[q])
    BY <2>1 DEF FileOK
  <2> QED BY <2>1, <2>2, CellKept
<1>4. ASSUME NEW p \in DOMAIN s1, NEW q \in DOMAIN s1, p < q, s1[p].r > 0, s1[q].r > 0
      PROVE  Earlier(s1[p], s1[q])
  BY <1>1, <1>2, <1>4 DEF FileOK
<1> QED BY <1>3, <1>4 DEF FileOK

LEMMA Beginning ==
  ASSUME NEW s \in Seq(CellType), NEW n \in Nat, n <= Len(s)
  PROVE  /\ SubSeq(s, 1, n) \in Seq(CellType) /\ Len(SubSeq(s, 1, n)) = n
         /\ \A x \in 1 .. n : SubSeq(s, 1, n)[x] = s[x]
<1>1. PICK k \in Nat : k = Len(s)
  OBVIOUS
<1>2. \A x \in 1 .. n : x \in 1 .. k /\ 1 + x - 1 = x
  BY <1>1
<1>3. CASE n = 0
  BY <1>3
<1>4. CASE n > 0
  <2>1. 1 \in 1 .. Len(s) /\ n \in 1 .. Len(s) /\ 1 <= n
    BY <1>1, <1>4
  <2> QED BY <2>1, <1>2, <1>1, SubSeqProperties
<1> QED BY <1>3, <1>4

LEMMA JoinIs ==
  ASSUME NEW s \in Seq(CellType), NEW x \in Seq(CellType)
  PROVE  s \o x \in Seq(CellType) /\ Len(s \o x) = Len(s) + Len(x)
BY ConcatProperties, Zenon

LEMMA JoinHead ==
  ASSUME NEW s \in Seq(CellType), NEW x \in Seq(CellType), NEW q \in 1 .. Len(s)
  PROVE  (s \o x)[q] = s[q]
<1>1. PICK n \in Nat, m \in Nat : Len(s) = n /\ Len(x) = m
  BY LenProperties
<1>2. q <= Len(s) /\ q \in 1 .. Len(s) + Len(x)
  BY <1>1
<1> QED BY <1>2, ConcatProperties

LEMMA JoinTail ==
  ASSUME NEW s \in Seq(CellType), NEW x \in Seq(CellType), NEW k \in 1 .. Len(x)
  PROVE  (s \o x)[Len(s) + k] = x[k]
<1>1. PICK n \in Nat, m \in Nat : Len(s) = n /\ Len(x) = m
  BY LenProperties
<1>2. /\ ~(Len(s) + k <= Len(s)) /\ Len(s) + k \in 1 .. Len(s) + Len(x)
      /\ Len(s) + k - Len(s) = k
  BY <1>1
<1> QED BY <1>2, ConcatProperties

\* Zeros and a fragment, or the beginning of it, are added.
LEMMA FileGrows ==
  ASSUME NEW s, NEW st, FileOK(s, st),
         NEW c \in CellType, c.r > 0, c.r = Len(st), c.f > 0, c.t \in Types,
         c.f = 1 <=> c.t \in {"full", "first"}, st[c.r].frags = 0,
         NEW zeros \in Nat, NEW m \in 0 .. zeros + HeaderSize + c.n,
         c.f > 1 => zeros = 0 /\ Ends(s, Len(s), c.r, c.f - 1),
         \A q \in DOMAIN s : s[q].r = c.r => s[q].f < c.f,
         NEW x \in Seq(CellType), Len(x) = m,
         \A k \in 1 .. m : x[k] = IF k <= zeros THEN Zero ELSE Nth(c, k - zeros)
  PROVE  FileOK(s \o x, st)
<1>1. PICK n \in Nat : n = Len(s)
  BY DEF FileOK
<1> DEFINE s1 == s \o x
<1>2. /\ s1 \in Seq(CellType) /\ Len(s1) = n + m /\ DOMAIN s1 = 1 .. n + m
      /\ \A q \in 1 .. n : s1[q] = s[q]
      /\ \A q \in n + 1 .. n + m : s1[q] = x[q - n]
  <2>1. s \in Seq(CellType) /\ m \in Nat
    <3>1. zeros + HeaderSize + c.n \in Nat
      BY LogConstants DEF CellType
    <3> QED BY <3>1 DEF FileOK
  <2>3. Len(s) = n /\ Len(x) = m
    BY <1>1
  <2>2. /\ s1 \in Seq(CellType) /\ Len(s1) = n + m
        /\ \A q \in 1 .. n : s1[q] = s[q]
        /\ \A q \in n + 1 .. n + m : s1[q] = x[q - n]
    <3>1. \A q \in 1 .. n : s1[q] = s[q]
      BY <2>1, <2>3, JoinHead
    <3>2. s1 \in Seq(CellType) /\ Len(s1) = n + m
      BY <2>1, <2>3, JoinIs
    <3>4. \A k \in 1 .. m : s1[n + k] = x[k]
      BY <2>1, <2>3, JoinTail
    <3>3. \A q \in n + 1 .. n + m : q - n \in 1 .. m /\ q = n + (q - n)
      BY <2>1
    <3> QED BY <3>1, <3>2, <3>3, <3>4
  <2> QED BY <2>2
<1> HIDE DEF s1
<1>3. /\ DOMAIN s = 1 .. n /\ s \in Seq(CellType) /\ HeaderSize \in Nat /\ c.n \in Nat /\ c.f \in Nat
      /\ c.i \in Nat /\ c.r \in Int
  BY <1>1, LogConstants DEF FileOK, CellType
<1>4. \A q \in 1 .. n + m : q \in 1 .. n \/ q \in n + 1 .. n + m
  OBVIOUS
\* A new cell is a zero or one of the fragment.
<1>5. ASSUME NEW q \in n + 1 .. n + m, s1[q].r > 0
      PROVE  \E k \in Nat : /\ k \in 1 .. HeaderSize + c.n /\ q = n + zeros + k
                            /\ s1[q] = Nth(c, k) /\ s1[q].r = c.r /\ s1[q].f = c.f
                            /\ s1[q].i = k
  <2>1. q - n \in 1 .. m /\ s1[q] = x[q - n]
    BY <1>2, SMTT(30)
  <2>2. q - n > zeros
    BY <2>1, <1>5 DEF Zero
  <2>3. PICK k \in Nat : k = q - n - zeros
    BY <2>2, <2>1
  <2>4. s1[q] = Nth(c, k)
    BY <2>1, <2>2, <2>3
  <2>5. k \in 1 .. HeaderSize + c.n /\ q = n + zeros + k
    BY <2>1, <2>2, <2>3, <1>3
  <2>6. s1[q].r = c.r /\ s1[q].f = c.f /\ s1[q].i = k
    BY <2>4, NthIs
  <2> QED BY <2>4, <2>5, <2>6
<1>6. ASSUME NEW q \in 1 .. n + m, s1[q].r > 0 PROVE CellOK(s1, st, q, s1[q])
  <2>1. CASE q \in 1 .. n
    <3>1. s1[q] = s[q] /\ q \in DOMAIN s /\ s[q].r > 0 /\ s[q] \in CellType
      BY <2>1, <1>2, <1>3, <1>6
    <3>3. CellOK(s, st, q, s[q])
      BY <3>1 DEF FileOK
    <3>2. \A y \in 1 .. q : s1[y] \in {s[y], Damaged}
      BY <2>1, <1>2
    <3> QED BY <3>1, <3>2, <3>3, <2>1, CellKept
  <2>2. CASE q \in n + 1 .. n + m
    <3>1. PICK k \in Nat : /\ k \in 1 .. HeaderSize + c.n /\ q = n + zeros + k
                            /\ s1[q] = Nth(c, k)
      BY <2>2, <1>5, <1>6
    <3>3. PICK d \in CellType : d = s1[q]
      BY <1>2
    <3>4. d.i = k /\ d.r = c.r /\ d.f = c.f /\ d.t = c.t /\ d.n = c.n
          /\ \A j : Nth(d, j) = Nth(c, j)
      BY <3>1, <3>3, NthIs
    <3>5. PartOf(s1, q, d)
      <4> SUFFICES ASSUME NEW j \in 1 .. k PROVE s1[q - k + j] = Nth(c, j)
        <5>1. k <= q
          BY <3>1
        <5> QED BY <5>1, <3>4 DEF PartOf
      <4>1. /\ q - k + j \in n + 1 .. n + m /\ q - k + j - n = zeros + j
            /\ zeros + j \in 1 .. m /\ ~(zeros + j <= zeros) /\ zeros + j - zeros = j
        BY <2>2, <3>1
      <4>2. s1[q - k + j] = x[zeros + j]
        BY <4>1, <1>2
      <4> QED BY <4>1, <4>2
    <3>6. ASSUME d.f > 1 PROVE Ends(s1, q - d.i, d.r, d.f - 1)
      <4>1. c.f > 1 /\ zeros = 0 /\ q - d.i = n /\ Ends(s, n, c.r, c.f - 1) /\ c.f - 1 \in Nat
        BY <3>6, <3>4, <3>1, <1>1, <1>3
      <4>2. \A y \in 1 .. n : s1[y] \in {s[y], Damaged}
        BY <1>2
      <4>3. Ends(s1, n, c.r, c.f - 1)
        BY <4>1, <4>2, <1>3, EndsKept
      <4> QED BY <4>1, <4>3, <3>4
    <3> QED BY <3>1, <3>3, <3>4, <3>5, <3>6 DEF CellOK
  <2> QED BY <1>4, <2>1, <2>2
<1>7. ASSUME NEW p \in 1 .. n + m, NEW q \in 1 .. n + m, p < q, s1[p].r > 0, s1[q].r > 0
      PROVE  Earlier(s1[p], s1[q])
  <2>1. CASE q \in 1 .. n
    <3>1. p \in 1 .. n /\ s1[p] = s[p] /\ s1[q] = s[q]
      BY <2>1, <1>2, <1>7
    <3> QED BY <3>1, <2>1, <1>3, <1>7 DEF FileOK
  <2>2. CASE p \in 1 .. n /\ q \in n + 1 .. n + m
    <3>1. s1[q].r = c.r /\ s1[q].f = c.f
      BY <2>2, <1>5, <1>7
    <3>2. s1[p] = s[p] /\ s[p] \in CellType /\ p \in DOMAIN s /\ s[p].r > 0
      BY <2>2, <1>2, <1>3, <1>7
    <3>3. s[p].r <= c.r /\ (s[p].r = c.r => s[p].f < c.f)
      BY <3>2 DEF FileOK, CellOK
    <3>4. s[p].r \in Int /\ s[p].f \in Nat
      BY <3>2 DEF CellType
    <3> QED BY <3>1, <3>2, <3>3, <3>4, <1>3 DEF Earlier
  <2>3. CASE p \in n + 1 .. n + m /\ q \in n + 1 .. n + m
    <3>1. PICK k \in Nat : q = n + zeros + k /\ s1[q].r = c.r /\ s1[q].f = c.f /\ s1[q].i = k
      BY <2>3, <1>5, <1>7
    <3>2. PICK l \in Nat : p = n + zeros + l /\ s1[p].r = c.r /\ s1[p].f = c.f /\ s1[p].i = l
      BY <2>3, <1>5, <1>7
    <3> QED BY <3>1, <3>2, <1>7 DEF Earlier
  <2> QED BY <2>1, <2>2, <2>3, <1>4, <1>7
<1> QED BY <1>2, <1>6, <1>7 DEF FileOK, s1

LEMMA LastKept ==
  ASSUME NEW s, NEW st, LastOK(s, st), NEW s1, DOMAIN s1 \subseteq DOMAIN s,
         \A x \in DOMAIN s1 : s1[x] \in {s[x], Damaged}
  PROVE  LastOK(s1, st)
<1>1. Damaged.r = -1
  BY DEF Damaged, Zero
<1> QED BY <1>1 DEF LastOK

LEMMA RecordsMove ==
  ASSUME NEW s, NEW st, NEW st1, FileOK(s, st), Len(st) \in Nat, Len(st1) \in Nat,
         Len(st) <= Len(st1),
         \A q \in DOMAIN s :
             s[q].r > 0 /\ st1[s[q].r].frags # 0 /\ s[q].t \in {"full", "last"}
                => s[q].f = st1[s[q].r].frags
  PROVE  FileOK(s, st1)
<1>1. ASSUME NEW q \in DOMAIN s, s[q].r > 0 PROVE CellOK(s, st1, q, s[q])
  <2>1. CellOK(s, st, q, s[q]) /\ s[q] \in CellType
    BY <1>1 DEF FileOK
  <2>2. s[q].r <= Len(st1)
    BY <2>1 DEF CellOK, CellType
  <2> QED BY <2>1, <2>2, <1>1 DEF CellOK
<1> QED BY <1>1 DEF FileOK

-----------------------------------------------------------------------------
(* The writer *)

\* What is written next fits the block, and fills it unless the record ends with it.
LEMMA EmitIs ==
  ASSUME LogInv, writing.on
  PROVE  /\ trailer \in Nat /\ length \in Nat /\ writing.f \in Nat /\ writing.left - length \in Nat
         /\ offset + HeaderSize + length \in 0 .. BlockSize
         /\ ~end => offset + HeaderSize + length = BlockSize
         /\ writing.f > 0 => trailer = 0
         /\ type \in Types /\ (writing.f + 1 = 1 <=> type \in {"full", "first"})
         /\ end <=> type \in {"full", "last"}
         /\ Len(starts) \in Nat /\ Len(starts) > 0 /\ starts[Len(starts)].frags = 0
<1>1. /\ writing.left \in Nat /\ writing.f \in Nat /\ blockOffset \in 0 .. BlockSize
      /\ starts \in Seq(RecordType) /\ WritingOK(logFile, writing)
  BY DEF LogInv
<1>2. /\ starts # << >> /\ starts[Len(starts)].frags = 0
      /\ writing.f > 0 => blockOffset = BlockSize
  BY <1>1 DEF WritingOK
<1>3. Len(starts) \in Nat /\ Len(starts) > 0
  BY <1>1, <1>2
<1>4. /\ trailer \in Nat /\ offset \in Nat /\ avail \in Nat /\ offset + HeaderSize + avail = BlockSize
      /\ blockOffset = BlockSize => trailer = 0
  BY <1>1, LogConstants DEF trailer, offset, avail, leftover
<1>5. /\ length \in Nat /\ writing.left - length \in Nat
      /\ length <= avail /\ (~end => length = avail)
  BY <1>1, <1>4 DEF length, end
<1>6. offset + HeaderSize + length \in 0 .. BlockSize /\ (~end => offset + HeaderSize + length = BlockSize)
  BY <1>4, <1>5, LogConstants
<1>7. /\ type \in Types /\ (writing.f = 0 <=> type \in {"full", "first"})
      /\ end <=> type \in {"full", "last"}
  BY DEF type, begin, Types
<1>8. writing.f + 1 = 1 <=> writing.f = 0
  BY <1>1
<1> QED BY <1>1, <1>2, <1>3, <1>4, <1>5, <1>6, <1>7, <1>8

LEMMA CellsAre ==
  ASSUME LogInv, writing.on
  PROVE  /\ Cell(1) \in CellType /\ Cell(1).r = Len(starts) /\ Cell(1).f = writing.f + 1
         /\ Cell(1).t = type /\ Cell(1).n = length
         /\ Cells \in Seq(CellType) /\ Len(Cells) = trailer + HeaderSize + length
         /\ \A k \in 1 .. trailer + HeaderSize + length :
               Cells[k] = IF k <= trailer THEN Zero ELSE Nth(Cell(1), k - trailer)
<1>1. /\ Cell(1) \in CellType /\ Cell(1).r = Len(starts) /\ Cell(1).f = writing.f + 1
      /\ Cell(1).t = type /\ Cell(1).n = length
  BY EmitIs DEF Cell, CellType
<1>2. PICK m \in Nat : m = trailer + HeaderSize + length
  BY EmitIs, LogConstants
<1>3. \A k \in 1 .. m : Cells[k] = IF k <= trailer THEN Zero ELSE Nth(Cell(1), k - trailer)
  BY <1>2 DEF Cells, Cell, Nth
<1>4. \A k \in 1 .. m : Cells[k] \in CellType
  <2>1. Zero \in CellType
    BY DEF Zero, CellType
  <2>2. ASSUME NEW k \in 1 .. m, ~(k <= trailer) PROVE Nth(Cell(1), k - trailer) \in CellType
    <3>1. k - trailer \in Nat
      BY <2>2, EmitIs
    <3> QED BY <3>1, <1>1, NthIs
  <2> QED BY <2>1, <2>2, <1>3
<1>5. Cells = [k \in 1 .. m |-> Cells[k]]
  BY <1>2 DEF Cells
<1>6. Cells \in Seq(CellType) /\ Len(Cells) = m
  <2>1. Cells \in [1 .. m -> CellType]
    BY <1>4, <1>5
  <2> QED BY <2>1
<1> QED BY <1>1, <1>2, <1>3, <1>6

\* A fragment, or a part of it, keeps the file in order.
LEMMA EmitKeepsFile ==
  ASSUME LogInv, writing.on, NEW x \in Seq(CellType), NEW m \in Nat, m = Len(x),
         m <= trailer + HeaderSize + length, \A k \in 1 .. m : x[k] = Cells[k]
  PROVE  /\ FileOK(logFile \o x, starts)
         /\ \A q \in DOMAIN (logFile \o x) : (logFile \o x)[q].r = Len(starts) =>
               \/ /\ (logFile \o x)[q].f <= writing.f
                  /\ (logFile \o x)[q].t \in {"first", "middle"}
               \/ /\ (logFile \o x)[q].f = writing.f + 1 /\ (logFile \o x)[q].t = type
                  /\ (logFile \o x)[q].n = length /\ (logFile \o x)[q].i <= m - trailer
         /\ \A q \in DOMAIN (logFile \o x) :
               (logFile \o x)[q].r > 0 /\ (logFile \o x)[q].r # Len(starts) =>
                   q \in DOMAIN logFile /\ (logFile \o x)[q] = logFile[q]
<1> DEFINE c == Cell(1)
<1>1. /\ c \in CellType /\ c.r = Len(starts) /\ c.f = writing.f + 1 /\ c.t = type /\ c.n = length
      /\ c.r > 0 /\ c.f > 0 /\ c.t \in Types /\ (c.f = 1 <=> c.t \in {"full", "first"})
      /\ starts[c.r].frags = 0 /\ trailer \in Nat /\ c.f - 1 = writing.f /\ writing.f \in Nat
      /\ length \in Nat
  BY CellsAre, EmitIs, SMTT(30)
<1> HIDE DEF c
<1>2. FileOK(logFile, starts) /\ WritingOK(logFile, writing) /\ logFile \in Seq(CellType)
  BY DEF LogInv, FileOK
<1>3. m \in 0 .. trailer + HeaderSize + c.n
  BY <1>1, LogConstants
<1>4. c.f > 1 => trailer = 0 /\ Ends(logFile, Len(logFile), c.r, c.f - 1)
  BY <1>1, <1>2, EmitIs DEF WritingOK
<1>5. \A q \in DOMAIN logFile : logFile[q].r = c.r => logFile[q].f < c.f
  <2>1. ASSUME NEW q \in DOMAIN logFile PROVE logFile[q].f \in Nat
    <3>1. logFile[q] \in CellType
      BY <1>2
    <3> QED BY <3>1 DEF CellType
  <2> QED BY <2>1, <1>1, <1>2 DEF WritingOK
<1>6. \A k \in 1 .. m : x[k] = IF k <= trailer THEN Zero ELSE Nth(c, k - trailer)
  <2>1. \A k \in 1 .. m : k \in 1 .. trailer + HeaderSize + length
    BY <1>1, LogConstants
  <2> QED BY <2>1, CellsAre DEF c
<1>7. FileOK(logFile \o x, starts)
  BY <1>1, <1>2, <1>3, <1>4, <1>5, <1>6, FileGrows, SMTT(30)
<1>8. ASSUME NEW q \in DOMAIN (logFile \o x), (logFile \o x)[q].r = Len(starts)
      PROVE  \/ /\ (logFile \o x)[q].f <= writing.f
                /\ (logFile \o x)[q].t \in {"first", "middle"}
             \/ /\ (logFile \o x)[q].f = writing.f + 1 /\ (logFile \o x)[q].t = type
                /\ (logFile \o x)[q].n = length /\ (logFile \o x)[q].i <= m - trailer
  <2>1. PICK n \in Nat : n = Len(logFile)
    BY <1>2
  <2>2. q \in 1 .. n + m
    BY <2>1, <1>2, JoinIs
  <2>3. CASE q <= n
    <3>1. q \in 1 .. Len(logFile) /\ q \in DOMAIN logFile
      BY <2>1, <2>2, <2>3, <1>2
    <3>2. (logFile \o x)[q] = logFile[q] /\ logFile[q] \in CellType
      BY <3>1, <1>2, JoinHead
    <3>3. logFile[q].f \in Nat
      BY <3>2 DEF CellType
    <3> QED BY <3>1, <3>2, <3>3, <1>1, <1>2, <1>8 DEF WritingOK
  <2>4. CASE ~(q <= n)
    <3>1. PICK k \in 1 .. m : q = n + k
      <4>1. q - n \in 1 .. m /\ q = n + (q - n)
        BY <2>2, <2>4
      <4> QED BY <4>1
    <3>2. (logFile \o x)[q] = x[k]
      BY <3>1, <2>1, <1>2, JoinTail
    <3>3. x[k] = Nth(c, k - trailer) /\ k - trailer \in Nat /\ k - trailer <= m - trailer
      BY <3>1, <3>2, <1>1, <1>6, <1>8 DEF Zero
    <3>4. x[k].f = c.f /\ x[k].t = c.t /\ x[k].n = c.n /\ x[k].i = k - trailer
      BY <3>3, <1>1, NthIs
    <3> QED BY <3>2, <3>3, <3>4, <1>1
  <2> QED BY <2>3, <2>4
<1>9. ASSUME NEW q \in DOMAIN (logFile \o x), (logFile \o x)[q].r > 0,
             (logFile \o x)[q].r # Len(starts)
      PROVE  q \in DOMAIN logFile /\ (logFile \o x)[q] = logFile[q]
  <2>1. PICK n \in Nat : n = Len(logFile)
    BY <1>2
  <2>2. q \in 1 .. n + m
    BY <2>1, <1>2, JoinIs
  <2>3. CASE q <= n
    <3>1. q \in 1 .. Len(logFile) /\ q \in DOMAIN logFile
      BY <2>1, <2>2, <2>3, <1>2
    <3> QED BY <3>1, <1>2, JoinHead
  <2>4. CASE ~(q <= n)
    <3>1. PICK k \in 1 .. m : q = n + k
      <4>1. q - n \in 1 .. m /\ q = n + (q - n)
        BY <2>2, <2>4
      <4> QED BY <4>1
    <3>2. (logFile \o x)[q] = x[k]
      BY <3>1, <2>1, <1>2, JoinTail
    <3>3. x[k].r = 0 \/ x[k].r = c.r
      <4>1. CASE k <= trailer
        BY <4>1, <1>6 DEF Zero
      <4>2. CASE ~(k <= trailer)
        <5>1. x[k] = Nth(c, k - trailer) /\ k - trailer \in Nat
          BY <4>2, <1>1, <1>6
        <5> QED BY <5>1, <1>1, NthIs
      <4> QED BY <4>1, <4>2
    <3> QED BY <3>2, <3>3, <1>1, <1>9
  <2> QED BY <2>3, <2>4
<1> QED BY <1>7, <1>8, <1>9

LEMMA InitKeeps == LogInit => LogInv
<1> SUFFICES ASSUME LogInit PROVE LogInv
  OBVIOUS
<1>1. FileOK(logFile, starts) /\ LastOK(logFile, starts)
  BY DEF LogInit, FileOK, LastOK
<1>2. /\ starts \in Seq(RecordType) /\ blockOffset \in 0 .. BlockSize
      /\ writing \in [on : BOOLEAN, left : Nat, f : Nat] /\ WritingOK(logFile, writing)
  BY LogConstants DEF LogInit, NotWriting, WritingOK
<1> QED BY <1>1, <1>2 DEF LogInit, LogInv

LEMMA AddRecordKeeps ==
  ASSUME LogInv, NEW size \in Sizes, AddRecord(size) PROVE LogInv'
<1> DEFINE st1 == Append(starts, [frags |-> 0, at |-> 0, last |-> 0])
<1>1. /\ starts' = st1 /\ writing' = [on |-> TRUE, left |-> size, f |-> 0]
      /\ reader = NoReader /\ harm # "cut" /\ UNCHANGED <<logFile, blockOffset, reader, harm>>
  BY DEF AddRecord, LogInv, ReaderOK, ReaderType
<1>2. PICK n \in Nat : n = Len(starts)
  BY DEF LogInv
<1>3. /\ starts \in Seq(RecordType) /\ FileOK(logFile, starts) /\ logFile \in Seq(CellType)
  BY DEF LogInv, FileOK
<1>4. /\ st1 \in Seq(RecordType) /\ Len(st1) = n + 1 /\ st1[n + 1].frags = 0
      /\ \A r \in 1 .. n : st1[r] = starts[r]
  <2>1. [frags |-> 0, at |-> 0, last |-> 0] \in RecordType
    BY DEF RecordType
  <2> QED BY <2>1, <1>2, <1>3
<1> HIDE DEF st1
<1>5. ASSUME NEW q \in DOMAIN logFile, logFile[q].r > 0
      PROVE  /\ logFile[q].r \in 1 .. n
             /\ starts[logFile[q].r].frags # 0 /\ logFile[q].t \in {"full", "last"}
                   => logFile[q].f = starts[logFile[q].r].frags
  <2>1. CellOK(logFile, starts, q, logFile[q]) /\ logFile[q] \in CellType
    BY <1>3, <1>5 DEF FileOK
  <2> QED BY <2>1, <1>2, <1>5 DEF CellOK, CellType
<1>6. FileOK(logFile, st1)
  <2>1. \A q \in DOMAIN logFile :
             logFile[q].r > 0 /\ st1[logFile[q].r].frags # 0 /\ logFile[q].t \in {"full", "last"}
                => logFile[q].f = st1[logFile[q].r].frags
    BY <1>4, <1>5
  <2>2. Len(starts) \in Nat /\ Len(st1) \in Nat /\ Len(starts) <= Len(st1)
    BY <1>2, <1>4
  <2> QED BY <2>1, <2>2, <1>3, RecordsMove
<1>9. LastOK(logFile, st1)
  BY <1>4, <1>5 DEF LogInv, LastOK
<1>7. WritingOK(logFile, writing)'
  <2>1. \A q \in DOMAIN logFile : logFile[q].r # n + 1
    <3>1. \A q \in DOMAIN logFile : logFile[q].r = n + 1 => logFile[q].r > 0
      BY <1>2
    <3> QED BY <3>1, <1>2, <1>5
  <2>2. st1 # << >>
    BY <1>4, <1>2
  <2> QED BY <2>1, <2>2, <1>1, <1>4 DEF WritingOK
<1>8. /\ blockOffset' \in 0 .. BlockSize /\ writing' \in [on : BOOLEAN, left : Nat, f : Nat]
  BY <1>1, LogConstants DEF LogInv
<1> QED BY <1>1, <1>4, <1>6, <1>7, <1>8, <1>9 DEF LogInv

LEMMA EmitKeeps == ASSUME LogInv, EmitPhysicalRecord PROVE LogInv'
<1> DEFINE s1 == logFile \o Cells
           st1 == [starts EXCEPT ![Len(starts)] =
                       [frags |-> IF end THEN writing.f + 1 ELSE 0,
                        at |-> IF begin THEN Len(logFile) + trailer + 1 ELSE @.at,
                        last |-> Len(s1)]]
<1>1. /\ writing.on /\ logFile' = s1 /\ starts' = st1 /\ blockOffset' = offset + HeaderSize + length
      /\ writing' = IF end THEN NotWriting
                    ELSE [on |-> TRUE, left |-> writing.left - length, f |-> writing.f + 1]
      /\ reader' = reader /\ harm' = harm
  BY DEF EmitPhysicalRecord
<1>2. reader = NoReader /\ harm # "cut"
  BY <1>1 DEF LogInv
<1>3. PICK n \in Nat : n = Len(starts) /\ n > 0
  BY <1>1, EmitIs
<1>4. PICK m \in Nat : m = Len(Cells) /\ m = trailer + HeaderSize + length /\ m > trailer
  BY <1>1, EmitIs, CellsAre, LogConstants
<1>5. starts \in Seq(RecordType) /\ FileOK(logFile, starts) /\ logFile \in Seq(CellType)
      /\ Cells \in Seq(CellType)
  BY <1>1, CellsAre DEF LogInv, FileOK
<1>6. /\ FileOK(s1, starts)
      /\ \A q \in DOMAIN s1 : s1[q].r = n =>
            \/ s1[q].f <= writing.f /\ s1[q].t \in {"first", "middle"}
            \/ s1[q].f = writing.f + 1 /\ s1[q].t = type
      /\ \A q \in DOMAIN s1 : s1[q].r > 0 /\ s1[q].r # n =>
            q \in DOMAIN logFile /\ s1[q] = logFile[q]
  <2>1. \A k \in 1 .. m : Cells[k] = Cells[k]
    OBVIOUS
  <2>2. m <= trailer + HeaderSize + length
    BY <1>4
  <2> QED BY <2>1, <2>2, <1>1, <1>3, <1>4, <1>5, EmitKeepsFile
<1>7. /\ s1 \in Seq(CellType) /\ Len(s1) \in Nat /\ Len(s1) > 0
      /\ s1[Len(s1)] = Nth(Cell(1), HeaderSize + length)
  <2>1. PICK l \in Nat : l = Len(logFile)
    BY <1>5
  <2>2. s1 \in Seq(CellType) /\ Len(s1) = l + m
    BY <2>1, <1>4, <1>5, JoinIs
  <2>3. m \in 1 .. m /\ m - trailer = HeaderSize + length /\ ~(m <= trailer)
    BY <1>4, <1>1, EmitIs, LogConstants, SMTT(30)
  <2>4. s1[l + m] = Cells[m]
    BY <2>1, <2>3, <1>4, <1>5, JoinTail
  <2>5. Cells[m] = Nth(Cell(1), HeaderSize + length)
    BY <2>3, <1>1, <1>4, CellsAre
  <2> QED BY <2>2, <2>3, <2>4, <2>5
<1>8. /\ st1 \in Seq(RecordType) /\ Len(st1) = n
      /\ st1[n].frags = IF end THEN writing.f + 1 ELSE 0
      /\ \A r \in 1 .. n : r # n => st1[r] = starts[r]
  <2>1. /\ (IF end THEN writing.f + 1 ELSE 0) \in Nat /\ Len(logFile) + trailer + 1 \in Nat
        /\ Len(s1) \in Nat
    <3>1. trailer \in Nat /\ writing.f \in Nat
      BY <1>1, EmitIs
    <3>2. Len(logFile) \in Nat /\ Len(s1) \in Nat
      BY <1>5, <1>7
    <3> HIDE DEF s1, st1
    <3> QED BY <3>1, <3>2
  <2>2. starts[n] \in RecordType /\ starts[n].at \in Nat
    <3>1. starts[n] \in RecordType
      BY <1>3, <1>5
    <3> QED BY <3>1 DEF RecordType
  <2> HIDE DEF s1
  <2>3. [frags |-> IF end THEN writing.f + 1 ELSE 0,
         at |-> IF begin THEN Len(logFile) + trailer + 1 ELSE starts[n].at,
         last |-> Len(s1)] \in RecordType
    BY <2>1, <2>2 DEF RecordType
  <2> QED BY <2>3, <1>3, <1>5
<1> HIDE DEF s1, st1
<1>9. FileOK(s1, st1)
  <2>1. ASSUME NEW q \in DOMAIN s1, s1[q].r > 0, st1[s1[q].r].frags # 0, s1[q].t \in {"full", "last"}
        PROVE  s1[q].f = st1[s1[q].r].frags
    <3>1. CellOK(s1, starts, q, s1[q]) /\ s1[q] \in CellType
      BY <1>6, <2>1 DEF FileOK
    <3>2. s1[q].r \in 1 .. n
      BY <3>1, <2>1, <1>3 DEF CellOK, CellType
    <3>3. CASE s1[q].r # n
      BY <3>1, <3>2, <3>3, <1>8, <2>1 DEF CellOK
    <3>4. CASE s1[q].r = n
      <4>1. end /\ st1[n].frags = writing.f + 1
        BY <3>4, <2>1, <1>8
      <4> QED BY <4>1, <3>4, <2>1, <1>6
    <3> QED BY <3>3, <3>4
  <2>2. Len(starts) \in Nat /\ Len(st1) \in Nat /\ Len(starts) <= Len(st1)
    BY <1>3, <1>8
  <2> QED BY <2>1, <2>2, <1>6, RecordsMove
<1>12. LastOK(s1, st1)
  <2>1. ASSUME NEW q \in DOMAIN s1, s1[q].r > 0, s1[q].t \in {"full", "last"},
               s1[q].i = HeaderSize + s1[q].n
        PROVE  st1[s1[q].r].frags # 0
    <3>1. CASE s1[q].r = n
      <4>1. end /\ writing.f \in Nat
        BY <3>1, <2>1, <1>1, <1>6, EmitIs
      <4> QED BY <4>1, <3>1, <1>8
    <3>2. CASE s1[q].r # n
      <4>1. q \in DOMAIN logFile /\ s1[q] = logFile[q]
        BY <3>2, <2>1, <1>6
      <4>2. s1[q].r \in 1 .. n /\ starts[s1[q].r].frags # 0
        <5>1. CellOK(s1, starts, q, s1[q]) /\ s1[q] \in CellType
          BY <1>6, <2>1 DEF FileOK
        <5>2. s1[q].r \in 1 .. n
          BY <5>1, <2>1, <1>3 DEF CellOK, CellType
        <5> QED BY <5>2, <4>1, <2>1 DEF LogInv, LastOK
      <4> QED BY <4>2, <3>2, <1>8
    <3> QED BY <3>1, <3>2
  <2> QED BY <2>1 DEF LastOK
<1>10. CASE end
  <2>1. writing' = NotWriting /\ blockOffset' \in 0 .. BlockSize
    BY <1>1, <1>10, EmitIs
  <2> QED BY <2>1, <1>1, <1>2, <1>8, <1>9, <1>12 DEF LogInv, NotWriting, WritingOK
<1>11. CASE ~end
  <2>1. /\ writing' = [on |-> TRUE, left |-> writing.left - length, f |-> writing.f + 1]
        /\ blockOffset' = BlockSize /\ writing.left - length \in Nat /\ writing.f + 1 \in Nat
        /\ type \notin {"full", "last"} /\ type \in Types
    BY <1>1, <1>11, EmitIs
  <2>2. ASSUME NEW q \in DOMAIN s1, s1[q].r = n
        PROVE  s1[q].f <= writing.f + 1 /\ s1[q].t \in {"first", "middle"}
    <3>1. s1[q] \in CellType
      BY <1>7
    <3>2. s1[q].f \in Nat /\ writing.f \in Nat
      BY <3>1 DEF CellType, LogInv
    <3>3. CASE s1[q].f <= writing.f /\ s1[q].t \in {"first", "middle"}
      BY <3>2, <3>3
    <3>4. CASE s1[q].f = writing.f + 1 /\ s1[q].t = type
      BY <3>2, <3>4, <2>1 DEF Types
    <3> QED BY <3>3, <3>4, <2>2, <1>6
  <2>3. Ends(s1, Len(s1), n, writing.f + 1)
    <3>1. PICK c \in CellType : c = s1[Len(s1)] /\ Len(s1) \in DOMAIN s1
      BY <1>7
    <3>2. /\ c = Nth(Cell(1), HeaderSize + length) /\ HeaderSize + length \in Nat
          /\ length \in Nat
      BY <3>1, <1>1, <1>7, EmitIs, LogConstants
    <3>3. /\ c = [r |-> n, f |-> writing.f + 1, t |-> type, n |-> length,
                  i |-> HeaderSize + length]
          /\ c.r > 0
      BY <3>2, <1>1, <1>3, CellsAre DEF Nth
    <3>4. PartOf(s1, Len(s1), c)
      BY <3>1, <3>3, <1>9 DEF FileOK, CellOK
    <3> QED BY <3>2, <3>3, <3>4, <2>1 DEF Ends
  <2>4. st1 # << >> /\ st1[n].frags = 0
    BY <1>3, <1>8, <1>11
  <2>5. WritingOK(logFile, writing)'
    BY <2>1, <2>2, <2>3, <2>4, <1>1, <1>8 DEF WritingOK
  <2>6. blockOffset' \in 0 .. BlockSize /\ writing' \in [on : BOOLEAN, left : Nat, f : Nat]
    BY <2>1, LogConstants
  <2> QED BY <2>5, <2>6, <1>1, <1>2, <1>8, <1>9, <1>12 DEF LogInv
<1> QED BY <1>10, <1>11

LEMMA EmitFailsKeeps == ASSUME LogInv, EmitFails PROVE LogInv'
<1>1. /\ writing.on /\ blockOffset' = offset + HeaderSize + length /\ writing' = NotWriting
      /\ UNCHANGED <<starts, reader>>
  BY DEF EmitFails
<1>2. PICK m \in 0 .. Len(Cells) - 1 : logFile' = logFile \o SubSeq(Cells, 1, m)
  BY DEF EmitFails
<1>3. PICK k \in Nat : k = Len(Cells) /\ k = trailer + HeaderSize + length /\ Cells \in Seq(CellType)
  BY <1>1, CellsAre, EmitIs, LogConstants
<1>4. m \in Nat /\ m <= k /\ m < k
  BY <1>2, <1>3
<1> DEFINE x == SubSeq(Cells, 1, m)
<1>5. x \in Seq(CellType) /\ Len(x) = m /\ \A j \in 1 .. m : x[j] = Cells[j]
  BY <1>3, <1>4, Beginning
<1> HIDE DEF x
<1>6. /\ FileOK(logFile \o x, starts)
      /\ \A q \in DOMAIN (logFile \o x) : (logFile \o x)[q].r = Len(starts) =>
               \/ (logFile \o x)[q].t \in {"first", "middle"}
               \/ (logFile \o x)[q].n = length /\ (logFile \o x)[q].i <= m - trailer
      /\ \A q \in DOMAIN (logFile \o x) :
               (logFile \o x)[q].r > 0 /\ (logFile \o x)[q].r # Len(starts) =>
                   q \in DOMAIN logFile /\ (logFile \o x)[q] = logFile[q]
  BY <1>1, <1>3, <1>4, <1>5, EmitKeepsFile
<1>9. LastOK(logFile \o x, starts)
  <2>1. PICK s1 : s1 = logFile \o x
    OBVIOUS
  <2>2. ASSUME NEW q \in DOMAIN s1, s1[q].r > 0, s1[q].t \in {"full", "last"},
               s1[q].i = HeaderSize + s1[q].n
        PROVE  starts[s1[q].r].frags # 0
    <3>1. trailer \in Nat /\ length \in Nat /\ HeaderSize \in Nat
      BY <1>1, EmitIs, LogConstants
    <3>2. ~(HeaderSize + length <= m - trailer)
      BY <3>1, <1>3, <1>4
    <3>3. s1[q].r # Len(starts)
      BY <3>2, <2>1, <2>2, <1>6
    <3>4. q \in DOMAIN logFile /\ s1[q] = logFile[q]
      BY <3>3, <2>1, <2>2, <1>6
    <3> QED BY <3>4, <2>2 DEF LogInv, LastOK
  <2> QED BY <2>1, <2>2 DEF LastOK
<1>7. FileOK(logFile', starts') /\ LastOK(logFile', starts')
  BY <1>1, <1>2, <1>6, <1>9 DEF x
<1>8. blockOffset' \in 0 .. BlockSize /\ reader = NoReader /\ starts \in Seq(RecordType)
  BY <1>1, EmitIs DEF LogInv
<1> QED BY <1>1, <1>7, <1>8 DEF LogInv, NotWriting, WritingOK

\* Nothing else writes records.
LEMMA HarmKeeps ==
  ASSUME LogInv, Reopen \/ \E n \in 0 .. Len(logFile) : CutFile(n) \/ (n > 0 /\ DamageCell(n))
  PROVE  LogInv'
<1>1. /\ reader = NoReader /\ FileOK(logFile, starts) /\ logFile \in Seq(CellType)
      /\ LastOK(logFile, starts) /\ starts \in Seq(RecordType) /\ blockOffset \in 0 .. BlockSize
      /\ writing \in [on : BOOLEAN, left : Nat, f : Nat]
  BY DEF Reopen, CutFile, DamageCell, LogInv, ReaderOK, ReaderType, FileOK
<1>2. PICK k \in Nat : k = Len(logFile)
  BY <1>1
<1>3. CASE Reopen
  <2>1. k % BlockSize \in 0 .. BlockSize
    BY LogConstants
  <2>2. ~writing.on /\ blockOffset' = k % BlockSize
        /\ UNCHANGED <<logFile, starts, writing, reader>>
    BY <1>2, <1>3 DEF Reopen, LogInv
  <2> QED BY <2>1, <2>2, <1>1 DEF LogInv, WritingOK
<1>4. ASSUME NEW n \in 0 .. k, CutFile(n) PROVE LogInv'
  <2>1. logFile' = SubSeq(logFile, 1, n) /\ ~writing.on
        /\ UNCHANGED <<blockOffset, starts, writing, reader>>
    BY <1>4 DEF CutFile
  <2>2. PICK s1 \in Seq(CellType) :
            logFile' = s1 /\ Len(s1) = n /\ \A x \in 1 .. n : s1[x] = logFile[x]
    <3>1. n \in Nat /\ n <= Len(logFile) /\ logFile \in Seq(CellType)
      BY <1>1, <1>2
    <3>2. /\ SubSeq(logFile, 1, n) \in Seq(CellType) /\ Len(SubSeq(logFile, 1, n)) = n
          /\ \A x \in 1 .. n : SubSeq(logFile, 1, n)[x] = logFile[x]
      BY <3>1, Beginning
    <3> QED BY <3>2, <2>1
  <2>3. FileOK(s1, starts) /\ LastOK(s1, starts)
    <3>1. Len(s1) <= Len(logFile) /\ \A x \in 1 .. Len(s1) : s1[x] \in {logFile[x], Damaged}
      BY <2>2, <1>2
    <3>2. DOMAIN s1 \subseteq DOMAIN logFile /\ \A x \in DOMAIN s1 : s1[x] \in {logFile[x], Damaged}
      BY <3>1, <2>2, <1>1, <1>2
    <3> QED BY <3>1, <3>2, <1>1, FileShrinks, LastKept
  <2> QED BY <2>1, <2>2, <2>3, <1>1 DEF LogInv, WritingOK
<1>5. ASSUME NEW n \in 1 .. k, DamageCell(n) PROVE LogInv'
  <2>1. logFile' = [logFile EXCEPT ![n] = Damaged] /\ ~writing.on
        /\ UNCHANGED <<blockOffset, starts, writing, reader>>
    BY <1>5 DEF DamageCell
  <2>2. Damaged \in CellType
    BY DEF Damaged, Zero, CellType
  <2>3. /\ logFile' \in Seq(CellType) /\ Len(logFile') = k
        /\ \A x \in 1 .. k : logFile'[x] \in {logFile[x], Damaged}
    BY <2>1, <2>2, <1>1, <1>2
  <2>4. FileOK(logFile', starts) /\ LastOK(logFile', starts)
    <3>1. PICK s1 \in Seq(CellType) :
              logFile' = s1 /\ Len(s1) = k /\ \A x \in 1 .. k : s1[x] \in {logFile[x], Damaged}
      BY <2>3
    <3>2. Len(s1) <= Len(logFile) /\ \A x \in 1 .. Len(s1) : s1[x] \in {logFile[x], Damaged}
      BY <3>1, <1>2
    <3>3. FileOK(s1, starts)
      BY <3>2, <1>1, FileShrinks
    <3>4. DOMAIN s1 \subseteq DOMAIN logFile /\ \A x \in DOMAIN s1 : s1[x] \in {logFile[x], Damaged}
      BY <3>1, <1>1, <1>2
    <3>5. LastOK(s1, starts)
      BY <3>4, <1>1, LastKept
    <3> QED BY <3>1, <3>3, <3>5
  <2> QED BY <2>1, <2>4, <1>1 DEF LogInv, WritingOK
<1> QED
  <2>1. \A n \in 0 .. Len(logFile) : n > 0 => n \in 1 .. k
    BY <1>2
  <2> QED BY <2>1, <1>2, <1>3, <1>4, <1>5

-----------------------------------------------------------------------------
(* The reader *)

LEMMA InitialBlockIs == ASSUME NEW from \in Nat PROVE InitialBlock(from) \in Nat
<1>1. from % BlockSize \in 0 .. BlockSize - 1
  BY LogConstants
<1>2. from % BlockSize <= from
  <2>1. CASE from < BlockSize
    <3>1. from % BlockSize = from
      BY <2>1, LogConstants
    <3> QED BY <3>1
  <2>2. CASE from >= BlockSize
    BY <2>2, <1>1, LogConstants
  <2> QED BY <2>1, <2>2, LogConstants
<1> QED BY <1>1, <1>2, LogConstants DEF InitialBlock

LEMMA ReaderIs ==
  ASSUME NEW rd \in ReaderType
  PROVE  /\ rd.on = TRUE /\ rd.from \in Nat /\ rd.pos \in Nat /\ rd.end \in Nat /\ rd.eof \in BOOLEAN
         /\ rd.resync \in BOOLEAN /\ rd.open \in BOOLEAN /\ rd.scratch \in Seq(Nat \X Nat)
         /\ rd.out \in Seq(Seq(Nat \X Nat)) /\ rd.drops \in Nat /\ rd.done \in BOOLEAN
BY DEF ReaderType

\* A reader that moves on without a record to go on with
LEMMA ReaderMoves ==
  ASSUME NEW rd, ReaderOK(rd), NEW rd1 \in ReaderType, rd1.out = rd.out, ~rd1.open,
         rd.pos <= rd1.pos, rd1.pos <= rd1.end, rd1.end <= Len(logFile), FileOK(logFile, starts)
  PROVE  ReaderOK(rd1)
<1>1. OutOK(rd) /\ rd.pos \in Nat /\ rd1.pos \in Nat /\ DOMAIN logFile \subseteq Nat
  BY DEF ReaderOK, ReaderType, FileOK
<1>2. OutOK(rd1)
  BY <1>1 DEF OutOK
<1> QED BY <1>2 DEF ReaderOK, ScratchOK

LEMMA OpenKeeps == ASSUME LogInv, NEW from \in Offsets, Open(from) PROVE LogInv'
<1>1. PICK b \in Nat : b = InitialBlock(from) /\ from \in Nat
  BY InitialBlockIs, LogConstants
<1>2. PICK rd : rd = [on |-> TRUE, from |-> from, pos |-> b,
                  end |-> b, eof |-> FALSE,
                  resync |-> from > 0, open |-> FALSE, scratch |-> <<>>,
                  out |-> <<>>, drops |-> 0, done |-> FALSE]
  OBVIOUS
<1>3. /\ ~writing.on /\ b <= Len(logFile) /\ reader' = rd
      /\ UNCHANGED <<logFile, blockOffset, starts, writing, harm, hurt>>
  BY <1>1, <1>2 DEF Open
<1>4. rd \in ReaderType
  BY <1>1, <1>2 DEF ReaderType
<1>5. rd.out = <<>> /\ ~rd.open /\ rd.pos = b /\ rd.end = b
  BY <1>2
<1>6. OutOK(rd) /\ ScratchOK(rd)
  BY <1>5 DEF OutOK, ScratchOK
<1>7. ReaderOK(rd)
  BY <1>1, <1>3, <1>4, <1>5, <1>6 DEF ReaderOK
<1> QED BY <1>3, <1>7 DEF LogInv, ReaderOK, OutOK, ScratchOK, WritingOK

\* What an action of the reader has to keep
LEMMA ReaderKeeps ==
  ASSUME LogInv, reader.on,
         UNCHANGED <<logFile, blockOffset, starts, writing, harm, hurt>>,
         NEW rd, reader' = rd, ReaderOK(reader) => ReaderOK(rd)
  PROVE  LogInv'
<1>1. ReaderOK(reader) /\ ~writing.on
  BY DEF LogInv, NoReader
<1> QED BY <1>1 DEF LogInv, ReaderOK, OutOK, ScratchOK, WritingOK

LEMMA RefillKeeps == ASSUME LogInv, Refill PROVE LogInv'
<1> DEFINE e == IF Len(logFile) - reader.end < BlockSize THEN Len(logFile)
                ELSE reader.end + BlockSize
           rd == [reader EXCEPT !.pos = reader.end, !.end = e, !.eof = e - reader.end < BlockSize]
<1>1. /\ reader.on /\ Left < HeaderSize /\ ~reader.eof /\ reader' = rd
      /\ UNCHANGED <<logFile, blockOffset, starts, writing, harm, hurt>>
  BY DEF Refill
<1>2. ASSUME ReaderOK(reader) PROVE ReaderOK(rd)
  <2>1. /\ reader \in ReaderType /\ reader.pos \in Nat /\ reader.end \in Nat
        /\ reader.pos <= reader.end /\ reader.end <= Len(logFile) /\ Len(logFile) \in Nat
        /\ OutOK(reader) /\ ScratchOK(reader) /\ (reader.resync => ~reader.open)
        /\ logFile \in Seq(CellType)
    <3>1. /\ reader \in ReaderType /\ reader.pos <= reader.end /\ reader.end <= Len(logFile)
          /\ OutOK(reader) /\ ScratchOK(reader) /\ (reader.resync => ~reader.open)
      BY <1>2 DEF ReaderOK
    <3>2. logFile \in Seq(CellType) /\ Len(logFile) \in Nat
      BY DEF LogInv, FileOK
    <3> QED BY <3>1, <3>2, ReaderIs
  <2>2. /\ e \in Nat /\ reader.end <= e /\ e <= Len(logFile)
        /\ e - reader.end >= HeaderSize \/ e - reader.end < BlockSize
    BY <2>1, LogConstants
  <2> HIDE DEF e
  <2>3. /\ rd \in ReaderType /\ rd.pos = reader.end /\ rd.end = e
        /\ (e - reader.end < BlockSize => rd.eof) /\ rd.open = reader.open
        /\ rd.scratch = reader.scratch /\ rd.out = reader.out /\ rd.resync = reader.resync
    <3>1. PICK b : b = (e - reader.end < BlockSize)
      OBVIOUS
    <3>2. rd = [reader EXCEPT !.pos = reader.end, !.end = e, !.eof = b]
      BY <3>1
    <3>5. b \in BOOLEAN
      BY <3>1
    <3>3. rd \in ReaderType /\ rd.pos = reader.end /\ rd.end = e /\ rd.eof = b
      <4> HIDE DEF rd
      <4> QED BY <2>1, <2>2, <3>2, <3>5, ReaderIs DEF ReaderType
    <3>4. /\ rd.open = reader.open
          /\ rd.scratch = reader.scratch /\ rd.out = reader.out /\ rd.resync = reader.resync
      <4> HIDE DEF rd
      <4> QED BY <2>1, <2>2, <3>2, <3>5, ReaderIs DEF ReaderType
    <3> HIDE DEF rd
    <3> QED BY <3>1, <3>3, <3>4
  <2> HIDE DEF rd
  <2>4. OutOK(rd)
    BY <2>1, <2>3 DEF OutOK
  <2>5. ASSUME rd.open PROVE ScratchOK(rd)
    <3>1. PICK p \in DOMAIN logFile :
            /\ logFile[p].r > 0 /\ logFile[p].i = HeaderSize + logFile[p].n
            /\ reader.scratch = Run(logFile[p].r, logFile[p].f)
            /\ p <= reader.pos /\ reader.pos < p + HeaderSize
            /\ p = reader.pos \/ reader.end - reader.pos >= HeaderSize \/ reader.eof
            /\ \A j \in DOMAIN reader.out : reader.out[j][1][1] < logFile[p].r
      BY <2>1, <2>3, <2>5 DEF ScratchOK
    <3>2. p \in Nat /\ p = reader.pos /\ reader.end - reader.pos < HeaderSize
      BY <2>1, <3>1, <1>1, LogConstants DEF Left
    <3>3. p <= rd.pos /\ rd.pos < p + HeaderSize /\ (rd.end - rd.pos >= HeaderSize \/ rd.eof)
      <4>1. HeaderSize \in Nat /\ BlockSize \in Nat /\ HeaderSize < BlockSize /\ HeaderSize > 0
        BY LogConstants
      <4>2. p <= rd.pos /\ rd.pos < p + HeaderSize
        BY <4>1, <2>1, <2>3, <3>2
      <4>3. rd.end - rd.pos >= HeaderSize \/ rd.eof
        BY <4>1, <2>2, <2>3
      <4> QED BY <4>2, <4>3
    <3> QED BY <3>1, <3>3, <2>3 DEF ScratchOK
  <2> QED BY <2>1, <2>2, <2>3, <2>4, <2>5 DEF ReaderOK, ScratchOK
<1> HIDE DEF rd
<1> QED BY <1>1, <1>2, ReaderKeeps

LEMMA Nothing == \E none \in Seq(Nat \X Nat) : none = << >>
BY EmptySeq

LEMMA Count ==
  ASSUME NEW d \in Nat, NEW a, NEW b
  PROVE  d + (IF a THEN 1 ELSE 0) + (IF b THEN 1 ELSE 0) \in Nat
<1>1. PICK y \in {0, 1} : y = IF a THEN 1 ELSE 0
  OBVIOUS
<1>2. PICK z \in {0, 1} : z = IF b THEN 1 ELSE 0
  OBVIOUS
<1>3. d + y + z \in Nat
  OBVIOUS
<1> QED BY <1>1, <1>2, <1>3

LEMMA AtEofKeeps == ASSUME LogInv, AtEof PROVE LogInv'
<1> DEFINE rd == [reader EXCEPT !.done = TRUE, !.pos = reader.end, !.open = FALSE, !.scratch = <<>>]
<1>1. /\ reader.on /\ reader' = rd
      /\ UNCHANGED <<logFile, blockOffset, starts, writing, harm, hurt>>
  BY DEF AtEof
<1>2. ASSUME ReaderOK(reader) PROVE ReaderOK(rd)
  <2>1. reader \in ReaderType /\ reader.pos <= reader.end /\ reader.end <= Len(logFile)
    BY <1>2 DEF ReaderOK
  <2>2. /\ rd \in ReaderType /\ rd.out = reader.out /\ ~rd.open
        /\ rd.pos = reader.end /\ rd.end = reader.end /\ reader.end \in Nat
    <3>1. PICK none \in Seq(Nat \X Nat) : none = << >>
      BY Nothing
    <3>2. rd = [reader EXCEPT !.done = TRUE, !.pos = reader.end, !.open = FALSE, !.scratch = none]
      BY <3>1
    <3> HIDE DEF rd
    <3> QED BY <2>1, <3>2, ReaderIs DEF ReaderType
  <2> HIDE DEF rd
  <2>3. FileOK(logFile, starts) /\ rd.pos <= rd.end
    BY <2>2 DEF LogInv
  <2> QED BY <1>2, <2>1, <2>2, <2>3, ReaderMoves
<1> HIDE DEF rd
<1> QED BY <1>1, <1>2, ReaderKeeps

LEMMA BadRecordKeeps == ASSUME LogInv, BadRecord PROVE LogInv'
<1> DEFINE rd == Dropped(reader, ~Zeros)
<1>1. /\ reader.on /\ reader' = rd
      /\ UNCHANGED <<logFile, blockOffset, starts, writing, harm, hurt>>
  BY DEF BadRecord
<1>2. ASSUME ReaderOK(reader) PROVE ReaderOK(rd)
  <2>1. reader \in ReaderType /\ reader.pos <= reader.end /\ reader.end <= Len(logFile)
    BY <1>2 DEF ReaderOK
  <2>2. /\ rd \in ReaderType /\ rd.out = reader.out /\ ~rd.open
        /\ rd.pos = reader.end /\ rd.end = reader.end /\ reader.end \in Nat
    <3>1. PICK d : d = reader.drops + (IF ~Zeros THEN 1 ELSE 0) + (IF reader.open THEN 1 ELSE 0)
      OBVIOUS
    <3>2. d \in Nat
      <4>1. reader.drops \in Nat
        BY <2>1, ReaderIs
      <4> QED BY <4>1, <3>1, Count
    <3>3. PICK none \in Seq(Nat \X Nat) : none = << >>
      BY Nothing
    <3>4. rd = [reader EXCEPT !.pos = reader.end, !.open = FALSE, !.scratch = none,
                              !.resync = FALSE, !.drops = d]
      BY <3>1, <3>3, Zenon DEF Dropped
    <3> HIDE DEF rd
    <3> QED BY <2>1, <3>2, <3>4, ReaderIs DEF ReaderType
  <2> HIDE DEF rd
  <2>3. FileOK(logFile, starts) /\ rd.pos <= rd.end
    BY <2>2 DEF LogInv
  <2> QED BY <1>2, <2>1, <2>2, <2>3, ReaderMoves
<1> HIDE DEF rd
<1> QED BY <1>1, <1>2, ReaderKeeps

LEMMA Middle ==
  ASSUME NEW s \in Seq(CellType), NEW a \in Nat, NEW n \in Nat \ {0}, a + n <= Len(s),
         NEW x, x = SubSeq(s, a + 1, a + n)
  PROVE  /\ x \in Seq(CellType) /\ DOMAIN x = 1 .. n /\ Head(x) = s[a + 1]
         /\ \A j \in 1 .. n : x[j] = s[a + j]
<1>1. PICK k \in Nat : k = Len(s) /\ a + n <= k
  OBVIOUS
<1>2. a + 1 \in Int /\ a + n \in Int /\ a + 1 <= a + n /\ a + n - (a + 1) + 1 = n
  OBVIOUS
<1>3. \A j \in a + 1 .. a + n : s[j] \in CellType
  BY <1>1
<1>4. x \in Seq(CellType) /\ Len(x) = n /\ \A j \in 1 .. n : x[j] = s[a + 1 + j - 1]
  BY <1>2, <1>3, SubSeqProperties
<1>5. \A j \in 1 .. n : a + 1 + j - 1 = a + j
  OBVIOUS
<1>6. x # << >> /\ 1 \in 1 .. n
  BY <1>4
<1>7. Head(x) = x[1]
  BY <1>4, <1>6
<1> QED BY <1>4, <1>5, <1>6, <1>7

LEMMA SetPlace == ASSUME NEW c \in CellType, NEW k \in Nat PROVE [c EXCEPT !.i = k] = Nth(c, k)
BY DEF CellType, Nth

\* The fragment of a good header and checksum
LEMMA FragmentIs ==
  ASSUME LogInv, reader.on, Left >= HeaderSize, NEW c, c = Header[1], HeaderSize + c.n <= Left,
         IsFragment(Fragment(c.n))
  PROVE  /\ ReaderOK(reader) /\ reader.pos \in Nat
         /\ c \in CellType /\ c.r > 0 /\ c.i = 1 /\ c = logFile[reader.pos + 1]
         /\ reader.pos + 1 \in DOMAIN logFile /\ CellOK(logFile, starts, reader.pos + 1, c)
         /\ reader.pos + HeaderSize + c.n \in DOMAIN logFile
         /\ reader.pos + HeaderSize + c.n <= reader.end
         /\ logFile[reader.pos + HeaderSize + c.n] = Nth(c, HeaderSize + c.n)
<1>1. ReaderOK(reader) /\ FileOK(logFile, starts) /\ logFile \in Seq(CellType)
  BY DEF LogInv, NoReader, FileOK
<1>2. /\ reader.pos \in Nat /\ reader.end \in Nat /\ reader.end <= Len(logFile)
      /\ HeaderSize \in Nat \ {0} /\ reader.end - reader.pos >= HeaderSize
  BY <1>1, ReaderIs, LogConstants DEF ReaderOK, Left
<1>3. PICK k \in Nat : k = Len(logFile) /\ reader.end <= k /\ reader.pos + HeaderSize <= k
  BY <1>1, <1>2
<1>4. c = logFile[reader.pos + 1]
  <2>1. PICK x : x = Header
    OBVIOUS
  <2>2. \A j \in 1 .. HeaderSize : x[j] = logFile[reader.pos + j]
    BY <2>1, <1>1, <1>2, <1>3, Middle, SMTT(30) DEF Header
  <2>3. 1 \in 1 .. HeaderSize
    BY <1>2
  <2> QED BY <2>1, <2>2, <2>3
<1>5. reader.pos + 1 \in DOMAIN logFile /\ c \in CellType
  BY <1>1, <1>2, <1>3, <1>4
<1>6. PICK n \in Nat : n = c.n
  BY <1>5 DEF CellType
<1>7. PICK m \in Nat \ {0} : m = HeaderSize + n /\ reader.pos + m <= reader.end
  BY <1>2, <1>6 DEF Left
<1>8. PICK x : x = Fragment(n)
  OBVIOUS
<1>9. DOMAIN x = 1 .. m /\ Head(x) = c /\ \A j \in 1 .. m : x[j] = logFile[reader.pos + j]
  <2>1. x = SubSeq(logFile, reader.pos + 1, reader.pos + m)
    <3>1. reader.pos + HeaderSize + n = reader.pos + m
      BY <1>2, <1>7
    <3> QED BY <1>8, <3>1 DEF Fragment
  <2>2. reader.pos + m <= Len(logFile)
    BY <1>2, <1>3, <1>7
  <2>3. PICK a \in Nat : a = reader.pos
    BY <1>2
  <2>4. x = SubSeq(logFile, a + 1, a + m) /\ a + m <= Len(logFile)
    BY <2>1, <2>2, <2>3
  <2>5. DOMAIN x = 1 .. m /\ Head(x) = logFile[a + 1] /\ \A j \in 1 .. m : x[j] = logFile[a + j]
    BY <2>4, <1>1, Middle
  <2> QED BY <2>3, <2>5, <1>4
<1>10. \A j \in 1 .. m : logFile[reader.pos + j] = Nth(c, j) /\ logFile[reader.pos + j].r > 0
  <2>1. ASSUME NEW j \in 1 .. m
        PROVE  logFile[reader.pos + j] = [c EXCEPT !.i = j] /\ logFile[reader.pos + j].r > 0
    <3>1. x[j] = [Head(x) EXCEPT !.i = j] /\ x[j].r > 0
      BY <1>6, <1>8, <1>9 DEF IsFragment
    <3> QED BY <3>1, <1>9
  <2>2. ASSUME NEW j \in 1 .. m PROVE [c EXCEPT !.i = j] = Nth(c, j)
    BY <1>5, SetPlace
  <2> QED BY <2>1, <2>2
<1>11. 1 \in 1 .. m /\ m \in 1 .. m
  OBVIOUS
<1>12. c.i = 1 /\ c.r > 0
  BY <1>4, <1>5, <1>10, <1>11, NthIs
<1>13. CellOK(logFile, starts, reader.pos + 1, c)
  BY <1>1, <1>4, <1>5, <1>12 DEF FileOK
<1>14. reader.pos + m \in DOMAIN logFile /\ reader.pos + HeaderSize + c.n = reader.pos + m
  <2>1. DOMAIN logFile = 1 .. k
    BY <1>1, <1>3
  <2>2. reader.pos + m \in 1 .. k /\ reader.pos + HeaderSize + n = reader.pos + m
    BY <1>2, <1>3, <1>7
  <2> QED BY <2>1, <2>2, <1>6
<1> QED BY <1>1, <1>2, <1>4, <1>5, <1>6, <1>7, <1>10, <1>11, <1>12, <1>13, <1>14

LEMMA RunIs ==
  ASSUME NEW r \in Nat, NEW m \in Nat
  PROVE  /\ Run(r, m) \in Seq(Nat \X Nat) /\ DOMAIN Run(r, m) = 1 .. m
BY DEF Run

LEMMA RunHead ==
  ASSUME NEW r \in Nat, NEW m \in Nat \ {0}
  PROVE  Run(r, m)[1][1] = r
<1>1. 1 \in 1 .. m
  OBVIOUS
<1> QED BY <1>1 DEF Run

LEMMA RunGrows ==
  ASSUME NEW r \in Nat, NEW m \in Nat
  PROVE  Append(Run(r, m), <<r, m + 1>>) = Run(r, m + 1)
<1> DEFINE x == Run(r, m)
           y == Append(x, <<r, m + 1>>)
<1>1. x \in Seq(Nat \X Nat) /\ Len(x) = m /\ \A j \in 1 .. m : x[j] = <<r, j>>
  BY RunIs DEF Run
<1> HIDE DEF x
<1>2. y \in Seq(Nat \X Nat) /\ Len(y) = m + 1 /\ y[m + 1] = <<r, m + 1>>
      /\ \A j \in 1 .. m : y[j] = x[j]
  <2>1. <<r, m + 1>> \in Nat \X Nat
    OBVIOUS
  <2> QED BY <2>1, <1>1, AppendProperties
<1> HIDE DEF y
<1>3. ASSUME NEW j \in 1 .. m + 1 PROVE y[j] = <<r, j>>
  <2>1. CASE j \in 1 .. m
    BY <2>1, <1>1, <1>2
  <2>2. CASE j = m + 1
    BY <2>2, <1>2
  <2> QED BY <2>1, <2>2
<1>4. y = [j \in 1 .. m + 1 |-> y[j]]
  BY <1>2
<1> QED BY <1>3, <1>4 DEF Run, x, y

LEMMA RunOne == ASSUME NEW r \in Nat PROVE <<<<r, 1>>>> = Run(r, 1)
<1>1. Run(r, 0) = << >>
  BY DEF Run
<1>2. Append(Run(r, 0), <<r, 1>>) = Run(r, 1)
  <2>1. 0 + 1 = 1
    OBVIOUS
  <2> QED BY <2>1, RunGrows
<1>3. PICK e : e = <<r, 1>>
  OBVIOUS
<1>4. Append(<< >>, e) = <<e>>
  OBVIOUS
<1> QED BY <1>1, <1>2, <1>3, <1>4

\* The records returned lie before a fragment that begins one.
LEMMA BeginsLater ==
  ASSUME LogInv, ReaderOK(reader), reader.pos \in Nat, reader.pos + 1 \in DOMAIN logFile,
         NEW c \in CellType, c = logFile[reader.pos + 1], c.r > 0, c.f = 1, c.i = 1,
         NEW j \in DOMAIN reader.out
  PROVE  reader.out[j][1][1] < c.r
<1>1. PICK r \in DOMAIN starts, m \in Nat \ {0}, p \in DOMAIN logFile :
          reader.out[j] = Run(r, m) /\ p <= reader.pos /\ logFile[p].r = r
  BY DEF ReaderOK, OutOK
<1>2. r \in Nat /\ r > 0
  BY DEF LogInv
<1>3. reader.out[j][1][1] = r
  BY <1>1, <1>2, RunHead
<1>4. /\ FileOK(logFile, starts) /\ logFile \in Seq(CellType) /\ p \in Nat
      /\ logFile[p] \in CellType
  BY DEF LogInv, FileOK
<1>5. Earlier(logFile[p], c)
  BY <1>1, <1>2, <1>4 DEF FileOK
<1>6. logFile[p].f > 0 /\ logFile[p].i >= 1
  BY <1>1, <1>2, <1>4 DEF FileOK, CellOK
<1>7. logFile[p].r \in Int /\ logFile[p].f \in Nat /\ logFile[p].i \in Nat /\ c.r \in Int
  BY <1>4 DEF CellType
<1> QED BY <1>1, <1>3, <1>5, <1>6, <1>7 DEF Earlier

\* A later fragment of a record follows those that were read.
LEMMA GoesOn ==
  ASSUME LogInv, ReaderOK(reader), reader.pos \in Nat, reader.open,
         NEW c \in CellType, CellOK(logFile, starts, reader.pos + 1, c),
         c.r > 0, c.f > 1, c.i = 1
  PROVE  /\ reader.scratch = Run(c.r, c.f - 1)
         /\ \A j \in DOMAIN reader.out : reader.out[j][1][1] < c.r
<1>1. PICK p \in DOMAIN logFile :
            /\ logFile[p].r > 0 /\ logFile[p].i = HeaderSize + logFile[p].n
            /\ reader.scratch = Run(logFile[p].r, logFile[p].f)
            /\ p <= reader.pos /\ reader.pos < p + HeaderSize
            /\ \A j \in DOMAIN reader.out : reader.out[j][1][1] < logFile[p].r
  BY DEF ReaderOK, ScratchOK
<1>2. p \in Nat /\ HeaderSize \in Nat \ {0}
  BY LogConstants DEF LogInv, FileOK
<1>3. Ends(logFile, reader.pos, c.r, c.f - 1)
  <2>1. reader.pos + 1 - c.i = reader.pos
    OBVIOUS
  <2> QED BY <2>1 DEF CellOK
<1> DEFINE last(t, n) == [r |-> c.r, f |-> c.f - 1, t |-> t, n |-> n, i |-> HeaderSize + n]
<1>4. PICK t \in Types, n \in Nat : PartOf(logFile, reader.pos, last(t, n))
  BY <1>3 DEF Ends
<1>5. PICK d \in CellType : /\ d = last(t, n) /\ d.r = c.r /\ d.f = c.f - 1 /\ d.n = n
                            /\ d.i = HeaderSize + n
  <2>1. c.r \in Int /\ c.f \in Nat
    BY DEF CellType
  <2>2. last(t, n) \in CellType
    BY <2>1, <1>2 DEF CellType
  <2> QED BY <2>2
<1> HIDE DEF last
<1>6. d.i <= reader.pos /\ \A j \in 1 .. d.i : logFile[reader.pos - d.i + j] \in {Damaged, Nth(d, j)}
  BY <1>4, <1>5 DEF PartOf
<1>7. PICK j \in 1 .. d.i : j = d.i - (reader.pos - p) /\ reader.pos - d.i + j = p
  BY <1>1, <1>2, <1>5
<1>8. logFile[p] = Nth(d, j)
  <2>1. Damaged.r = -1
    BY DEF Damaged, Zero
  <2> QED BY <2>1, <1>1, <1>6, <1>7
<1>9. logFile[p].r = c.r /\ logFile[p].f = c.f - 1
  BY <1>5, <1>8, NthIs
<1> QED BY <1>1, <1>9

\* A record is returned.
LEMMA OutGrows ==
  ASSUME LogInv, ReaderOK(reader), NEW r \in DOMAIN starts, NEW m \in Nat \ {0},
         starts[r].frags = m, NEW p \in DOMAIN logFile, logFile[p].r = r,
         \A j \in DOMAIN reader.out : reader.out[j][1][1] < r,
         NEW rd, rd.out = Append(reader.out, Run(r, m)), rd.pos \in Nat,
         reader.pos <= rd.pos, p <= rd.pos
  PROVE  OutOK(rd)
<1>1. PICK k \in Nat : k = Len(reader.out)
  BY ReaderIs DEF ReaderOK
<1>2. /\ reader.out \in Seq(Seq(Nat \X Nat)) /\ reader.pos \in Nat /\ OutOK(reader)
      /\ DOMAIN logFile \subseteq Nat /\ r \in Nat
  <2>1. reader \in ReaderType /\ OutOK(reader)
    BY DEF ReaderOK
  <2>2. logFile \in Seq(CellType) /\ starts \in Seq(RecordType)
    BY DEF LogInv, FileOK
  <2>3. r \in Nat /\ DOMAIN logFile \subseteq Nat
    BY <2>2
  <2> QED BY <2>1, <2>3, ReaderIs
<1>3. Run(r, m) \in Seq(Nat \X Nat) /\ Run(r, m)[1][1] = r
  <2>1. m \in Nat
    OBVIOUS
  <2> QED BY <2>1, <1>2, RunIs, RunHead
<1>4. /\ DOMAIN rd.out = 1 .. k + 1 /\ DOMAIN reader.out = 1 .. k
      /\ rd.out[k + 1] = Run(r, m) /\ \A j \in 1 .. k : rd.out[j] = reader.out[j]
  BY <1>1, <1>2, <1>3, AppendProperties
<1>5. ASSUME NEW i \in 1 .. k + 1
      PROVE  \E r1 \in DOMAIN starts, m1 \in Nat \ {0} :
                 /\ rd.out[i] = Run(r1, m1) /\ starts[r1].frags = m1
                 /\ \E p1 \in DOMAIN logFile : p1 <= rd.pos /\ logFile[p1].r = r1
  <2>1. CASE i = k + 1
    BY <2>1, <1>4
  <2>2. CASE i \in 1 .. k
    <3>1. PICK r1 \in DOMAIN starts, m1 \in Nat \ {0} :
              /\ reader.out[i] = Run(r1, m1) /\ starts[r1].frags = m1
              /\ \E p1 \in DOMAIN logFile : p1 <= reader.pos /\ logFile[p1].r = r1
      BY <2>2, <1>2, <1>4 DEF OutOK
    <3>2. PICK p1 \in DOMAIN logFile : p1 <= reader.pos /\ logFile[p1].r = r1
      BY <3>1
    <3>3. p1 <= rd.pos
      BY <3>2, <1>2
    <3>4. rd.out[i] = Run(r1, m1)
      BY <3>1, <2>2, <1>4
    <3> QED BY <3>1, <3>2, <3>3, <3>4, Zenon
  <2>3. i = k + 1 \/ i \in 1 .. k
    OBVIOUS
  <2> QED BY <2>1, <2>2, <2>3, Zenon
<1>6. ASSUME NEW i \in 1 .. k + 1, NEW j \in 1 .. k + 1, i < j
      PROVE  rd.out[i][1][1] < rd.out[j][1][1]
  <2>1. i \in 1 .. k /\ (j \in 1 .. k \/ j = k + 1)
    BY <1>6
  <2> QED BY <2>1, <1>2, <1>3, <1>4, <1>6 DEF OutOK
<1> QED BY <1>4, <1>5, <1>6 DEF OutOK

LEMMA OutMoves ==
  ASSUME LogInv, ReaderOK(reader), NEW rd, rd.out = reader.out, rd.pos \in Nat, reader.pos <= rd.pos
  PROVE  OutOK(rd)
<1>1. OutOK(reader) /\ reader.pos \in Nat /\ DOMAIN logFile \subseteq Nat
  <2>1. OutOK(reader) /\ reader \in ReaderType
    BY DEF ReaderOK
  <2>2. DOMAIN logFile \subseteq Nat
    BY DEF LogInv, FileOK
  <2> QED BY <2>1, <2>2, ReaderIs
<1> QED BY <1>1 DEF OutOK

\* The fragments read so far end where the reader is.
LEMMA EndsHere ==
  ASSUME NEW c \in CellType, c.r > 0, NEW rd, rd.pos \in DOMAIN logFile, rd.pos \in Nat,
         logFile[rd.pos] = Nth(c, HeaderSize + c.n), rd.scratch = Run(c.r, c.f),
         \A j \in DOMAIN rd.out : rd.out[j][1][1] < c.r
  PROVE  ScratchOK(rd)
<1>1. HeaderSize \in Nat \ {0} /\ HeaderSize + c.n \in Nat
  BY LogConstants DEF CellType
<1>2. /\ logFile[rd.pos].i = HeaderSize + c.n /\ logFile[rd.pos].n = c.n
      /\ logFile[rd.pos].r = c.r /\ logFile[rd.pos].f = c.f
  BY <1>1, NthIs
<1>3. rd.pos <= rd.pos /\ rd.pos < rd.pos + HeaderSize
  BY <1>1
<1> QED BY <1>2, <1>3 DEF ScratchOK

LEMMA TakenKeeps ==
  ASSUME LogInv, reader.on, Left >= HeaderSize, NEW c, c = Header[1], HeaderSize + c.n <= Left,
         IsFragment(Fragment(c.n)),
         NEW rd \in ReaderType, rd.pos = reader.pos + HeaderSize + c.n, rd.end = reader.end,
         ~rd.resync, rd.open = reader.open, rd.scratch = reader.scratch, rd.out = reader.out
  PROVE  ReaderOK(Taken(rd, c))
<1>1. /\ ReaderOK(reader) /\ reader.pos \in Nat
      /\ c \in CellType /\ c.r > 0 /\ c.i = 1 /\ c = logFile[reader.pos + 1]
      /\ reader.pos + 1 \in DOMAIN logFile /\ CellOK(logFile, starts, reader.pos + 1, c)
      /\ rd.pos \in DOMAIN logFile /\ rd.pos <= rd.end
      /\ logFile[rd.pos] = Nth(c, HeaderSize + c.n)
  BY FragmentIs
<1>2. /\ rd.end <= Len(logFile) /\ FileOK(logFile, starts) /\ OutOK(reader)
  BY <1>1 DEF ReaderOK, LogInv
<1>3. PICK r \in Nat, f \in Nat, n \in Nat : r = c.r /\ f = c.f /\ n = c.n /\ c.t \in Types /\ f > 0
  BY <1>1 DEF CellOK, CellType
<1>4. /\ r \in DOMAIN starts /\ (f = 1 <=> c.t \in {"full", "first"})
      /\ c.t \in {"full", "last"} => starts[r].frags = f
  <2>1. r \in DOMAIN starts
    BY <1>1, <1>3 DEF CellOK, LogInv
  <2>2. ASSUME c.t \in {"full", "last"} PROVE starts[r].frags # 0
    <3>1. HeaderSize + c.n \in Nat
      BY <1>3, LogConstants
    <3>2. /\ logFile[rd.pos].r = c.r /\ logFile[rd.pos].t = c.t /\ logFile[rd.pos].n = c.n
          /\ logFile[rd.pos].i = HeaderSize + c.n
      BY <3>1, <1>1, NthIs
    <3> QED BY <3>2, <2>2, <1>1, <1>3 DEF LogInv, LastOK
  <2> QED BY <2>1, <2>2, <1>1, <1>3 DEF CellOK
<1>5. /\ rd.pos \in Nat /\ reader.pos + 1 <= rd.pos /\ reader.pos <= rd.pos
      /\ HeaderSize \in Nat \ {0}
  BY <1>1, <1>3, LogConstants
<1>6. Piece(c) = <<r, f>> /\ <<r, f>> \in Nat \X Nat
  BY <1>3 DEF Piece
<1>7. /\ rd.scratch \in Seq(Nat \X Nat) /\ rd.out \in Seq(Seq(Nat \X Nat)) /\ rd.drops \in Nat
      /\ rd.end \in Nat
  BY ReaderIs
\* What the next reader is, however it takes the fragment
<1> DEFINE drops == rd.drops + (IF rd.open /\ rd.scratch # <<>> THEN 1 ELSE 0)
<1>8. drops \in Nat
  BY <1>7
<1> HIDE DEF drops
<1>9. CASE f = 1
  <2>1. \A j \in DOMAIN reader.out : reader.out[j][1][1] < r
    BY <1>1, <1>3, <1>9, BeginsLater
  <2>2. <<Piece(c)>> = Run(r, 1) /\ Run(r, 1) \in Seq(Nat \X Nat)
    BY <1>6, <1>9, RunOne, RunIs
  <2>3. CASE c.t = "full"
    <3>1. PICK x : x = Taken(rd, c)
      OBVIOUS
    <3>2. PICK none \in Seq(Nat \X Nat) : none = << >>
      BY Nothing
    <3>3. PICK o \in Seq(Seq(Nat \X Nat)) : o = Append(rd.out, Run(r, 1))
      BY <2>2, <1>7, AppendProperties
    <3>4. x = [rd EXCEPT !.drops = drops, !.open = FALSE, !.scratch = none, !.out = o]
      BY <3>1, <3>2, <3>3, <2>2, <2>3 DEF Taken, drops
    <3>5. x \in ReaderType /\ ~x.open /\ x.out = o
      BY <3>4, <1>8 DEF ReaderType
    <3>6. x.pos = rd.pos /\ x.end = rd.end
      BY <3>4, <1>8 DEF ReaderType
    <3>7. OutOK(x)
      <4>1. starts[r].frags = 1 /\ logFile[reader.pos + 1].r = r
        BY <2>3, <1>1, <1>3, <1>4, <1>9
      <4>2. x.out = Append(reader.out, Run(r, 1))
        BY <3>3, <3>5
      <4>3. x.pos \in Nat /\ reader.pos <= x.pos /\ reader.pos + 1 <= x.pos /\ 1 \in Nat \ {0}
        BY <3>6, <1>5
      <4> QED BY <4>1, <4>2, <4>3, <2>1, <1>1, <1>4, OutGrows
    <3> QED BY <3>1, <3>5, <3>6, <3>7, <1>1, <1>2 DEF ReaderOK, ScratchOK
  <2>4. CASE c.t = "first"
    <3>1. PICK x : x = Taken(rd, c)
      OBVIOUS
    <3>2. PICK one \in Seq(Nat \X Nat) : one = Run(r, 1)
      BY <2>2
    <3>3. x = [rd EXCEPT !.drops = drops, !.open = TRUE, !.scratch = one]
      BY <3>1, <3>2, <2>2, <2>4 DEF Taken, drops
    <3>4. x \in ReaderType /\ x.scratch = one /\ x.out = rd.out
      BY <3>3, <1>8 DEF ReaderType
    <3>5. x.pos = rd.pos /\ x.end = rd.end /\ x.resync = rd.resync
      BY <3>3, <1>8 DEF ReaderType
    <3>6. OutOK(x)
      BY <3>4, <3>5, <1>1, <1>2, <1>5, OutMoves
    <3>7. ScratchOK(x)
      BY <3>2, <3>4, <3>5, <2>1, <1>1, <1>3, <1>5, <1>9, EndsHere
    <3> QED BY <3>1, <3>4, <3>5, <3>6, <3>7, <1>1, <1>2 DEF ReaderOK
  <2> QED BY <2>3, <2>4, <1>4, <1>9
<1>10. CASE f # 1 /\ rd.open
  <2>1. /\ reader.scratch = Run(r, f - 1) /\ f - 1 \in Nat
        /\ \A j \in DOMAIN reader.out : reader.out[j][1][1] < r
    <3>1. c.f > 1 /\ f - 1 \in Nat /\ reader.open
      BY <1>3, <1>10
    <3> QED BY <3>1, <1>1, <1>3, GoesOn
  <2>2. Append(rd.scratch, Piece(c)) = Run(r, f) /\ Run(r, f) \in Seq(Nat \X Nat)
    <3>1. PICK m \in Nat : m = f - 1 /\ m + 1 = f
      BY <2>1
    <3>2. Append(Run(r, m), <<r, m + 1>>) = Run(r, m + 1)
      BY RunGrows
    <3>3. rd.scratch = Run(r, m) /\ Piece(c) = <<r, m + 1>>
      BY <3>1, <2>1, <1>6
    <3>4. Run(r, f) \in Seq(Nat \X Nat)
      BY RunIs
    <3> QED BY <3>1, <3>2, <3>3, <3>4
  <2>3. CASE c.t = "middle"
    <3>1. PICK x : x = Taken(rd, c)
      OBVIOUS
    <3>2. PICK run \in Seq(Nat \X Nat) : run = Run(r, f)
      BY <2>2
    <3>3. x = [rd EXCEPT !.scratch = run]
      BY <3>1, <3>2, <2>2, <2>3, <1>10 DEF Taken
    <3>4. x \in ReaderType /\ x.scratch = run /\ x.out = rd.out
      BY <3>3 DEF ReaderType
    <3>5. x.pos = rd.pos /\ x.end = rd.end /\ x.resync = rd.resync
      BY <3>3 DEF ReaderType
    <3>6. OutOK(x)
      BY <3>4, <3>5, <1>1, <1>2, <1>5, OutMoves
    <3>7. ScratchOK(x)
      BY <3>2, <3>4, <3>5, <2>1, <1>1, <1>3, <1>5, EndsHere
    <3> QED BY <3>1, <3>4, <3>5, <3>6, <3>7, <1>1, <1>2 DEF ReaderOK
  <2>4. CASE c.t = "last"
    <3>1. PICK x : x = Taken(rd, c)
      OBVIOUS
    <3>2. PICK none \in Seq(Nat \X Nat) : none = << >>
      BY Nothing
    <3>3. PICK o \in Seq(Seq(Nat \X Nat)) : o = Append(rd.out, Run(r, f))
      BY <2>2, <1>7, AppendProperties
    <3>4. x = [rd EXCEPT !.open = FALSE, !.scratch = none, !.out = o]
      BY <3>1, <3>2, <3>3, <2>2, <2>4, <1>10 DEF Taken
    <3>5. x \in ReaderType /\ ~x.open /\ x.out = o
      BY <3>4 DEF ReaderType
    <3>6. x.pos = rd.pos /\ x.end = rd.end
      BY <3>4 DEF ReaderType
    <3>7. OutOK(x)
      <4>1. starts[r].frags = f /\ logFile[reader.pos + 1].r = r /\ f \in Nat \ {0}
        BY <2>4, <1>1, <1>3, <1>4
      <4>2. x.out = Append(reader.out, Run(r, f))
        BY <3>3, <3>5
      <4> QED BY <4>1, <4>2, <3>6, <2>1, <1>1, <1>4, <1>5, OutGrows
    <3> QED BY <3>1, <3>5, <3>6, <3>7, <1>1, <1>2 DEF ReaderOK, ScratchOK
  <2> QED BY <2>3, <2>4, <1>3, <1>4, <1>10 DEF Types
<1>11. CASE f # 1 /\ ~rd.open
  <2>1. PICK x : x = Taken(rd, c)
    OBVIOUS
  <2>2. PICK d \in Nat : d = rd.drops + 1
    BY <1>7
  <2>3. x = [rd EXCEPT !.drops = d]
    BY <2>1, <2>2, <1>4, <1>11 DEF Taken
  <2>4. x \in ReaderType /\ x.open = rd.open /\ x.out = rd.out /\ x.pos = rd.pos /\ x.end = rd.end
    BY <2>3 DEF ReaderType
  <2> QED BY <2>1, <2>4, <1>1, <1>2, <1>5, <1>11, ReaderMoves
<1> QED BY <1>9, <1>10, <1>11

LEMMA ReadFragmentKeeps == ASSUME LogInv, ReadFragment PROVE LogInv'
<1>1. PICK c : c = Header[1]
  OBVIOUS
<1>2. /\ reader.on /\ Left >= HeaderSize /\ HeaderSize + c.n <= Left /\ IsFragment(Fragment(c.n))
      /\ UNCHANGED <<logFile, blockOffset, starts, writing, harm, hurt>>
  BY <1>1 DEF ReadFragment
<1>3. /\ ReaderOK(reader) /\ c \in CellType /\ reader.pos \in Nat
      /\ reader.pos + HeaderSize + c.n \in DOMAIN logFile
      /\ reader.pos + HeaderSize + c.n <= reader.end
  BY <1>1, <1>2, FragmentIs
<1>4. /\ reader \in ReaderType /\ reader.end <= Len(logFile) /\ FileOK(logFile, starts)
      /\ (reader.resync => ~reader.open)
  BY <1>3 DEF ReaderOK, LogInv
<1>5. PICK p \in Nat : p = reader.pos + HeaderSize + c.n /\ reader.pos <= p
  BY <1>3, LogConstants DEF CellType
<1> DEFINE rd == [reader EXCEPT !.pos = @ + HeaderSize + c.n]
           rd1 == [rd EXCEPT !.resync = FALSE]
           rd2 == [rd EXCEPT !.open = FALSE, !.scratch = <<>>, !.resync = FALSE]
<1>6. /\ rd \in ReaderType /\ rd.pos = p /\ rd.end = reader.end /\ rd.out = reader.out
      /\ rd.open = reader.open /\ rd.scratch = reader.scratch /\ rd.resync = reader.resync
  <2>1. rd = [reader EXCEPT !.pos = p]
    BY <1>5
  <2> HIDE DEF rd
  <2> QED BY <2>1, <1>4, ReaderIs DEF ReaderType
<1> HIDE DEF rd
<1>7. /\ rd1 \in ReaderType /\ rd1.pos = p /\ rd1.end = reader.end /\ rd1.out = reader.out
      /\ rd1.open = reader.open /\ rd1.scratch = reader.scratch /\ ~rd1.resync
  <2>1. PICK x : x = rd1
    OBVIOUS
  <2>2. x \in ReaderType /\ ~x.resync /\ x.pos = rd.pos /\ x.end = rd.end
    BY <2>1, <1>6 DEF ReaderType
  <2>3. x.out = rd.out /\ x.open = rd.open /\ x.scratch = rd.scratch
    BY <2>1, <1>6 DEF ReaderType
  <2> QED BY <2>1, <2>2, <2>3, <1>6
<1>8. rd2 \in ReaderType /\ rd2.pos = p /\ rd2.end = reader.end /\ rd2.out = reader.out /\ ~rd2.open
  <2>1. PICK none \in Seq(Nat \X Nat) : none = << >>
    BY Nothing
  <2>2. PICK x : x = [rd EXCEPT !.open = FALSE, !.scratch = none, !.resync = FALSE]
    OBVIOUS
  <2>3. x \in ReaderType /\ x.pos = rd.pos /\ x.end = rd.end /\ x.out = rd.out /\ ~x.open
    BY <2>2, <1>6 DEF ReaderType
  <2> QED BY <2>1, <2>2, <2>3, <1>6
<1> HIDE DEF rd1, rd2
<1>9. ASSUME NEW x \in ReaderType, x.pos = p, x.end = reader.end, x.out = reader.out, ~x.open
      PROVE  ReaderOK(x)
  BY <1>3, <1>4, <1>5, <1>9, ReaderMoves
<1>10. ASSUME NEW x \in ReaderType, x.pos = p, x.end = reader.end, x.out = reader.out,
              x.open = reader.open, x.scratch = reader.scratch, ~x.resync
       PROVE  ReaderOK(Taken(x, c))
  BY <1>1, <1>2, <1>5, <1>10, TakenKeeps
<1>11. reader' \in {rd, rd1, rd2, Taken(rd, c), Taken(rd1, c)} /\ ReaderOK(reader')
  <2>1. CASE reader.pos < reader.from
    <3>1. reader' = rd2
      BY <2>1, <1>1 DEF ReadFragment, rd, rd2
    <3> QED BY <3>1, <1>8, <1>9
  <2>2. CASE ~(reader.pos < reader.from) /\ ~reader.resync
    <3>1. reader' = Taken(rd, c)
      BY <2>2, <1>1 DEF ReadFragment, rd
    <3> QED BY <3>1, <2>2, <1>6, <1>10
  <2>3. CASE ~(reader.pos < reader.from) /\ reader.resync
    <3>1. reader' = Resynced(rd, c)
      BY <2>3, <1>1 DEF ReadFragment, rd
    <3>2. ~rd.open /\ ~rd1.open
      BY <2>3, <1>4, <1>6, <1>7
    <3>3. CASE c.t = "middle"
      <4>1. reader' = rd
        BY <3>1, <3>3 DEF Resynced
      <4> QED BY <4>1, <3>2, <1>6, <1>9
    <3>4. CASE c.t = "last"
      <4>1. reader' = rd1
        BY <3>1, <3>4 DEF Resynced, rd1
      <4> QED BY <4>1, <3>2, <1>7, <1>9
    <3>5. CASE c.t \notin {"middle", "last"}
      <4>1. reader' = Taken(rd1, c)
        BY <3>1, <3>5 DEF Resynced, rd1
      <4> QED BY <4>1, <1>7, <1>10
    <3> QED BY <3>3, <3>4, <3>5
  <2> QED BY <2>1, <2>2, <2>3
<1> QED BY <1>2, <1>11, ReaderKeeps

-----------------------------------------------------------------------------
(* The invariant, and the property *)

LEMMA NextKeeps == ASSUME LogInv, [LogNext]_logVars PROVE LogInv'
<1>1. CASE UNCHANGED logVars
  BY <1>1 DEF logVars, LogInv, WritingOK, ReaderOK, OutOK, ScratchOK
<1>2. CASE LogNext
  BY <1>2, AddRecordKeeps, EmitKeeps, EmitFailsKeeps, HarmKeeps, OpenKeeps, RefillKeeps,
     AtEofKeeps, BadRecordKeeps, ReadFragmentKeeps DEF LogNext
<1> QED BY <1>1, <1>2

LEMMA LogInvReads == LogInv => ReadsAreRecords
<1> SUFFICES ASSUME LogInv, reader.on PROVE ReadsAreRecords
  BY DEF ReadsAreRecords
<1>1. OutOK(reader)
  BY DEF LogInv, NoReader, ReaderOK
<1>2. ASSUME NEW i \in DOMAIN reader.out
      PROVE  \E r \in DOMAIN starts :
              /\ Len(reader.out[i]) > 0
              /\ reader.out[i] = [f \in 1 .. Len(reader.out[i]) |-> <<r, f>>]
              /\ starts[r].frags = Len(reader.out[i])
  <2>1. PICK r \in DOMAIN starts, m \in Nat \ {0} :
            reader.out[i] = Run(r, m) /\ starts[r].frags = m
    BY <1>1 DEF OutOK
  <2>2. Len(reader.out[i]) = m /\ m > 0
    <3>1. r \in Nat /\ m \in Nat
      BY DEF LogInv
    <3>2. Run(r, m) \in Seq(Nat \X Nat) /\ DOMAIN Run(r, m) = 1 .. m
      BY <3>1, RunIs
    <3> QED BY <3>1, <3>2, <2>1
  <2> QED BY <2>1, <2>2 DEF Run
<1> QED BY <1>1, <1>2 DEF ReadsAreRecords, OutOK

(***************************************************************************)
(* A reader of a log returns only records that were written, whole and in  *)
(* their order, whatever was cut off, damaged or not written: for any      *)
(* sizes of blocks, headers and records, and from any offset.  log::Writer *)
(* and log::Reader.                                                        *)
(***************************************************************************)
THEOREM RecordsAreRead == LogSpec => []ReadsAreRecords
<1>1. LogInit => LogInv
  BY InitKeeps
<1>2. LogInv /\ [LogNext]_logVars => LogInv'
  BY NextKeeps
<1>3. LogInv => ReadsAreRecords
  BY LogInvReads
<1> QED BY <1>1, <1>2, <1>3, PTL DEF LogSpec

-----------------------------------------------------------------------------
(* What a reader finds: the fragments that were written, in their order, each   *)
(* with its place, its block, and what its header says.                        *)

Aligned(x) == x % BlockSize = 0
FragmentType ==
    [p : Nat, b : Nat, n : Nat, r : Nat \ {0}, f : Nat \ {0}, t : Types]
After(x) == x.p + HeaderSize + x.n
Complete(x) == x.t \in {"full", "last"}
Begins(x) == x.t \in {"full", "first"}

\* The next fragment stands in the same block if its header has room there, and goes on
\* with the record unless that is complete.
Follows(x, y) ==
    /\ IF After(x) + HeaderSize <= x.b + BlockSize
       THEN y.p = After(x) /\ y.b = x.b
       ELSE y.p = x.b + BlockSize /\ y.b = y.p
    /\ Complete(x) <=> Begins(y)
    /\ ~Complete(x) => y.r = x.r /\ y.f = x.f + 1

\* Fragments one after the other, none across the end of a block; each block starts with one.
Total(g) == IF g = << >> THEN 0 ELSE After(g[Len(g)])
Laid(g) ==
    /\ g \in Seq(FragmentType)
    /\ g # << >> => g[1].p = 0 /\ g[1].b = 0 /\ Begins(g[1])
    /\ \A k \in DOMAIN g :
          /\ Aligned(g[k].b) /\ g[k].b <= g[k].p /\ After(g[k]) <= g[k].b + BlockSize
          /\ Begins(g[k]) <=> g[k].f = 1
    /\ \A k \in DOMAIN g : k + 1 \in DOMAIN g => Follows(g[k], g[k + 1])
    /\ \A k, l \in DOMAIN g : k < l => After(g[k]) <= g[l].p
    /\ \A x \in 0 .. Total(g) : Aligned(x) =>
          \E j \in 0 .. Len(g) :
              /\ j > 0 => After(g[j]) <= x
              /\ j < Len(g) => g[j + 1].p = x

\* A record starts with its first fragment and is logged with its last.
Recorded(g, st) ==
    /\ \A k \in DOMAIN g :
          /\ g[k].r \in DOMAIN st /\ st[g[k].r].at <= g[k].p + 1
          /\ Begins(g[k]) => st[g[k].r].at = g[k].p + 1
          /\ Complete(g[k]) => st[g[k].r].frags = g[k].f /\ st[g[k].r].last = After(g[k])
          /\ After(g[k]) <= st[g[k].r].last
    /\ \A r \in DOMAIN st : st[r].frags > 0 => \E k \in DOMAIN g : g[k].r = r /\ Complete(g[k])

\* The file has the cells of the fragments, up to the cut and but for the damaged one.
CellOf(x, i) == [r |-> x.r, f |-> x.f, t |-> x.t, n |-> x.n, i |-> i]
Holds(g, s, hm, at) ==
    /\ IF hm = "cut" THEN Len(s) = at /\ at <= Total(g) ELSE Len(s) = Total(g)
    /\ hm = "damaged" => at \in 1 .. Len(s)
    /\ \A k \in DOMAIN g : \A i \in 1 .. HeaderSize + g[k].n :
          g[k].p + i <= Len(s) =>
              s[g[k].p + i] = IF hm = "damaged" /\ g[k].p + i = at THEN Damaged
                              ELSE CellOf(g[k], i)

\* The writer goes on after the last fragment.
Goes(g, st, wr, off, hm) ==
    /\ hm # "cut" => off = IF g = << >> THEN 0 ELSE After(g[Len(g)]) - g[Len(g)].b
    /\ wr.on => \A k \in DOMAIN g : g[k].r = Len(st) => wr.f > 0 /\ ~Complete(g[k])
    /\ wr.on /\ wr.f > 0 => /\ g # << >> /\ g[Len(g)].r = Len(st)
                            /\ g[Len(g)].f = wr.f /\ ~Complete(g[Len(g)])
    /\ (~wr.on \/ wr.f = 0) /\ g # << >> => Complete(g[Len(g)])

Layout(g) ==
    /\ Laid(g) /\ Recorded(g, starts) /\ Holds(g, logFile, harm, hurt)
    /\ Goes(g, starts, writing, blockOffset, harm)

\* The records that a reader must return
Due(rd, r) ==
    /\ starts[r].at > rd.from
    /\ harm = "cut" => starts[r].last <= hurt
    /\ harm = "damaged" => starts[r].last < hurt \/ starts[r].at > BlockEnd(hurt - 1)
Got(rd, r) == \E i \in DOMAIN rd.out : rd.out[i] = Whole(r)

\* The reader stands before a fragment, or after the last one that fits the block; in its
\* buffer is the rest of a block.
Stands(rd, g, j) ==
    /\ j \in 0 .. Len(g)
    /\ j > 0 => After(g[j]) <= rd.pos
    /\ j < Len(g) => rd.pos = g[j + 1].p \/ (j > 0 /\ rd.pos = After(g[j]))
    /\ IF rd.eof
       THEN /\ rd.end = Len(logFile)
            /\ \E a \in Nat : Aligned(a) /\ a <= rd.pos /\ rd.end < a + BlockSize
       ELSE Aligned(rd.end) /\ rd.end <= rd.pos + BlockSize

\* What is behind the reader was returned, as far as it is due; it has the fragments of
\* the record it is in, and drops nothing where it needs not.
Behind(rd, g, j) ==
    /\ \A k \in 1 .. j : Complete(g[k]) /\ Due(rd, g[k].r) => Got(rd, g[k].r)
    /\ j > 0 => (~Complete(g[j]) /\ Due(rd, g[j].r) => rd.open)
    /\ rd.open => /\ j > 0 /\ ~Complete(g[j]) /\ starts[g[j].r].at > rd.from
                  /\ rd.scratch = Run(g[j].r, g[j].f)
    /\ harm \in {"none", "cut"} /\ rd.from = 0 =>
          ~rd.resync /\ rd.drops = 0 /\ (j > 0 => (~Complete(g[j]) => rd.open))

Loses(rd) ==
    /\ \A r \in Logged : Due(rd, r) => Got(rd, r)
    /\ harm = "cut" /\ rd.from = 0 => rd.drops = 0

ReaderLoss(rd, g) ==
    /\ \A r \in Logged : Got(rd, r) => starts[r].at > rd.from
    /\ IF rd.done THEN Loses(rd)
       ELSE \E j \in 0 .. Len(g) : Stands(rd, g, j) /\ Behind(rd, g, j)

LossInv ==
    /\ hurt \in Nat
    /\ harm # "torn" => \E g : Layout(g) /\ (reader.on => ReaderLoss(reader, g))
-----------------------------------------------------------------------------
(* Blocks *)

\* A place is in the block of its quotient.
LEMMA Parts ==
  ASSUME NEW x \in Nat
  PROVE  /\ x % BlockSize \in 0 .. BlockSize - 1 /\ x \div BlockSize \in Nat
         /\ x = BlockSize * (x \div BlockSize) + (x % BlockSize)
BY LogConstants

LEMMA AlignedIs ==
  ASSUME NEW x \in Nat
  PROVE  Aligned(x) <=> \E q \in Nat : x = BlockSize * q
<1>1. BlockSize \in Nat /\ BlockSize > 0
  BY LogConstants
<1>2. ASSUME Aligned(x) PROVE \E q \in Nat : x = BlockSize * q
  <2>1. PICK q \in Nat : q = x \div BlockSize
    BY Parts
  <2>2. x = BlockSize * q + (x % BlockSize) /\ x % BlockSize = 0
    BY <1>2, <2>1, Parts DEF Aligned
  <2>3. PICK d \in Int : d = BlockSize * q
    BY <1>1
  <2> QED BY <2>2, <2>3
<1>3. ASSUME NEW q \in Nat, x = BlockSize * q PROVE Aligned(x)
  BY <1>1, <1>3 DEF Aligned
<1> QED BY <1>2, <1>3

LEMMA AlignedNext ==
  ASSUME NEW x \in Nat, Aligned(x) PROVE Aligned(x + BlockSize)
<1>1. PICK q \in Nat : x = BlockSize * q
  BY AlignedIs
<1>2. BlockSize \in Nat /\ x + BlockSize = BlockSize * (q + 1) /\ x + BlockSize \in Nat /\ q + 1 \in Nat
  BY <1>1, LogConstants
<1> QED BY <1>2, AlignedIs

\* Two blocks do not overlap.
LEMMA Apart ==
  ASSUME NEW x \in Nat, NEW y \in Nat, Aligned(x), Aligned(y), x < y PROVE x + BlockSize <= y
<1>1. PICK q \in Nat : x = BlockSize * q
  BY AlignedIs
<1>2. PICK w \in Nat : y = BlockSize * w
  BY AlignedIs
<1>3. BlockSize \in Nat 
  BY LogConstants
<1>4. q < w
  BY <1>1, <1>2, <1>3
<1>5. PICK d \in Nat : w = q + 1 + d
  BY <1>4
<1>6. y = x + BlockSize + BlockSize * d /\ BlockSize * d >= 0
  BY <1>1, <1>2, <1>3, <1>5
<1> QED BY <1>6, <1>3

LEMMA BlockEndIs ==
  ASSUME NEW b \in Nat, Aligned(b), NEW x \in Nat, b <= x, x < b + BlockSize
  PROVE  BlockEnd(x) = b + BlockSize
<1>1. PICK q \in Nat : b = BlockSize * q
  BY AlignedIs
<1>3. BlockSize \in Nat /\ BlockSize > 0
  BY LogConstants
<1>2. x \div BlockSize = q
  BY <1>1, <1>3, Parts
<1>4. (q + 1) * BlockSize = BlockSize * q + BlockSize
  BY <1>3
<1> QED BY <1>1, <1>2, <1>4 DEF BlockEnd

\* A reader starts with a block, before or less than a header behind its offset.
LEMMA InitialBlockAligned ==
  ASSUME NEW from \in Nat
  PROVE  /\ InitialBlock(from) \in Nat /\ Aligned(InitialBlock(from))
         /\ InitialBlock(from) < from + HeaderSize
<1>1. /\ from % BlockSize \in 0 .. BlockSize - 1 /\ from \div BlockSize \in Nat
      /\ from - (from % BlockSize) = BlockSize * (from \div BlockSize)
  BY Parts, LogConstants
<1>2. from - (from % BlockSize) \in Nat /\ Aligned(from - (from % BlockSize))
  BY <1>1, LogConstants, AlignedIs
<1>3. Aligned((from - (from % BlockSize)) + BlockSize)
  BY <1>2, AlignedNext
<1> QED BY <1>1, <1>2, <1>3, LogConstants DEF InitialBlock

LEMMA AlignedZero == Aligned(0)
BY LogConstants DEF Aligned

-----------------------------------------------------------------------------
(* The fragments *)

LEMMA FragmentTypes ==
  ASSUME NEW x \in FragmentType
  PROVE  /\ x.p \in Nat /\ x.b \in Nat /\ x.n \in Nat /\ x.r \in Nat \ {0} /\ x.f \in Nat \ {0}
         /\ x.t \in Types /\ After(x) \in Nat /\ x.p + HeaderSize <= After(x) /\ x.p < After(x)
<1>1. x.p \in Nat /\ x.b \in Nat /\ x.n \in Nat /\ x.r \in Nat \ {0} /\ x.f \in Nat \ {0} /\ x.t \in Types
  BY DEF FragmentType
<1> QED BY <1>1, LogConstants DEF After

LEMMA LaidIs ==
  ASSUME NEW g, Laid(g)
  PROVE  /\ Len(g) \in Nat /\ DOMAIN g = 1 .. Len(g) /\ Total(g) \in Nat
         /\ \A k \in DOMAIN g : g[k] \in FragmentType
         /\ \A k \in DOMAIN g : /\ g[k].p \in Nat /\ g[k].b \in Nat /\ After(g[k]) \in Nat
                                /\ g[k].p + HeaderSize <= After(g[k]) /\ After(g[k]) <= Total(g)
         /\ g = << >> <=> Len(g) = 0
<1>1. g \in Seq(FragmentType)
  BY DEF Laid
<1>2. Len(g) \in Nat /\ DOMAIN g = 1 .. Len(g) /\ (g = << >> <=> Len(g) = 0)
      /\ \A k \in DOMAIN g : g[k] \in FragmentType
  BY <1>1
<1>3. \A k \in DOMAIN g : /\ g[k].p \in Nat /\ g[k].b \in Nat /\ After(g[k]) \in Nat
                                /\ g[k].p + HeaderSize <= After(g[k])
  BY <1>2, FragmentTypes
<1>4. ASSUME NEW k \in DOMAIN g PROVE After(g[k]) <= Total(g)
  <2>1. g # << >> /\ Len(g) \in DOMAIN g
    BY <1>2
  <2>2. CASE k = Len(g)
    BY <2>1, <2>2, <1>3 DEF Total
  <2>3. CASE k < Len(g)
    <3>1. After(g[k]) <= g[Len(g)].p
      BY <2>1, <2>3 DEF Laid
    <3> QED BY <3>1, <2>1, <1>3, LogConstants DEF Total
  <2> QED BY <2>2, <2>3, <1>2
<1>5. Total(g) \in Nat
  BY <1>2, <1>3 DEF Total
<1> QED BY <1>2, <1>3, <1>4, <1>5

\* At the start of a block stands a fragment, unless the file ends there.
LEMMA FragmentAt ==
  ASSUME NEW g, Laid(g), NEW x \in 0 .. Total(g), Aligned(x)
  PROVE  \E j \in 0 .. Len(g) :
              /\ j > 0 => After(g[j]) <= x
              /\ j < Len(g) => g[j + 1].p = x
BY DEF Laid

LEMMA AppendIs ==
  ASSUME NEW S, NEW g \in Seq(S), NEW x \in S
  PROVE  /\ Append(g, x) \in Seq(S) /\ Len(Append(g, x)) = Len(g) + 1 /\ Append(g, x) # << >>
         /\ Append(g, x)[Len(g) + 1] = x /\ DOMAIN Append(g, x) = 1 .. Len(g) + 1
         /\ \A k \in 1 .. Len(g) : Append(g, x)[k] = g[k]
OBVIOUS

\* The writer lays the next fragment.
LEMMA LaidGrows ==
  ASSUME NEW g, Laid(g), NEW x \in FragmentType,
         g = << >> => x.p = 0 /\ x.b = 0 /\ Begins(x),
         g # << >> => Follows(g[Len(g)], x),
         After(x) <= x.b + BlockSize, Begins(x) <=> x.f = 1
  PROVE  Laid(Append(g, x)) /\ Total(Append(g, x)) = After(x)
<1> DEFINE h == Append(g, x)
<1>1. PICK m \in Nat : m = Len(g) /\ DOMAIN g = 1 .. m /\ (g = << >> <=> m = 0)
  BY LaidIs
<1>2. /\ h \in Seq(FragmentType) /\ Len(h) = m + 1 /\ h # << >> /\ h[m + 1] = x
      /\ DOMAIN h = 1 .. m + 1 /\ \A k \in 1 .. m : h[k] = g[k]
  BY <1>1, AppendIs DEF Laid
<1> HIDE DEF h
<1>3. \A k \in 1 .. m : /\ g[k].p \in Nat /\ g[k].b \in Nat /\ After(g[k]) \in Nat
                        /\ g[k].p + HeaderSize <= After(g[k])
                        /\ Aligned(g[k].b) /\ g[k].b <= g[k].p /\ After(g[k]) <= g[k].b + BlockSize
                        /\ (Begins(g[k]) <=> g[k].f = 1)
  BY <1>1, LaidIs DEF Laid
<1>14. m > 0 => /\ g[m].p \in Nat /\ g[m].b \in Nat /\ After(g[m]) \in Nat
                /\ g[m].p + HeaderSize <= After(g[m])
                /\ Aligned(g[m].b) /\ g[m].b <= g[m].p /\ After(g[m]) <= g[m].b + BlockSize
  <2>1. m > 0 => m \in 1 .. m
    OBVIOUS
  <2> QED BY <2>1, <1>3
<1>4. x.p \in Nat /\ x.b \in Nat /\ After(x) \in Nat /\ x.p + HeaderSize <= After(x)
      /\ HeaderSize \in Nat /\ HeaderSize > 0 /\ BlockSize \in Nat /\ HeaderSize < BlockSize
  BY FragmentTypes, LogConstants
<1>5. m > 0 => /\ After(g[m]) <= x.p /\ x.b <= x.p /\ Aligned(x.b)
               /\ x.b = g[m].b \/ (x.b = x.p /\ x.p = g[m].b + BlockSize)
               /\ x.b = g[m].b => x.p = After(g[m])
  <2> SUFFICES ASSUME m > 0
               PROVE  /\ After(g[m]) <= x.p /\ x.b <= x.p /\ Aligned(x.b)
                      /\ x.b = g[m].b \/ (x.b = x.p /\ x.p = g[m].b + BlockSize)
                      /\ x.b = g[m].b => x.p = After(g[m])
    OBVIOUS
  <2>1. Follows(g[m], x) /\ m \in 1 .. m
    BY <1>1
  <2>2. CASE After(g[m]) + HeaderSize <= g[m].b + BlockSize
    <3>1. x.p = After(g[m]) /\ x.b = g[m].b
      BY <2>1, <2>2 DEF Follows
    <3>2. PICK a \in Nat, b \in Nat : a = After(g[m]) /\ b = g[m].b /\ b <= a /\ Aligned(b)
      BY <1>14, <1>4
    <3> QED BY <3>1, <3>2
  <2>3. CASE ~(After(g[m]) + HeaderSize <= g[m].b + BlockSize)
    <3>1. x.p = g[m].b + BlockSize /\ x.b = x.p
      BY <2>1, <2>3 DEF Follows
    <3>2. Aligned(x.b)
      BY <3>1, <2>1, <1>3, AlignedNext
    <3>3. PICK a \in Nat, b \in Nat : a = After(g[m]) /\ b = g[m].b /\ a <= b + BlockSize
      BY <1>14
    <3>4. x.p = b + BlockSize /\ x.b = b + BlockSize /\ x.b # b
      BY <3>1, <3>3, <1>4
    <3> QED BY <3>2, <3>3, <3>4, <1>4
  <2> QED BY <2>2, <2>3
<1>6. Aligned(x.b) /\ x.b <= x.p
  BY <1>1, <1>4, <1>5, AlignedZero
<1>7. h[1].p = 0 /\ h[1].b = 0 /\ Begins(h[1])
  <2>1. CASE m = 0
    BY <2>1, <1>1, <1>2
  <2>2. CASE m > 0
    <3>1. 1 \in 1 .. m /\ g # << >>
      BY <2>2, <1>1
    <3> QED BY <3>1, <1>2 DEF Laid
  <2> QED BY <2>1, <2>2
<1>8. ASSUME NEW k \in DOMAIN h
      PROVE  /\ Aligned(h[k].b) /\ h[k].b <= h[k].p /\ After(h[k]) <= h[k].b + BlockSize
             /\ Begins(h[k]) <=> h[k].f = 1
  <2>1. CASE k \in 1 .. m
    BY <2>1, <1>2, <1>3
  <2>2. CASE k = m + 1
    BY <2>2, <1>2, <1>6
  <2> QED BY <2>1, <2>2, <1>2
<1>9. ASSUME NEW k \in DOMAIN h, k + 1 \in DOMAIN h PROVE Follows(h[k], h[k + 1])
  <2>1. CASE k + 1 \in 1 .. m
    <3>1. k \in 1 .. m
      BY <2>1, <1>2, <1>9
    <3> QED BY <2>1, <3>1, <1>1, <1>2 DEF Laid
  <2>2. CASE k + 1 = m + 1
    <3>1. k = m /\ m \in 1 .. m /\ g # << >>
      BY <2>2, <1>1, <1>2, <1>9
    <3> QED BY <2>2, <3>1, <1>1, <1>2
  <2> QED BY <2>1, <2>2, <1>2, <1>9
<1>10. ASSUME NEW k \in DOMAIN h, NEW l \in DOMAIN h, k < l PROVE After(h[k]) <= h[l].p
  <2>1. CASE l \in 1 .. m
    <3>1. k \in 1 .. m
      BY <2>1, <1>2, <1>10
    <3> QED BY <2>1, <3>1, <1>1, <1>2, <1>10 DEF Laid
  <2>2. CASE l = m + 1
    <3>1. k \in 1 .. m /\ m \in 1 .. m /\ h[k] = g[k] /\ h[l] = x
      BY <2>2, <1>2, <1>10
    <3>2. CASE k = m
      BY <3>1, <3>2, <1>5
    <3>3. CASE k < m
      <4>1. After(g[k]) <= g[m].p
        BY <3>1, <3>3, <1>1 DEF Laid
      <4>2. m > 0 /\ After(g[k]) \in Nat
        BY <3>1, <3>3, <1>3
      <4>3. PICK a \in Nat, q \in Nat, c \in Nat :
                a = After(g[k]) /\ q = g[m].p /\ c = After(g[m]) /\ q <= c /\ a <= q
        BY <4>1, <4>2, <1>4, <1>14
      <4>4. PICK w \in Nat : w = x.p /\ c <= w
        BY <4>2, <4>3, <1>4, <1>5
      <4> QED BY <4>3, <4>4, <3>1
    <3> QED BY <3>1, <3>2, <3>3
  <2> QED BY <2>1, <2>2, <1>2
<1>11. Total(h) = After(x)
  BY <1>2 DEF Total
<1>12. Total(g) = IF m = 0 THEN 0 ELSE After(g[m])
  BY <1>1 DEF Total
<1>16. HeaderSize \in Nat /\ HeaderSize > 0 /\ BlockSize \in Nat
  BY LogConstants
<1>13. ASSUME NEW y \in Nat, y <= After(x), Aligned(y)
       PROVE  \E j \in 0 .. m + 1 :
                /\ j > 0 => After(h[j]) <= y
                /\ j < m + 1 => h[j + 1].p = y
  <2>1. CASE y <= Total(g)
    <3>1. y \in 0 .. Total(g)
      BY <2>1, LaidIs
    <3>2. PICK j \in 0 .. m :
              /\ j > 0 => After(g[j]) <= y
              /\ j < m => g[j + 1].p = y
      BY <3>1, <1>1, <1>13, FragmentAt
    <3>3. j > 0 => After(h[j]) <= y
      BY <3>2, <1>2
    <3>4. CASE j < m
      <4>1. j + 1 \in 1 .. m /\ j \in 0 .. m + 1
        BY <3>4
      <4>2. h[j + 1].p = y
        BY <4>1, <3>2, <3>4, <1>2
      <4> QED BY <4>1, <4>2, <3>3
    <3>5. CASE j = m
      <4>1. h[j + 1] = x
        BY <3>5, <1>2
      <4>2. x.p = y
        <5>1. CASE m = 0
          BY <5>1, <1>1, <1>12, <2>1
        <5>2. CASE m > 0
          <6>1. y = After(g[m]) /\ m \in 1 .. m
            BY <5>2, <3>2, <3>5, <2>1, <1>3, <1>12
          <6>2. PICK b \in Nat, q \in Nat :
                    /\ b = g[m].b /\ q = g[m].p /\ Aligned(b) /\ b <= q
                    /\ q + HeaderSize <= y /\ y <= b + BlockSize
            BY <5>2, <6>1, <1>14
          <6>3. b < y
            BY <6>2, <1>16
          <6>4. y = b + BlockSize
            <7>1. b + BlockSize <= y
              BY <6>2, <6>3, <1>13, Apart
            <7>2. y <= b + BlockSize
              BY <6>2
            <7> QED BY <7>1, <7>2, <1>16
          <6> QED BY <5>2, <6>1, <6>2, <6>4, <1>5
        <5> QED BY <5>1, <5>2
      <4> QED BY <4>1, <4>2, <3>3, <3>5
    <3> QED BY <3>4, <3>5
  <2>2. CASE y > Total(g)
    <3>1. y \in Nat /\ x.b \in Nat
      BY <1>4
    <3>2. CASE y <= x.p
      <4>1. y = x.p
        <5>1. CASE m = 0
          BY <5>1, <3>2, <1>1, <3>1
        <5>2. CASE m > 0
          <6>1. PICK a \in Nat, b \in Nat, q \in Nat :
                    /\ a = After(g[m]) /\ b = g[m].b /\ q = g[m].p /\ Aligned(b) /\ b <= q
                    /\ q + HeaderSize <= a
            BY <5>2, <1>14
          <6>2. a < y
            BY <5>2, <6>1, <2>2, <1>12
          <6>3. b < y
            BY <6>1, <6>2, <1>16
          <6>4. b + BlockSize <= y
            BY <6>1, <6>3, <3>1, <1>13, Apart
          <6>5. x.p = a \/ x.p = b + BlockSize
            BY <5>2, <6>1, <1>5
          <6> QED BY <6>2, <6>4, <6>5, <3>1, <3>2, <1>4
        <5> QED BY <5>1, <5>2
      <4>2. m > 0 => After(h[m]) <= y
        BY <4>1, <1>2, <1>5
      <4>3. m \in 0 .. m + 1 /\ h[m + 1].p = y
        BY <4>1, <1>2
      <4> QED BY <4>2, <4>3
    <3>3. CASE y > x.p
      <4>1. x.b < y
        BY <3>3, <3>1, <1>4, <1>6
      <4>2. x.b + BlockSize <= y
        BY <4>1, <3>1, <1>6, <1>13, Apart
      <4>3. After(h[m + 1]) <= y /\ m + 1 \in 0 .. m + 1
        BY <4>2, <3>1, <1>2, <1>4
      <4> QED BY <4>3
    <3> QED BY <3>2, <3>3, <3>1, <1>4
  <2> QED BY <2>1, <2>2, LaidIs
<1>15. \A y \in 0 .. Total(h) : Aligned(y) =>
          \E j \in 0 .. Len(h) :
              /\ j > 0 => After(h[j]) <= y
              /\ j < Len(h) => h[j + 1].p = y
  <2>1. \A y \in 0 .. After(x) : y \in Nat /\ y <= After(x)
    BY <1>4
  <2> QED BY <2>1, <1>2, <1>11, <1>13
<1> QED BY <1>2, <1>7, <1>8, <1>9, <1>10, <1>11, <1>15 DEF Laid, h

-----------------------------------------------------------------------------
(* The writer *)

LEMMA InitKeepsLoss == LogInit => LossInv
<1> SUFFICES ASSUME LogInit PROVE LossInv
  OBVIOUS
<1> DEFINE g == << >>
<1>1. /\ g \in Seq(FragmentType) /\ Len(g) = 0 /\ DOMAIN g = {} /\ Total(g) = 0
      /\ logFile = << >> /\ starts = << >> /\ ~writing.on /\ blockOffset = 0
      /\ harm = "none" /\ hurt = 0 /\ ~reader.on
  BY DEF LogInit, NotWriting, NoReader, Total
<1>2. Laid(g)
  <2>1. \A x \in 0 .. Total(g) : \E j \in 0 .. Len(g) :
              (j > 0 => After(g[j]) <= x) /\ (j < Len(g) => g[j + 1].p = x)
    <3>1. 0 \in 0 .. Len(g) /\ ~(0 > 0) /\ ~(0 < Len(g))
      BY <1>1
    <3> QED BY <3>1
  <2> QED BY <2>1, <1>1 DEF Laid
<1>3. Recorded(g, starts)
  BY <1>1 DEF Recorded
<1>4. Holds(g, logFile, harm, hurt)
  BY <1>1 DEF Holds
<1>5. Goes(g, starts, writing, blockOffset, harm)
  BY <1>1 DEF Goes
<1> HIDE DEF g
<1> QED BY <1>1, <1>2, <1>3, <1>4, <1>5 DEF LossInv, Layout

\* What the file has while nothing reads it
LEMMA LayoutKeepsLoss ==
  ASSUME ~reader.on, UNCHANGED reader, hurt' \in Nat,
         harm' # "torn" => \E g : Layout(g)'
  PROVE  LossInv'
BY DEF LossInv

LEMMA AddRecordKeepsLoss ==
  ASSUME LogInv, LossInv, NEW size \in Sizes, AddRecord(size) PROVE LossInv'
<1> DEFINE st1 == Append(starts, [frags |-> 0, at |-> 0, last |-> 0])
<1>1. /\ starts' = st1 /\ writing' = [on |-> TRUE, left |-> size, f |-> 0] /\ ~writing.on
      /\ ~reader.on /\ harm # "cut" /\ UNCHANGED <<logFile, blockOffset, reader, harm, hurt>>
      /\ starts \in Seq(RecordType) /\ hurt \in Nat
  BY DEF AddRecord, LogInv, LossInv
<1>2. PICK n \in Nat : n = Len(starts) /\ DOMAIN starts = 1 .. n
  BY <1>1
<1>3. /\ Len(st1) = n + 1 /\ DOMAIN st1 = 1 .. n + 1 /\ st1[n + 1].frags = 0
      /\ \A r \in 1 .. n : st1[r] = starts[r]
  <2>1. [frags |-> 0, at |-> 0, last |-> 0] \in RecordType
    BY DEF RecordType
  <2> QED BY <2>1, <1>1, <1>2, AppendIs
<1> HIDE DEF st1
<1>4. ASSUME NEW g, Layout(g) PROVE Layout(g)'
  <2>1. /\ Laid(g) /\ Recorded(g, starts) /\ Holds(g, logFile, harm, hurt)
        /\ Goes(g, starts, writing, blockOffset, harm)
    BY <1>4 DEF Layout
  <2>2. \A k \in DOMAIN g : g[k].r \in 1 .. n
    BY <2>1, <1>2 DEF Recorded
  <2>3. Recorded(g, st1)
    <3>1. \A k \in DOMAIN g : g[k].r \in DOMAIN st1 /\ st1[g[k].r] = starts[g[k].r]
      BY <2>2, <1>3
    <3>2. \A r \in DOMAIN st1 : st1[r].frags > 0 => r \in DOMAIN starts /\ st1[r] = starts[r]
      BY <1>2, <1>3
    <3> QED BY <2>1, <3>1, <3>2 DEF Recorded
  <2>4. Goes(g, st1, writing', blockOffset, harm)
    <3>1. \A k \in DOMAIN g : g[k].r # n + 1
      BY <2>2
    <3>2. writing'.on /\ ~(writing'.f > 0) /\ writing'.f = 0
      BY <1>1
    <3> QED BY <3>1, <3>2, <2>1, <1>1, <1>3 DEF Goes
  <2> QED BY <2>1, <2>3, <2>4, <1>1 DEF Layout
<1>5. harm' # "torn" => \E g : Layout(g)'
  BY <1>1, <1>4 DEF LossInv
<1> QED BY <1>1, <1>5 DEF LossInv

\* The fragment that is written next
LEMMA NextIs ==
  ASSUME LogInv, writing.on, NEW g, Layout(g),
         NEW x, x = [p |-> Len(logFile) + trailer, b |-> Len(logFile) + trailer - offset,
                     n |-> length, r |-> Len(starts), f |-> writing.f + 1, t |-> type]
  PROVE  /\ x \in FragmentType
         /\ g = << >> => x.p = 0 /\ x.b = 0 /\ Begins(x)
         /\ g # << >> => Follows(g[Len(g)], x)
         /\ After(x) <= x.b + BlockSize /\ (Begins(x) <=> x.f = 1)
         /\ Len(logFile) = Total(g) /\ After(x) = Len(logFile) + trailer + HeaderSize + length
         /\ After(x) - x.b = offset + HeaderSize + length
<1>1. /\ trailer \in Nat /\ length \in Nat /\ writing.f \in Nat
      /\ offset + HeaderSize + length \in 0 .. BlockSize
      /\ type \in Types /\ (writing.f + 1 = 1 <=> type \in {"full", "first"})
      /\ Len(starts) \in Nat /\ Len(starts) > 0
  BY EmitIs
<1>2. harm # "cut" /\ blockOffset \in 0 .. BlockSize /\ Len(logFile) \in Nat
  BY DEF LogInv, FileOK
<1>3. /\ Laid(g) /\ Len(logFile) = Total(g)
      /\ blockOffset = IF g = << >> THEN 0 ELSE After(g[Len(g)]) - g[Len(g)].b
      /\ writing.f > 0 => /\ g # << >> /\ g[Len(g)].r = Len(starts)
                          /\ g[Len(g)].f = writing.f /\ ~Complete(g[Len(g)])
      /\ writing.f = 0 /\ g # << >> => Complete(g[Len(g)])
  BY <1>2 DEF Layout, Holds, Goes
<1>4. /\ HeaderSize \in Nat /\ HeaderSize > 0 /\ BlockSize \in Nat /\ HeaderSize < BlockSize
  BY LogConstants
<1>5. IF BlockSize - blockOffset < HeaderSize
      THEN trailer = BlockSize - blockOffset /\ offset = 0
      ELSE trailer = 0 /\ offset = blockOffset
  BY DEF trailer, offset, leftover
<1>6. PICK l \in Nat, t \in Nat, o \in Nat, d \in Nat :
          l = Len(logFile) /\ t = trailer /\ o = offset /\ d = length
  <2>1. offset \in Nat
    BY <1>2, <1>5, <1>4
  <2> QED BY <1>1, <1>2, <2>1
<1>7. x.p = l + t /\ x.b = l + t - o /\ x.n = d /\ x.r = Len(starts) /\ x.f = writing.f + 1
      /\ x.t = type /\ After(x) = l + t + HeaderSize + d
  BY <1>6, <1>1, <1>4 DEF After
<1>8. (Begins(x) <=> x.f = 1) /\ x.f \in Nat \ {0} /\ (x.f = 1 <=> writing.f = 0)
  BY <1>1, <1>7 DEF Begins
<1>9. CASE g = << >>
  <2>1. l = 0 /\ t = 0 /\ o = 0 /\ writing.f = 0
    BY <1>9, <1>1, <1>3, <1>4, <1>5, <1>6 DEF Total
  <2>2. x.p = 0 /\ x.b = 0 /\ Begins(x)
    BY <2>1, <1>7, <1>8
  <2>3. x \in FragmentType
    BY <2>1, <1>1, <1>6, <1>8 DEF FragmentType
  <2>4. After(x) <= x.b + BlockSize /\ After(x) - x.b = offset + HeaderSize + length
    BY <2>1, <2>2, <1>1, <1>4, <1>6, <1>7
  <2> QED BY <2>2, <2>3, <2>4, <1>3, <1>6, <1>7, <1>8, <1>9
<1>10. CASE g # << >>
  <2>1. PICK y \in FragmentType : y = g[Len(g)] /\ Len(g) \in DOMAIN g
    BY <1>3, <1>10, LaidIs
  <2>2. PICK a \in Nat, b \in Nat :
            a = After(y) /\ b = y.b /\ b <= a /\ a <= b + BlockSize /\ l = a
            /\ blockOffset = a - b
    <3>1. y.b <= y.p /\ After(y) <= y.b + BlockSize
      BY <2>1, <1>3 DEF Laid
    <3>2. y.b \in Nat /\ y.p \in Nat /\ After(y) \in Nat /\ y.p < After(y)
      BY <2>1, FragmentTypes
    <3>3. l = After(y) /\ blockOffset = After(y) - y.b
      BY <2>1, <1>3, <1>6, <1>10 DEF Total
    <3> QED BY <3>1, <3>2, <3>3
  <2>3. IF a + HeaderSize <= b + BlockSize
        THEN x.p = a /\ x.b = b ELSE x.p = b + BlockSize /\ x.b = x.p
    <3>1. x.p = a + t /\ x.b = a + t - o
      BY <2>2, <1>7
    <3>2. BlockSize - blockOffset < HeaderSize <=> ~(a + HeaderSize <= b + BlockSize)
      <4>1. PICK f \in Int : f = a - b /\ f = blockOffset
        BY <2>2
      <4>2. BlockSize - f < HeaderSize <=> ~(a + HeaderSize <= b + BlockSize)
        BY <4>1, <1>4
      <4> QED BY <4>1, <4>2
    <3>3. CASE a + HeaderSize <= b + BlockSize
      <4>1. t = 0 /\ o = a - b
        BY <3>2, <3>3, <2>2, <1>5, <1>6
      <4> QED BY <4>1, <3>1, <3>3
    <3>4. CASE ~(a + HeaderSize <= b + BlockSize)
      <4>1. t = BlockSize - (a - b) /\ o = 0
        BY <3>2, <3>4, <2>2, <1>5, <1>6
      <4> QED BY <4>1, <3>1, <3>4, <1>4
    <3> QED BY <3>3, <3>4
  <2>4. (Complete(y) <=> Begins(x)) /\ (~Complete(y) => x.r = y.r /\ x.f = y.f + 1)
    BY <2>1, <1>1, <1>3, <1>7, <1>8, <1>10
  <2>5. Follows(y, x)
    BY <2>2, <2>3, <2>4 DEF Follows
  <2>6. x.p \in Nat /\ x.b \in Nat
    BY <2>2, <2>3, <1>4
  <2>7. x \in FragmentType
    BY <2>6, <1>1, <1>6, <1>8 DEF FragmentType
  <2>8. After(x) <= x.b + BlockSize /\ After(x) - x.b = offset + HeaderSize + length
    BY <2>6, <1>1, <1>4, <1>6, <1>7
  <2> QED BY <2>1, <2>5, <2>7, <2>8, <1>3, <1>6, <1>7, <1>8, <1>10
<1> QED BY <1>9, <1>10

LEMMA EmitKeepsLoss ==
  ASSUME LogInv, LossInv, EmitPhysicalRecord PROVE LossInv'
<1> DEFINE s1 == logFile \o Cells
           st1 == [starts EXCEPT ![Len(starts)] =
                       [frags |-> IF end THEN writing.f + 1 ELSE 0,
                        at |-> IF begin THEN Len(logFile) + trailer + 1 ELSE @.at,
                        last |-> Len(s1)]]
<1>1. /\ writing.on /\ logFile' = s1 /\ starts' = st1 /\ blockOffset' = offset + HeaderSize + length
      /\ writing' = IF end THEN NotWriting
                    ELSE [on |-> TRUE, left |-> writing.left - length, f |-> writing.f + 1]
      /\ UNCHANGED <<harm, hurt, reader>>
  BY DEF EmitPhysicalRecord
<1>2. /\ ~reader.on /\ harm # "cut" /\ starts \in Seq(RecordType)
      /\ logFile \in Seq(CellType) /\ hurt \in Nat
  BY <1>1 DEF LogInv, NoReader, FileOK, LossInv
<1>3. /\ trailer \in Nat /\ length \in Nat /\ writing.f \in Nat
      /\ type \in Types /\ (end <=> type \in {"full", "last"})
      /\ (writing.f + 1 = 1 <=> type \in {"full", "first"})
      /\ (begin <=> writing.f = 0) /\ HeaderSize \in Nat
  BY <1>1, EmitIs, LogConstants DEF begin
<1>4. PICK n \in Nat : n = Len(starts) /\ n > 0 /\ DOMAIN starts = 1 .. n
  BY <1>1, <1>2, EmitIs
<1>5. PICK l \in Nat : l = Len(logFile)
  BY <1>2
<1>6. /\ Cells \in Seq(CellType) /\ Len(Cells) = trailer + HeaderSize + length
      /\ \A k \in 1 .. trailer + HeaderSize + length :
            Cells[k] = IF k <= trailer THEN Zero ELSE Nth(Cell(1), k - trailer)
      /\ Cell(1).r = n /\ Cell(1).f = writing.f + 1 /\ Cell(1).t = type /\ Cell(1).n = length
  BY <1>1, <1>4, CellsAre
<1>7. /\ Len(s1) = l + (trailer + HeaderSize + length)
      /\ \A q \in 1 .. l : s1[q] = logFile[q]
      /\ \A q \in 1 .. trailer + HeaderSize + length : s1[l + q] = Cells[q]
  <2>1. Len(s1) = Len(logFile) + Len(Cells)
    BY <1>2, <1>6, JoinIs
  <2>2. \A q \in 1 .. Len(logFile) : s1[q] = logFile[q]
    BY <1>2, <1>6, JoinHead
  <2>3. \A q \in 1 .. Len(Cells) : s1[Len(logFile) + q] = Cells[q]
    BY <1>2, <1>6, JoinTail
  <2> HIDE DEF s1
  <2> QED BY <2>1, <2>2, <2>3, <1>5, <1>6
<1>8. /\ DOMAIN st1 = 1 .. n /\ Len(st1) = n
      /\ st1[n].frags = IF end THEN writing.f + 1 ELSE 0
      /\ st1[n].at = IF begin THEN l + trailer + 1 ELSE starts[n].at
      /\ st1[n].last = Len(s1)
      /\ \A r \in 1 .. n : r # n => st1[r] = starts[r]
  <2>1. n \in DOMAIN starts
    BY <1>4
  <2> HIDE DEF s1
  <2> QED BY <2>1, <1>2, <1>4, <1>5
<1> HIDE DEF s1, st1
<1>9. ASSUME NEW g, Layout(g) PROVE \E h : Layout(h)'
  <2>1. PICK x : x = [p |-> Len(logFile) + trailer, b |-> Len(logFile) + trailer - offset,
                     n |-> length, r |-> Len(starts), f |-> writing.f + 1, t |-> type]
    OBVIOUS
  <2>2. /\ x \in FragmentType
        /\ g = << >> => x.p = 0 /\ x.b = 0 /\ Begins(x)
        /\ g # << >> => Follows(g[Len(g)], x)
        /\ After(x) <= x.b + BlockSize /\ (Begins(x) <=> x.f = 1)
        /\ l = Total(g) /\ After(x) = l + trailer + HeaderSize + length
        /\ After(x) - x.b = offset + HeaderSize + length
    BY <2>1, <1>1, <1>5, <1>9, NextIs
  <2>3. /\ x.p = l + trailer /\ x.n = length /\ x.r = n /\ x.f = writing.f + 1 /\ x.t = type
        /\ x.p \in Nat
    BY <2>1, <1>3, <1>4, <1>5
  <2>4. /\ Laid(g) /\ Recorded(g, starts) /\ Holds(g, logFile, harm, hurt)
        /\ Goes(g, starts, writing, blockOffset, harm)
    BY <1>9 DEF Layout
  <2>5. PICK h : h = Append(g, x)
    OBVIOUS
  <2>6. Laid(h) /\ Total(h) = After(x)
    BY <2>2, <2>4, <2>5, LaidGrows
  <2>7. PICK m \in Nat : /\ m = Len(g) /\ DOMAIN g = 1 .. m /\ (g = << >> <=> m = 0)
                         /\ Len(h) = m + 1 /\ h # << >> /\ h[m + 1] = x
                         /\ DOMAIN h = 1 .. m + 1 /\ \A k \in 1 .. m : h[k] = g[k]
    <3>1. g \in Seq(FragmentType)
      BY <2>4 DEF Laid
    <3>2. /\ Len(h) = Len(g) + 1 /\ h # << >> /\ h[Len(g) + 1] = x
          /\ DOMAIN h = 1 .. Len(g) + 1 /\ \A k \in 1 .. Len(g) : h[k] = g[k]
      BY <3>1, <2>2, <2>5, AppendIs
    <3> QED BY <3>2, <2>4, LaidIs
  <2>8. \A k \in 1 .. m : /\ g[k].p \in Nat /\ After(g[k]) \in Nat /\ After(g[k]) <= l
                          /\ g[k].p < After(g[k]) /\ g[k].p < l
    <3>1. ASSUME NEW k \in 1 .. m PROVE /\ g[k].p \in Nat /\ After(g[k]) \in Nat
                                        /\ After(g[k]) <= l /\ g[k].p < After(g[k])
      <4>1. g[k] \in FragmentType /\ After(g[k]) <= l
        BY <2>2, <2>4, <2>7, LaidIs
      <4> QED BY <4>1, FragmentTypes
    <3> QED BY <3>1
  <2>9. After(x) = Len(s1) /\ After(x) \in Nat /\ l <= x.p /\ x.p <= After(x)
    BY <2>2, <2>3, <1>3, <1>7
  <2>10. Complete(x) <=> end
    BY <2>3, <1>3 DEF Complete
  <2>11. Begins(x) <=> begin
    BY <2>3, <1>3 DEF Begins
  <2>12. ASSUME NEW k \in 1 .. m, g[k].r = n
         PROVE  writing.f > 0 /\ ~begin /\ ~Complete(g[k]) /\ m > 0 /\ g[m].r = n
    <3>1. writing.f > 0 /\ ~Complete(g[k])
      BY <2>4, <2>7, <2>12, <1>1, <1>4 DEF Goes
    <3> QED BY <3>1, <2>4, <2>7, <1>1, <1>3, <1>4 DEF Goes
  <2>13. Recorded(h, st1)
    <3>1. ASSUME NEW k \in DOMAIN h
          PROVE  /\ h[k].r \in DOMAIN st1 /\ st1[h[k].r].at <= h[k].p + 1
                 /\ Begins(h[k]) => st1[h[k].r].at = h[k].p + 1
                 /\ Complete(h[k]) => st1[h[k].r].frags = h[k].f /\ st1[h[k].r].last = After(h[k])
                 /\ After(h[k]) <= st1[h[k].r].last
      <4>1. CASE k = m + 1
        <5>1. h[k] = x /\ x.r = n /\ n \in DOMAIN st1
          BY <4>1, <2>3, <2>7, <1>4, <1>8
        <5>2. CASE begin
          <6>1. st1[n].at = x.p + 1
            BY <5>2, <2>3, <1>8
          <6> QED BY <5>1, <6>1, <2>3, <2>9, <2>10, <1>8
        <5>3. CASE ~begin
          <6>1. m \in 1 .. m /\ g[m].r = n
            BY <5>3, <2>4, <2>7, <1>1, <1>3, <1>4 DEF Goes
          <6>2. starts[n].at <= g[m].p + 1 /\ g[m].p < l
            BY <6>1, <2>4, <2>7, <2>8 DEF Recorded
          <6>3. starts[n].at \in Nat
            <7>1. starts[n] \in RecordType
              BY <1>2, <1>4
            <7> QED BY <7>1 DEF RecordType
          <6>4. st1[n].at <= x.p + 1
            BY <6>1, <6>2, <6>3, <5>3, <1>8, <2>8, <2>9, <2>3
          <6> QED BY <5>1, <5>3, <6>4, <2>3, <2>9, <2>10, <2>11, <1>8
        <5> QED BY <5>2, <5>3
      <4>2. CASE k \in 1 .. m
        <5>1. /\ h[k] = g[k] /\ g[k].r \in 1 .. n /\ starts[g[k].r].at <= g[k].p + 1
              /\ Begins(g[k]) => starts[g[k].r].at = g[k].p + 1
              /\ Complete(g[k]) => starts[g[k].r].frags = g[k].f /\ starts[g[k].r].last = After(g[k])
              /\ After(g[k]) <= starts[g[k].r].last
          BY <4>2, <2>4, <2>7, <1>4 DEF Recorded
        <5>2. CASE g[k].r # n
          BY <5>1, <5>2, <1>8
        <5>3. CASE g[k].r = n
          <6>1. ~begin /\ ~Complete(g[k]) /\ st1[n].at = starts[n].at
            BY <4>2, <5>3, <2>12, <1>8
          <6>2. After(g[k]) <= st1[n].last
            BY <4>2, <2>8, <2>9, <1>8, <1>7, <1>3
          <6> QED BY <5>1, <5>3, <6>1, <6>2, <1>8
        <5> QED BY <5>2, <5>3
      <4> QED BY <4>1, <4>2, <2>7
    <3>2. ASSUME NEW r \in DOMAIN st1, st1[r].frags > 0
          PROVE  \E k \in DOMAIN h : h[k].r = r /\ Complete(h[k])
      <4>1. CASE r = n
        <5>1. end
          BY <4>1, <3>2, <1>8
        <5> QED BY <4>1, <5>1, <2>3, <2>7, <2>10
      <4>2. CASE r # n
        <5>1. r \in DOMAIN starts /\ starts[r].frags > 0
          BY <4>2, <3>2, <1>4, <1>8
        <5>2. PICK k \in DOMAIN g : g[k].r = r /\ Complete(g[k])
          BY <5>1, <2>4 DEF Recorded
        <5> QED BY <5>2, <2>7
      <4> QED BY <4>1, <4>2
    <3> QED BY <3>1, <3>2 DEF Recorded
  <2>14. Holds(h, s1, harm, hurt)
    <3>1. Len(s1) = Total(h) /\ (harm = "damaged" => hurt \in 1 .. l /\ hurt \in 1 .. Len(s1))
      <4>1. harm = "damaged" => hurt \in 1 .. l
        BY <2>4, <1>5 DEF Holds
      <4> QED BY <4>1, <2>6, <2>9, <2>3
    <3>2. ASSUME NEW k \in DOMAIN h, NEW i \in 1 .. HeaderSize + h[k].n
          PROVE  s1[h[k].p + i] = IF harm = "damaged" /\ h[k].p + i = hurt THEN Damaged
                                  ELSE CellOf(h[k], i)
      <4>1. CASE k \in 1 .. m
        <5>1. h[k] = g[k] /\ g[k] \in FragmentType /\ i \in 1 .. HeaderSize + g[k].n
          BY <4>1, <2>4, <2>7, <3>2, LaidIs
        <5>2. g[k].p + i \in 1 .. l
          <6>1. After(g[k]) = g[k].p + HeaderSize + g[k].n /\ g[k].n \in Nat
            BY <5>1, FragmentTypes DEF After
          <6> QED BY <4>1, <5>1, <6>1, <2>8, <1>3
        <5>3. logFile[g[k].p + i] = IF harm = "damaged" /\ g[k].p + i = hurt THEN Damaged
                                    ELSE CellOf(g[k], i)
          BY <4>1, <5>1, <5>2, <2>4, <2>7, <1>5 DEF Holds
        <5> QED BY <5>1, <5>2, <5>3, <1>7
      <4>2. CASE k = m + 1
        <5>1. h[k] = x /\ i \in Nat /\ i >= 1 /\ i <= HeaderSize + length
          BY <4>2, <2>3, <2>7, <3>2, <1>3
        <5>2. /\ trailer + i \in 1 .. trailer + HeaderSize + length
              /\ ~(trailer + i <= trailer) /\ trailer + i - trailer = i
              /\ x.p + i = l + (trailer + i) /\ x.p + i > l
          BY <5>1, <2>3, <1>3
        <5>3. s1[x.p + i] = Nth(Cell(1), i)
          <6>1. PICK q \in 1 .. trailer + HeaderSize + length : q = trailer + i
            BY <5>2
          <6>2. s1[l + q] = Cells[q] /\ Cells[q] = Nth(Cell(1), q - trailer)
            BY <5>2, <6>1, <1>6, <1>7
          <6>3. l + q = x.p + i /\ q - trailer = i
            BY <5>1, <5>2, <6>1, <1>3
          <6> QED BY <6>2, <6>3
        <5>4. Nth(Cell(1), i) = CellOf(x, i)
          BY <2>3, <1>6 DEF Nth, CellOf
        <5>5. harm = "damaged" => x.p + i # hurt
          BY <5>2, <3>1
        <5> QED BY <5>1, <5>3, <5>4, <5>5
      <4> QED BY <4>1, <4>2, <2>7
    <3> QED BY <3>1, <3>2, <1>2 DEF Holds
  <2>15. Goes(h, st1, writing', blockOffset', harm)
    <3>1. blockOffset' = After(h[Len(h)]) - h[Len(h)].b
      BY <2>2, <2>7, <1>1
    <3>2. CASE end
      <4>1. ~writing'.on /\ Complete(h[Len(h)])
        BY <3>2, <2>7, <2>10, <1>1 DEF NotWriting
      <4> QED BY <3>1, <4>1, <2>7 DEF Goes
    <3>3. CASE ~end
      <4>1. writing'.on /\ writing'.f = writing.f + 1 /\ writing'.f > 0 /\ ~(writing'.f = 0)
        BY <3>3, <1>1, <1>3
      <4>2. ~Complete(h[Len(h)]) /\ h[Len(h)].r = n /\ h[Len(h)].f = writing'.f
        BY <3>3, <4>1, <2>3, <2>7, <2>10
      <4>3. ASSUME NEW k \in DOMAIN h, h[k].r = n PROVE ~Complete(h[k])
        <5>1. CASE k = m + 1
          BY <5>1, <4>2, <2>7
        <5>2. CASE k \in 1 .. m
          BY <5>2, <4>3, <2>7, <2>12
        <5> QED BY <5>1, <5>2, <2>7
      <4> QED BY <3>1, <4>1, <4>2, <4>3, <2>7, <1>8 DEF Goes
    <3> QED BY <3>2, <3>3
  <2>16. Layout(h)'
    BY <2>6, <2>13, <2>14, <2>15, <1>1 DEF Layout
  <2> QED BY <2>16
<1>10. harm' # "torn" => \E h : Layout(h)'
  BY <1>1, <1>9 DEF LossInv
<1> QED BY <1>1, <1>2, <1>10 DEF LossInv

LEMMA EmitFailsKeepsLoss == ASSUME LogInv, LossInv, EmitFails \/ Reopen PROVE LossInv'
BY DEF LossInv, EmitFails, Reopen

LEMMA CutKeepsLoss ==
  ASSUME LogInv, LossInv, NEW n \in 0 .. Len(logFile), CutFile(n) PROVE LossInv'
<1>1. /\ ~reader.on /\ ~writing.on /\ harm = "none" /\ n < Len(logFile)
      /\ logFile' = SubSeq(logFile, 1, n) /\ harm' = "cut" /\ hurt' = n
      /\ UNCHANGED <<blockOffset, starts, writing, reader>>
      /\ logFile \in Seq(CellType) /\ n \in Nat
  BY DEF CutFile, LogInv, FileOK
<1>2. PICK l \in Nat : l = Len(logFile) /\ n < l
  BY <1>1
<1>3. PICK s : s = logFile' /\ Len(s) = n /\ \A x \in 1 .. n : s[x] = logFile[x]
  BY <1>1, <1>2, Beginning
<1>4. PICK g : Layout(g)
  BY <1>1 DEF LossInv
<1>5. /\ Laid(g) /\ Recorded(g, starts) /\ Holds(g, logFile, "none", hurt)
      /\ Goes(g, starts, writing, blockOffset, harm)
  BY <1>1, <1>4 DEF Layout
<1>6. Holds(g, s, "cut", n)
  <2>1. l = Total(g) /\ Total(g) \in Nat
    BY <1>2, <1>5, LaidIs DEF Holds
  <2>2. ASSUME NEW k \in DOMAIN g, NEW i \in 1 .. HeaderSize + g[k].n, g[k].p + i <= n
        PROVE  s[g[k].p + i] = CellOf(g[k], i)
    <3>1. g[k].p \in Nat
      BY <1>5, LaidIs
    <3>2. g[k].p + i \in 1 .. n /\ g[k].p + i <= l
      BY <3>1, <2>2, <1>2
    <3>3. logFile[g[k].p + i] = CellOf(g[k], i)
      BY <3>2, <1>2, <1>5 DEF Holds
    <3> QED BY <3>2, <3>3, <1>3
  <2> QED BY <2>1, <2>2, <1>2, <1>3 DEF Holds
<1>7. Goes(g, starts, writing, blockOffset, "cut")
  BY <1>1, <1>5 DEF Goes
<1>8. Layout(g)'
  BY <1>1, <1>3, <1>5, <1>6, <1>7 DEF Layout
<1> QED BY <1>1, <1>8 DEF LossInv

LEMMA DamageKeepsLoss ==
  ASSUME LogInv, LossInv, NEW n \in 1 .. Len(logFile), DamageCell(n) PROVE LossInv'
<1>1. /\ ~reader.on /\ ~writing.on /\ harm = "none"
      /\ logFile' = [logFile EXCEPT ![n] = Damaged] /\ harm' = "damaged" /\ hurt' = n
      /\ UNCHANGED <<blockOffset, starts, writing, reader>>
      /\ logFile \in Seq(CellType) /\ n \in Nat
  BY DEF DamageCell, LogInv, FileOK
<1>2. PICK l \in Nat : l = Len(logFile) /\ n \in 1 .. l
  BY <1>1
<1>3. PICK s : /\ s = logFile' /\ Len(s) = l
               /\ \A x \in 1 .. l : s[x] = IF x = n THEN Damaged ELSE logFile[x]
  <2>1. Damaged \in CellType
    BY DEF Damaged, Zero, CellType
  <2>2. /\ logFile' \in Seq(CellType) /\ Len(logFile') = l
        /\ \A x \in 1 .. l : logFile'[x] = IF x = n THEN Damaged ELSE logFile[x]
    BY <2>1, <1>1, <1>2
  <2> QED BY <2>2
<1>4. PICK g : Layout(g)
  BY <1>1 DEF LossInv
<1>5. /\ Laid(g) /\ Recorded(g, starts) /\ Holds(g, logFile, "none", hurt)
      /\ Goes(g, starts, writing, blockOffset, harm)
  BY <1>1, <1>4 DEF Layout
<1>6. Holds(g, s, "damaged", n)
  <2>1. l = Total(g)
    BY <1>2, <1>5 DEF Holds
  <2>2. ASSUME NEW k \in DOMAIN g, NEW i \in 1 .. HeaderSize + g[k].n, g[k].p + i <= l
        PROVE  s[g[k].p + i] = IF g[k].p + i = n THEN Damaged ELSE CellOf(g[k], i)
    <3>1. g[k].p \in Nat
      BY <1>5, LaidIs
    <3>2. g[k].p + i \in 1 .. l
      BY <3>1, <2>2, <1>2
    <3>3. logFile[g[k].p + i] = CellOf(g[k], i)
      BY <3>2, <2>2, <1>2, <1>5 DEF Holds
    <3> QED BY <3>2, <3>3, <1>3
  <2> QED BY <2>1, <2>2, <1>2, <1>3 DEF Holds
<1>7. Goes(g, starts, writing, blockOffset, "damaged")
  BY <1>1, <1>5 DEF Goes
<1>8. Layout(g)'
  BY <1>1, <1>3, <1>5, <1>6, <1>7 DEF Layout
<1> QED BY <1>1, <1>8 DEF LossInv

-----------------------------------------------------------------------------
(* Where the reader stands *)

\* Fragments are in the order of their places.
LEMMA Later ==
  ASSUME NEW g, Laid(g), NEW k \in DOMAIN g, NEW l \in DOMAIN g, k <= l
  PROVE  After(g[k]) <= After(g[l]) /\ g[k].p <= g[l].p
<1>1. /\ g[k].p \in Nat /\ g[l].p \in Nat /\ After(g[k]) \in Nat /\ After(g[l]) \in Nat
      /\ g[k].p < After(g[k]) /\ g[l].p < After(g[l])
  <2>1. g[k] \in FragmentType /\ g[l] \in FragmentType
    BY LaidIs
  <2> QED BY <2>1, FragmentTypes
<1>2. CASE k = l
  BY <1>1, <1>2
<1>3. CASE k < l
  <2>1. After(g[k]) <= g[l].p
    BY <1>3 DEF Laid
  <2> QED BY <2>1, <1>1
<1>4. k \in Nat /\ l \in Nat
  BY LaidIs
<1> QED BY <1>2, <1>3, <1>4

LEMMA LossReader ==
  ASSUME LogInv, reader.on
  PROVE  /\ reader \in ReaderType /\ reader.pos \in Nat /\ reader.end \in Nat
         /\ reader.pos <= reader.end /\ reader.end <= Len(logFile) /\ Len(logFile) \in Nat
         /\ (reader.resync => ~reader.open) /\ ~writing.on /\ logFile \in Seq(CellType)
         /\ starts \in Seq(RecordType) /\ reader.eof \in BOOLEAN
<1>1. ReaderOK(reader) /\ ~writing.on /\ logFile \in Seq(CellType) /\ starts \in Seq(RecordType)
  BY DEF LogInv, NoReader, FileOK
<1>2. reader \in ReaderType /\ reader.pos <= reader.end /\ reader.end <= Len(logFile)
      /\ (reader.resync => ~reader.open)
  BY <1>1 DEF ReaderOK
<1>3. reader.pos \in Nat /\ reader.end \in Nat /\ reader.eof \in BOOLEAN
  BY <1>2, ReaderIs
<1>4. Len(logFile) \in Nat
  BY <1>1
<1> QED BY <1>1, <1>2, <1>3, <1>4

\* Before a buffer that has room for a header stands a fragment.
LEMMA ReaderHere ==
  ASSUME LogInv, reader.on, NEW g, Layout(g), NEW j, Stands(reader, g, j), Left >= HeaderSize
  PROVE  /\ j + 1 \in DOMAIN g /\ reader.pos = g[j + 1].p
         /\ IF reader.eof THEN reader.end < g[j + 1].b + BlockSize
            ELSE reader.end = g[j + 1].b + BlockSize
<1>1. PICK p \in Nat, e \in Nat, l \in Nat :
          p = reader.pos /\ e = reader.end /\ l = Len(logFile) /\ p <= e /\ e <= l
  BY LossReader
<1>2. HeaderSize \in Nat /\ HeaderSize > 0 /\ BlockSize \in Nat /\ HeaderSize < BlockSize
      /\ p + HeaderSize <= e
  BY <1>1, LogConstants DEF Left
<1>3. Laid(g) /\ Holds(g, logFile, harm, hurt)
  BY DEF Layout
<1>4. PICK m \in Nat : m = Len(g) /\ DOMAIN g = 1 .. m /\ (g = << >> <=> m = 0) /\ j \in 0 .. m
  BY <1>3, LaidIs DEF Stands
<1>5. l <= Total(g) /\ Total(g) \in Nat
  <2>1. l = Total(g) \/ (l = hurt /\ hurt <= Total(g))
    BY <1>1, <1>3 DEF Holds
  <2> QED BY <2>1, <1>3, LaidIs
<1>6. j < m
  <2> SUFFICES ASSUME j = m PROVE FALSE
    BY <1>4
  <2>1. p >= Total(g)
    <3>1. CASE m = 0
      BY <3>1, <1>4 DEF Total
    <3>2. CASE m > 0
      <4>1. After(g[m]) <= p
        BY <3>2, <1>1, <1>4 DEF Stands
      <4> QED BY <4>1, <3>2, <1>4 DEF Total
    <3> QED BY <3>1, <3>2
  <2> QED BY <2>1, <1>1, <1>2, <1>5
<1>7. j + 1 \in 1 .. m
  BY <1>4, <1>6
<1>8. PICK x \in FragmentType : x = g[j + 1]
  BY <1>3, <1>4, <1>7, LaidIs
<1>9. PICK q \in Nat, b \in Nat :
          q = x.p /\ b = x.b /\ b <= q /\ q + HeaderSize <= b + BlockSize /\ Aligned(b)
  <2>1. x.b <= x.p /\ After(x) <= x.b + BlockSize /\ Aligned(x.b)
    BY <1>3, <1>4, <1>7, <1>8 DEF Laid
  <2>2. x.b \in Nat /\ x.p \in Nat /\ After(x) \in Nat /\ x.p + HeaderSize <= After(x)
    BY FragmentTypes
  <2> QED BY <2>1, <2>2, <1>2
<1>10. reader.eof => \E a \in Nat : Aligned(a) /\ a <= p /\ e < a + BlockSize
  BY <1>1 DEF Stands
<1>11. ~reader.eof => Aligned(e) /\ e <= p + BlockSize
  BY <1>1 DEF Stands
<1>12. p = q
  <2> SUFFICES ASSUME p # q PROVE FALSE
    OBVIOUS
  <2>1. j > 0 /\ p = After(g[j])
    BY <1>1, <1>4, <1>6, <1>8, <1>9 DEF Stands
  <2>2. j \in 1 .. m
    BY <2>1, <1>4
  <2>3. PICK y \in FragmentType : y = g[j]
    BY <2>2, <1>3, <1>4, LaidIs
  <2>4. PICK c \in Nat : c = y.b /\ Aligned(c) /\ c < p /\ p <= c + BlockSize
    <3>1. y.b <= y.p /\ After(y) <= y.b + BlockSize /\ Aligned(y.b)
      BY <2>2, <2>3, <1>3, <1>4 DEF Laid
    <3>2. y.b \in Nat /\ y.p \in Nat /\ y.p < After(y)
      BY FragmentTypes
    <3> QED BY <3>1, <3>2, <2>1, <2>3
  <2>5. Follows(y, x)
    BY <2>2, <2>3, <1>3, <1>4, <1>7, <1>8 DEF Laid
  <2>6. ~(p + HeaderSize <= c + BlockSize) /\ q = c + BlockSize /\ b = q
    <3>1. IF p + HeaderSize <= c + BlockSize THEN q = p ELSE q = c + BlockSize /\ b = q
      BY <2>1, <2>3, <2>4, <2>5, <1>9 DEF Follows
    <3> QED BY <3>1
  <2>7. p < q
    BY <2>4, <2>6, <1>2
  <2>8. CASE reader.eof
    <3>1. PICK a \in Nat : Aligned(a) /\ a <= p /\ e < a + BlockSize
      BY <2>8, <1>10
    <3>2. c < a
      BY <3>1, <2>6, <1>2
    <3>3. c + BlockSize <= a
      BY <3>1, <3>2, <2>4, Apart
    <3> QED BY <3>1, <3>3, <2>6, <2>7, <1>2
  <2>9. CASE ~reader.eof
    <3>1. Aligned(q) /\ q < e
      BY <2>6, <1>2, <1>9
    <3>2. q + BlockSize <= e
      BY <3>1, <2>9, <1>11, Apart
    <3> QED BY <3>2, <2>7, <2>9, <1>2, <1>11
  <2> QED BY <2>8, <2>9
<1>13. CASE reader.eof
  <2>1. PICK a \in Nat : Aligned(a) /\ a <= p /\ e < a + BlockSize
    BY <1>13, <1>10
  <2>2. a <= b
    <3> SUFFICES ASSUME b < a PROVE FALSE
      OBVIOUS
    <3>1. b + BlockSize <= a
      BY <2>1, <1>9, Apart
    <3> QED BY <3>1, <2>1, <1>2, <1>9, <1>12
  <2>3. e < b + BlockSize
    BY <2>1, <2>2, <1>2
  <2> QED BY <2>3, <1>1, <1>4, <1>7, <1>8, <1>9, <1>12, <1>13
<1>14. CASE ~reader.eof
  <2>1. b < e
    BY <1>2, <1>9, <1>12
  <2>2. b + BlockSize <= e
    BY <2>1, <1>9, <1>11, <1>14, Apart
  <2>3. ~(b + BlockSize < e)
    <3> SUFFICES ASSUME b + BlockSize < e PROVE FALSE
      OBVIOUS
    <3>1. Aligned(b + BlockSize) /\ b + BlockSize \in Nat
      BY <1>2, <1>9, AlignedNext
    <3>2. b + BlockSize + BlockSize <= e
      BY <3>1, <1>11, <1>14, Apart
    <3> QED BY <3>2, <1>2, <1>9, <1>11, <1>12, <1>14
  <2>4. e = b + BlockSize
    BY <2>2, <2>3, <1>2
  <2> QED BY <2>4, <1>1, <1>4, <1>7, <1>8, <1>9, <1>12, <1>14
<1> QED BY <1>13, <1>14

\* The n cells from a place on, and whether they are as they were written
CellsAt(cells, p, n) ==
    /\ DOMAIN cells = 1 .. n /\ Head(cells) = logFile[p + 1]
    /\ \A i \in 1 .. n : cells[i] = logFile[p + i]
Sound(p, n) == ~(harm = "damaged" /\ hurt \in p + 1 .. p + n)

\* The cells of a fragment are found to be so unless one of them is damaged.
LEMMA CellsHere ==
  ASSUME NEW g, Laid(g), logFile \in Seq(CellType), Holds(g, logFile, harm, hurt), hurt \in Nat,
         NEW k \in DOMAIN g, NEW x, x = g[k], NEW p \in Nat, p = x.p,
         NEW n \in Nat \ {0}, n <= HeaderSize + x.n, p + n <= Len(logFile),
         NEW cells, CellsAt(cells, p, n)
  PROVE  /\ IsFragment(cells) <=> Sound(p, n)
         /\ IsFragment(cells) => cells[1] = CellOf(x, 1)
<1>1. PICK l \in Nat : l = Len(logFile) /\ p + n <= l
  OBVIOUS
<1>3. /\ DOMAIN cells = 1 .. n /\ Head(cells) = logFile[p + 1]
      /\ \A i \in 1 .. n : cells[i] = logFile[p + i]
  BY DEF CellsAt
<1>2. x.r \in Nat /\ x.r > 0 /\ x.n \in Nat /\ HeaderSize \in Nat
  <2>1. x \in FragmentType
    BY LaidIs
  <2> QED BY <2>1, FragmentTypes, LogConstants
<1>4. \A i \in 1 .. n : cells[i] = IF harm = "damaged" /\ p + i = hurt THEN Damaged ELSE CellOf(x, i)
  <2>1. ASSUME NEW i \in 1 .. n
        PROVE  logFile[p + i] = IF harm = "damaged" /\ p + i = hurt THEN Damaged ELSE CellOf(x, i)
    <3>1. i \in 1 .. HeaderSize + x.n /\ p + i <= Len(logFile)
      BY <1>1, <1>2
    <3> QED BY <3>1 DEF Holds
  <2> QED BY <2>1, <1>3
<1>5. Damaged.r = -1 /\ 1 \in 1 .. n /\ Head(cells) = cells[1]
  <2>1. 1 \in 1 .. n
    OBVIOUS
  <2>2. cells[1] = logFile[p + 1]
    BY <2>1, <1>3
  <2> QED BY <2>1, <2>2, <1>3 DEF Damaged, Zero
<1>6. \A i : CellOf(x, i).r = x.r /\ [CellOf(x, 1) EXCEPT !.i = i] = CellOf(x, i)
  BY DEF CellOf
<1>7. CASE ~Sound(p, n)
  <2>1. PICK i \in 1 .. n : p + i = hurt
    <3>1. hurt - p \in 1 .. n /\ p + (hurt - p) = hurt
      BY <1>7 DEF Sound
    <3> QED BY <3>1
  <2>2. cells[i] = Damaged /\ i \in DOMAIN cells
    BY <2>1, <1>3, <1>4, <1>7 DEF Sound
  <2>3. ~(cells[i].r > 0)
    BY <2>2, <1>5
  <2>4. ~IsFragment(cells)
    BY <2>2, <2>3 DEF IsFragment
  <2> QED BY <2>4, <1>7
<1>8. CASE Sound(p, n)
  <2>1. \A i \in 1 .. n : cells[i] = CellOf(x, i)
    <3>1. \A i \in 1 .. n : p + i \in p + 1 .. p + n
      OBVIOUS
    <3> QED BY <3>1, <1>4, <1>8 DEF Sound
  <2>2. IsFragment(cells)
    <3>1. ASSUME NEW i \in DOMAIN cells
          PROVE  cells[i] = [Head(cells) EXCEPT !.i = i] /\ cells[i].r > 0
      <4>1. cells[i] = CellOf(x, i) /\ Head(cells) = CellOf(x, 1)
        BY <2>1, <1>3, <1>5
      <4>2. [Head(cells) EXCEPT !.i = i] = CellOf(x, i)
        BY <4>1, <1>6, Zenon
      <4> QED BY <4>1, <4>2, <1>2, <1>6
    <3> QED BY <3>1 DEF IsFragment
  <2> QED BY <2>1, <2>2, <1>5, <1>8
<1> QED BY <1>7, <1>8

\* What the reader finds of the fragment it stands before
LEMMA FragmentHere ==
  ASSUME LogInv, reader.on, NEW g, Layout(g), hurt \in Nat, NEW j, Stands(reader, g, j),
         Left >= HeaderSize, NEW x, x = g[j + 1]
  PROVE  /\ x \in FragmentType /\ After(x) = reader.pos + HeaderSize + x.n
         /\ IsFragment(Header) <=> Sound(reader.pos, HeaderSize)
         /\ IsFragment(Header) => Header[1] = CellOf(x, 1)
         /\ HeaderSize + x.n <= Left =>
                (IsFragment(Fragment(x.n)) <=> Sound(reader.pos, HeaderSize + x.n))
         /\ ~reader.eof \/ harm # "cut" => HeaderSize + x.n <= Left
<1>1. PICK p \in Nat, e \in Nat, l \in Nat :
          p = reader.pos /\ e = reader.end /\ l = Len(logFile) /\ p <= e /\ e <= l
  BY LossReader
<1>2. HeaderSize \in Nat /\ HeaderSize > 0 /\ BlockSize \in Nat /\ HeaderSize < BlockSize
      /\ p + HeaderSize <= e /\ Left = e - p
  BY <1>1, LogConstants DEF Left
<1>3. Laid(g) /\ Holds(g, logFile, harm, hurt) /\ logFile \in Seq(CellType)
  BY LossReader DEF Layout
<1>4. /\ j + 1 \in DOMAIN g /\ p = x.p
      /\ ~reader.eof => e = x.b + BlockSize
  BY <1>1, ReaderHere
<1>5. x \in FragmentType /\ x.n \in Nat /\ After(x) = p + HeaderSize + x.n
  <2>1. x \in FragmentType
    BY <1>3, <1>4, LaidIs
  <2> QED BY <2>1, <1>4, FragmentTypes DEF After
<1>9. PICK k \in DOMAIN g : k = j + 1 /\ x = g[k] /\ p = x.p
  BY <1>4
<1>6. /\ IsFragment(Header) <=> Sound(p, HeaderSize)
      /\ IsFragment(Header) => Header[1] = CellOf(x, 1)
  <2>1. /\ HeaderSize \in Nat \ {0} /\ HeaderSize <= HeaderSize + x.n
        /\ p + HeaderSize <= Len(logFile)
    <3>1. PICK w \in Nat : w = x.n
      BY <1>5
    <3>2. HeaderSize \in Nat \ {0} /\ HeaderSize <= HeaderSize + w /\ p + HeaderSize <= l
      BY <1>1, <1>2
    <3> QED BY <3>1, <3>2, <1>1
  <2>2. Header = SubSeq(logFile, p + 1, p + HeaderSize)
    BY <1>1 DEF Header
  <2>3. PICK cells : cells = Header
    OBVIOUS
  <2>4. PICK n \in Nat \ {0} : n = HeaderSize
    BY <2>1
  <2>5. CellsAt(cells, p, n)
    BY <2>1, <2>2, <2>3, <2>4, <1>3, Middle DEF CellsAt
  <2>6. n <= HeaderSize + x.n /\ p + n <= Len(logFile)
    BY <2>1, <2>4
  <2>7. (IsFragment(cells) <=> Sound(p, n)) /\ (IsFragment(cells) => cells[1] = CellOf(x, 1))
    BY <2>5, <2>6, <1>3, <1>9, CellsHere
  <2> QED BY <2>3, <2>4, <2>7
<1>7. ASSUME HeaderSize + x.n <= Left
      PROVE  IsFragment(Fragment(x.n)) <=> Sound(p, HeaderSize + x.n)
  <2>1. PICK n \in Nat \ {0} : n = HeaderSize + x.n
    BY <1>2, <1>5
  <2>2. p + n <= Len(logFile) /\ p + HeaderSize + x.n = p + n /\ After(x) = p + n
    <3>1. PICK w \in Nat : w = x.n
      BY <1>5
    <3>2. HeaderSize + w <= e - p /\ n = HeaderSize + w /\ After(x) = p + HeaderSize + w
      BY <3>1, <2>1, <1>2, <1>5, <1>7
    <3>3. p + n <= l /\ p + HeaderSize + w = p + n
      BY <3>2, <1>1, <1>2
    <3> QED BY <3>1, <3>2, <3>3, <1>1
  <2>3. Fragment(x.n) = SubSeq(logFile, p + 1, p + n)
    BY <2>2, <1>1 DEF Fragment
  <2>4. n <= HeaderSize + x.n
    BY <2>1
  <2>5. PICK cells : cells = Fragment(x.n)
    OBVIOUS
  <2>6. CellsAt(cells, p, n)
    BY <2>2, <2>3, <2>5, <1>3, Middle DEF CellsAt
  <2>7. IsFragment(cells) <=> Sound(p, n)
    BY <2>2, <2>4, <2>6, <1>3, <1>9, CellsHere
  <2> QED BY <2>1, <2>5, <2>7
<1>8. ASSUME ~reader.eof \/ harm # "cut" PROVE HeaderSize + x.n <= Left
  <2>1. After(x) <= e
    <3>1. CASE ~reader.eof
      BY <3>1, <1>3, <1>4 DEF Laid
    <3>2. CASE reader.eof
      <4>1. e = l /\ l = Total(g)
        BY <3>2, <1>1, <1>3, <1>8 DEF Stands, Holds
      <4> QED BY <4>1, <1>3, <1>4, LaidIs
    <3> QED BY <3>1, <3>2
  <2>2. PICK w \in Nat : w = x.n
    BY <1>5
  <2>3. p + HeaderSize + w <= e
    BY <2>1, <2>2, <1>5
  <2>4. HeaderSize + w <= e - p
    BY <2>3, <1>2
  <2> QED BY <2>2, <2>4, <1>2
<1> QED BY <1>1, <1>5, <1>6, <1>7, <1>8

-----------------------------------------------------------------------------
(* The steps of the reader *)

FileStays == UNCHANGED <<logFile, blockOffset, starts, writing, harm, hurt>>

\* What an action of the reader has to keep
LEMMA ReaderLossKeeps ==
  ASSUME LossInv, FileStays, NEW rd, reader' = rd,
         harm # "torn" => \E g : Layout(g) /\ ReaderLoss(rd, g)
  PROVE  LossInv'
<1>1. hurt' = hurt /\ hurt' \in Nat /\ harm' = harm
  BY DEF LossInv, FileStays
<1>2. ASSUME harm # "torn" PROVE (\E g : Layout(g) /\ (reader.on => ReaderLoss(reader, g)))'
  <2>1. PICK g : Layout(g) /\ ReaderLoss(rd, g)
    BY <1>2
  <2>2. Layout(g)'
    BY <2>1 DEF Layout, FileStays
  <2>3. ReaderLoss(reader, g)'
    <3>1. \A r : Whole(r)' = Whole(r)
      BY DEF Whole, FileStays
    <3>2. Logged' = Logged
      BY DEF Logged, FileStays
    <3>3. \A r : (Due(reader, r)' <=> Due(rd, r)) /\ (Got(reader, r)' <=> Got(rd, r))
      BY <3>1 DEF Due, Got, FileStays
    <3>4. Loses(reader)' <=> Loses(rd)
      BY <3>2, <3>3 DEF Loses, FileStays
    <3>5. \A j : Stands(reader, g, j)' <=> Stands(rd, g, j)
      BY DEF Stands, FileStays
    <3>6. \A j : Behind(reader, g, j)' <=> Behind(rd, g, j)
      BY <3>3 DEF Behind, FileStays
    <3> QED BY <2>1, <3>2, <3>3, <3>4, <3>5, <3>6 DEF ReaderLoss, FileStays
  <2> QED BY <2>2, <2>3
<1> QED BY <1>1, <1>2 DEF LossInv

LEMMA BehindMoves ==
  ASSUME NEW rd, NEW rd1, NEW g, NEW j, Behind(rd, g, j),
         rd1.from = rd.from, rd1.out = rd.out, rd1.open = rd.open, rd1.scratch = rd.scratch,
         rd1.resync = rd.resync, rd1.drops = rd.drops
  PROVE  Behind(rd1, g, j)
BY DEF Behind, Due, Got

LEMMA GotStarts ==
  ASSUME NEW rd, NEW rd1, rd1.from = rd.from, rd1.out = rd.out,
         \A r \in Logged : Got(rd, r) => starts[r].at > rd.from
  PROVE  \A r \in Logged : Got(rd1, r) => starts[r].at > rd1.from
BY DEF Got

\* Where a reader starts, what is behind is before its offset.
LEMMA OpenKeepsLoss ==
  ASSUME LogInv, LossInv, NEW from \in Offsets, Open(from) PROVE LossInv'
<1> SUFFICES ASSUME harm # "torn" PROVE \E g : Layout(g) /\ ReaderLoss(reader', g)
  BY ReaderLossKeeps DEF Open, FileStays
<1>1. PICK g : Layout(g)
  BY DEF LossInv
<1>2. Laid(g) /\ Recorded(g, starts) /\ Holds(g, logFile, harm, hurt)
  BY <1>1 DEF Layout
<1>3. PICK m \in Nat : m = Len(g) /\ DOMAIN g = 1 .. m
  BY <1>2, LaidIs
<1>4. PICK fr \in Nat : fr = from
  BY LogConstants
<1>5. PICK b \in Nat : b = InitialBlock(from) /\ Aligned(b) /\ b < fr + HeaderSize
  BY <1>4, InitialBlockAligned
<1>6. /\ logFile \in Seq(CellType) /\ Len(logFile) \in Nat /\ b <= Len(logFile)
      /\ starts \in Seq(RecordType)
      /\ hurt \in Nat /\ HeaderSize \in Nat /\ BlockSize \in Nat /\ HeaderSize < BlockSize
  <2>1. logFile \in Seq(CellType) /\ b <= Len(logFile) /\ starts \in Seq(RecordType)
    BY <1>5 DEF LogInv, FileOK, Open
  <2> QED BY <2>1, LogConstants DEF LossInv
<1>7. b <= Total(g) /\ Total(g) \in Nat
  <2>1. Len(logFile) = Total(g) \/ (Len(logFile) = hurt /\ hurt <= Total(g))
    BY <1>2 DEF Holds
  <2>2. Total(g) \in Nat
    BY <1>2, LaidIs
  <2> QED BY <2>1, <2>2, <1>6
<1>8. PICK j \in 0 .. m :
          /\ j > 0 => After(g[j]) <= b
          /\ j < m => g[j + 1].p = b
  <2>1. b \in 0 .. Total(g)
    BY <1>7
  <2> QED BY <2>1, <1>2, <1>3, <1>5, FragmentAt
<1>9. PICK rd : /\ rd = reader'
                /\ rd.from = fr /\ rd.pos = b /\ rd.end = b /\ ~rd.eof /\ (fr = 0 => ~rd.resync)
                /\ ~rd.open /\ rd.scratch = << >> /\ rd.out = << >> /\ rd.drops = 0 /\ ~rd.done
  <2>2. PICK z : z = (fr > 0)
    OBVIOUS
  <2>3. ASSUME fr = 0 PROVE ~z
    <3> SUFFICES ASSUME z PROVE FALSE
      OBVIOUS
    <3>1. fr > 0
      BY <2>2, Zenon
    <3> QED BY <2>3, <3>1
  <2>1. reader' = [on |-> TRUE, from |-> fr, pos |-> b, end |-> b, eof |-> FALSE,
                  resync |-> z, open |-> FALSE, scratch |-> <<>>,
                  out |-> <<>>, drops |-> 0, done |-> FALSE]
    BY <2>2, <1>4, <1>5 DEF Open
  <2> QED BY <2>1, <2>3
<1>10. ASSUME NEW k \in 1 .. j PROVE ~(starts[g[k].r].at > fr)
  <2>1. k \in DOMAIN g /\ j \in DOMAIN g /\ k <= j
    BY <1>3
  <2>2. After(g[k]) <= After(g[j]) /\ After(g[j]) <= b
    BY <2>1, <1>2, <1>8, Later
  <2>3. /\ g[k].p \in Nat /\ After(g[k]) \in Nat /\ After(g[j]) \in Nat
        /\ g[k].p + HeaderSize <= After(g[k])
    BY <2>1, <1>2, LaidIs
  <2>4. g[k].r \in DOMAIN starts /\ starts[g[k].r].at <= g[k].p + 1
    BY <2>1, <1>2 DEF Recorded
  <2>8. starts[g[k].r] \in RecordType
    BY <2>4, <1>6
  <2>5. PICK a \in Nat : a = starts[g[k].r].at
    BY <2>8 DEF RecordType
  <2>6. g[k].p + HeaderSize < fr + HeaderSize
    BY <2>2, <2>3, <1>5, <1>6
  <2>7. g[k].p < fr
    BY <2>3, <2>6, <1>6
  <2> QED BY <2>3, <2>4, <2>5, <2>7
<1>11. fr = 0 => j = 0
  <2> SUFFICES ASSUME fr = 0, j # 0 PROVE FALSE
    OBVIOUS
  <2>1. j \in DOMAIN g /\ j > 0
    BY <1>3
  <2>2. g[j].p \in Nat /\ After(g[j]) \in Nat /\ g[j].p + HeaderSize <= After(g[j])
    BY <2>1, <1>2, LaidIs
  <2> QED BY <2>1, <2>2, <1>5, <1>6, <1>8
<1>12. Stands(rd, g, j)
  BY <1>3, <1>5, <1>6, <1>8, <1>9 DEF Stands
<1>13. Behind(rd, g, j)
  <2>1. \A k \in 1 .. j : ~Due(rd, g[k].r)
    BY <1>9, <1>10 DEF Due
  <2>2. j > 0 => ~Due(rd, g[j].r)
    BY <2>1
  <2>3. harm \in {"none", "cut"} /\ rd.from = 0 => ~rd.resync /\ rd.drops = 0 /\ j = 0
    BY <1>9, <1>11
  <2> QED BY <2>1, <2>2, <2>3, <1>9 DEF Behind
<1>14. \A r \in Logged : ~Got(rd, r)
  BY <1>9 DEF Got
<1> QED BY <1>1, <1>3, <1>9, <1>12, <1>13, <1>14 DEF ReaderLoss

\* A fragment is in its block.
LEMMA PlaceIs ==
  ASSUME NEW g, Laid(g), NEW k \in DOMAIN g
  PROVE  /\ g[k].p \in Nat /\ g[k].b \in Nat /\ After(g[k]) \in Nat /\ Aligned(g[k].b)
         /\ g[k].b <= g[k].p /\ g[k].p + HeaderSize <= After(g[k])
         /\ After(g[k]) <= g[k].b + BlockSize
BY LaidIs DEF Laid

\* The reader goes on with the block after the one it has read.
LEMMA RefillKeepsLoss == ASSUME LogInv, LossInv, Refill PROVE LossInv'
<1> SUFFICES ASSUME harm # "torn" PROVE \E g : Layout(g) /\ ReaderLoss(reader', g)
  BY ReaderLossKeeps DEF Refill, FileStays
<1>1. reader.on /\ ~reader.done /\ Left < HeaderSize /\ ~reader.eof
  BY DEF Refill
<1>2. PICK g : Layout(g) /\ ReaderLoss(reader, g)
  BY <1>1 DEF LossInv
<1>3. PICK p \in Nat, e \in Nat, l \in Nat :
          p = reader.pos /\ e = reader.end /\ l = Len(logFile) /\ p <= e /\ e <= l
  BY <1>1, LossReader
<1>4. /\ HeaderSize \in Nat /\ HeaderSize > 0 /\ BlockSize \in Nat /\ HeaderSize < BlockSize
      /\ e < p + HeaderSize
  BY <1>1, <1>3, LogConstants DEF Left
<1>5. Laid(g)
  BY <1>2 DEF Layout
<1>6. PICK m \in Nat : m = Len(g) /\ DOMAIN g = 1 .. m
  BY <1>5, LaidIs
<1>7. PICK j \in 0 .. m : Stands(reader, g, j) /\ Behind(reader, g, j)
  BY <1>1, <1>2, <1>6 DEF ReaderLoss
<1>8. /\ j > 0 => After(g[j]) <= p
      /\ j < m => p = g[j + 1].p \/ (j > 0 /\ p = After(g[j]))
      /\ Aligned(e)
  BY <1>1, <1>3, <1>6, <1>7 DEF Stands
<1>9. PICK e1 \in Nat : e1 = IF l - e < BlockSize THEN l ELSE e + BlockSize
  BY <1>3, <1>4
<1>10. PICK z : z = (e1 - e < BlockSize)
  OBVIOUS
<1>11. IF z THEN e1 = l /\ e1 < e + BlockSize ELSE e1 = e + BlockSize
  <2>1. CASE l - e < BlockSize
    <3>1. z
      <4>1. e1 - e < BlockSize
        BY <2>1, <1>3, <1>4, <1>9
      <4> QED BY <4>1, <1>10, Zenon
    <3> QED BY <2>1, <3>1, <1>3, <1>4, <1>9
  <2>2. CASE ~(l - e < BlockSize)
    <3>1. ~z
      <4>1. ~(e1 - e < BlockSize)
        BY <2>2, <1>3, <1>4, <1>9
      <4> QED BY <4>1, <1>10, Zenon
    <3> QED BY <2>2, <3>1, <1>3, <1>4, <1>9
  <2> QED BY <2>1, <2>2
<1>12. PICK rd : rd = reader' /\ rd = [reader EXCEPT !.pos = e, !.end = e1, !.eof = z]
  BY <1>3, <1>9, <1>10 DEF Refill
<1>13. /\ rd.pos = e /\ rd.end = e1 /\ rd.eof = z /\ rd.from = reader.from
       /\ rd.resync = reader.resync /\ rd.open = reader.open /\ rd.scratch = reader.scratch
       /\ rd.out = reader.out /\ rd.drops = reader.drops /\ ~rd.done
  BY <1>1, <1>12, LossReader DEF ReaderType
<1>14. ASSUME j < m PROVE e = g[j + 1].p
  <2>1. j + 1 \in DOMAIN g
    BY <1>6, <1>14
  <2>2. PICK q \in Nat, b \in Nat :
            /\ q = g[j + 1].p /\ b = g[j + 1].b /\ Aligned(b) /\ b <= q
            /\ q + HeaderSize <= b + BlockSize
    BY <2>1, <1>4, <1>5, PlaceIs
  <2>3. CASE p = q
    <3>1. ~(b < e)
      <4> SUFFICES ASSUME b < e PROVE FALSE
        OBVIOUS
      <4>1. b + BlockSize <= e
        BY <2>2, <1>8, Apart
      <4> QED BY <4>1, <2>2, <2>3, <1>4
    <3> QED BY <3>1, <2>2, <2>3, <1>3
  <2>4. CASE p # q
    <3>1. j > 0 /\ p = After(g[j]) /\ j \in DOMAIN g
      BY <2>2, <2>4, <1>6, <1>8, <1>14
    <3>2. PICK c \in Nat : c = g[j].b /\ Aligned(c) /\ c < p /\ p <= c + BlockSize
      BY <3>1, <1>4, <1>5, PlaceIs
    <3>3. c + BlockSize <= e
      BY <3>2, <1>3, <1>8, Apart
    <3>4. q = c + BlockSize
      <4>1. Follows(g[j], g[j + 1])
        BY <2>1, <3>1, <1>5 DEF Laid
      <4>2. ~(p + HeaderSize <= c + BlockSize)
        BY <3>3, <1>4
      <4> QED BY <4>1, <4>2, <3>1, <3>2, <2>2 DEF Follows
    <3>5. ~(q < e)
      <4> SUFFICES ASSUME q < e PROVE FALSE
        OBVIOUS
      <4>1. Aligned(q)
        BY <3>2, <3>4, AlignedNext
      <4>2. q + BlockSize <= e
        BY <4>1, <1>8, Apart
      <4> QED BY <4>2, <3>2, <3>4, <1>4
    <3> QED BY <3>3, <3>4, <3>5, <2>2, <1>4
  <2> QED BY <2>3, <2>4
<1>15. Stands(rd, g, j)
  <2>1. j > 0 => After(g[j]) <= e
    <3>1. j > 0 => After(g[j]) \in Nat
      BY <1>5, <1>6, LaidIs
    <3> QED BY <3>1, <1>3, <1>8
  <2>2. IF z THEN e1 = l /\ \E a \in Nat : Aligned(a) /\ a <= e /\ e1 < a + BlockSize
             ELSE Aligned(e1) /\ e1 <= e + BlockSize
    <3>1. Aligned(e + BlockSize)
      BY <1>8, AlignedNext
    <3> QED BY <3>1, <1>4, <1>8, <1>11
  <2> QED BY <2>1, <2>2, <1>3, <1>6, <1>13, <1>14 DEF Stands
<1>16. Behind(rd, g, j)
  BY <1>7, <1>13, BehindMoves
<1>17. \A r \in Logged : Got(rd, r) => starts[r].at > rd.from
  BY <1>2, <1>13, GotStarts DEF ReaderLoss
<1> QED BY <1>2, <1>6, <1>12, <1>13, <1>15, <1>16, <1>17 DEF ReaderLoss

\* A damaged fragment costs no record but those of its block.
LEMMA NotDue ==
  ASSUME LogInv, NEW g, Laid(g), Recorded(g, starts), harm = "damaged", hurt \in Nat,
         NEW k \in DOMAIN g, NEW n \in DOMAIN g, k <= n,
         hurt \in g[k].p + 1 .. After(g[k]), After(g[n]) <= g[k].b + BlockSize, NEW rd
  PROVE  ~Due(rd, g[n].r)
<1>1. PICK p \in Nat, b \in Nat, a \in Nat :
          /\ p = g[k].p /\ b = g[k].b /\ a = After(g[k]) /\ Aligned(b) /\ b <= p
          /\ a <= b + BlockSize /\ hurt \in p + 1 .. a
  BY PlaceIs
<1>2. PICK q \in Nat, c \in Nat :
          q = g[n].p /\ c = After(g[n]) /\ q + HeaderSize <= c /\ c <= b + BlockSize /\ a <= c
  BY <1>1, PlaceIs, Later
<1>3. HeaderSize \in Nat /\ HeaderSize > 0 /\ BlockSize \in Nat
  BY LogConstants
<1>4. BlockEnd(hurt - 1) = b + BlockSize
  <2>1. PICK x \in Nat : x = hurt - 1 /\ b <= x /\ x < b + BlockSize
    BY <1>1, <1>3
  <2> QED BY <2>1, <1>1, BlockEndIs
<1>5. PICK r : r = g[n].r /\ r \in DOMAIN starts /\ starts[r].at <= q + 1 /\ c <= starts[r].last
  BY <1>2 DEF Recorded
<1>6. starts[r] \in RecordType
  BY <1>5 DEF LogInv
<1>7. PICK at \in Nat, last \in Nat : at = starts[r].at /\ last = starts[r].last
  BY <1>6 DEF RecordType
<1>8. ~(last < hurt) /\ ~(at > b + BlockSize)
  BY <1>1, <1>2, <1>3, <1>5, <1>7
<1> QED BY <1>4, <1>5, <1>7, <1>8 DEF Due

\* A reader that finds no fragment drops the rest of the block.
LEMMA BadRecordKeepsLoss == ASSUME LogInv, LossInv, BadRecord PROVE LossInv'
<1> SUFFICES ASSUME harm # "torn" PROVE \E g : Layout(g) /\ ReaderLoss(reader', g)
  BY ReaderLossKeeps DEF BadRecord, FileStays
<1>1. reader.on /\ ~reader.done /\ Left >= HeaderSize /\ hurt \in Nat
  BY DEF BadRecord, LossInv
<1>2. PICK g : Layout(g) /\ ReaderLoss(reader, g)
  BY <1>1 DEF LossInv
<1>3. PICK p \in Nat, e \in Nat, l \in Nat :
          p = reader.pos /\ e = reader.end /\ l = Len(logFile) /\ p <= e /\ e <= l
  BY <1>1, LossReader
<1>4. /\ HeaderSize \in Nat /\ HeaderSize > 0 /\ BlockSize \in Nat /\ HeaderSize < BlockSize
      /\ Left = e - p
  BY <1>1, <1>3, LogConstants DEF Left
<1>5. Laid(g) /\ Recorded(g, starts) /\ Holds(g, logFile, harm, hurt)
  BY <1>2 DEF Layout
<1>6. PICK m \in Nat : m = Len(g) /\ DOMAIN g = 1 .. m
  BY <1>5, LaidIs
<1>7. PICK j \in 0 .. m : Stands(reader, g, j) /\ Behind(reader, g, j)
  BY <1>1, <1>2, <1>6 DEF ReaderLoss
<1>8. PICK k \in DOMAIN g : k = j + 1
  BY <1>1, <1>2, <1>7, ReaderHere
<1>9. PICK b \in Nat :
          /\ b = g[k].b /\ p = g[k].p
          /\ IF reader.eof THEN e < b + BlockSize ELSE e = b + BlockSize
  BY <1>1, <1>2, <1>3, <1>5, <1>7, <1>8, ReaderHere, PlaceIs
<1>10. PICK n \in Nat :
          /\ n = g[k].n /\ After(g[k]) = p + HeaderSize + n
          /\ IsFragment(Header) <=> Sound(p, HeaderSize)
          /\ IsFragment(Header) => Header[1].n = n
          /\ HeaderSize + n <= Left => (IsFragment(Fragment(n)) <=> Sound(p, HeaderSize + n))
          /\ ~reader.eof \/ harm # "cut" => HeaderSize + n <= Left
  <2>1. PICK x : x = g[j + 1] /\ x = g[k]
    BY <1>8
  <2>2. /\ x \in FragmentType /\ After(x) = p + HeaderSize + x.n
        /\ IsFragment(Header) <=> Sound(p, HeaderSize)
        /\ IsFragment(Header) => Header[1] = CellOf(x, 1)
        /\ HeaderSize + x.n <= Left => (IsFragment(Fragment(x.n)) <=> Sound(p, HeaderSize + x.n))
        /\ ~reader.eof \/ harm # "cut" => HeaderSize + x.n <= Left
    BY <2>1, <1>1, <1>2, <1>3, <1>7, FragmentHere
  <2>3. CellOf(x, 1).n = x.n
    BY DEF CellOf
  <2> QED BY <2>1, <2>2, <2>3, FragmentTypes
<1>11. harm = "damaged" /\ hurt \in p + 1 .. After(g[k])
  <2>1. ~Sound(p, HeaderSize) \/ ~Sound(p, HeaderSize + n)
    <3>1. \/ ~IsFragment(Header)
          \/ HeaderSize + Header[1].n > Left /\ ~reader.eof
          \/ HeaderSize + Header[1].n <= Left /\ ~IsFragment(Fragment(Header[1].n))
      BY DEF BadRecord
    <3>2. HeaderSize + n <= Left => ~(HeaderSize + n > Left)
      BY <1>3, <1>4
    <3> QED BY <3>1, <3>2, <1>10
  <2> QED BY <2>1, <1>4, <1>10 DEF Sound
<1>12. PICK rd : rd = reader' /\ rd = Dropped(reader, ~Zeros)
  BY DEF BadRecord
<1>13. /\ rd.pos = e /\ rd.end = e /\ rd.eof = reader.eof /\ rd.from = reader.from
       /\ ~rd.open /\ rd.out = reader.out /\ ~rd.done
  <2>1. reader \in ReaderType
    BY <1>1, LossReader
  <2> QED BY <2>1, <1>1, <1>3, <1>12 DEF Dropped, ReaderType
<1>14. l = Total(g) /\ e \in 0 .. Total(g)
  BY <1>3, <1>5, <1>11 DEF Holds
<1>15. PICK d \in 0 .. m :
          /\ d >= k
          /\ After(g[d]) <= e
          /\ d < m => g[d + 1].p = e /\ ~reader.eof
  <2>1. CASE reader.eof
    <3>1. m \in DOMAIN g /\ e = l
      BY <2>1, <1>3, <1>6, <1>7, <1>8 DEF Stands
    <3>2. After(g[m]) <= e
      BY <3>1, <1>5, <1>14, LaidIs
    <3> QED BY <3>1, <3>2, <1>6
  <2>2. CASE ~reader.eof
    <3>1. Aligned(e)
      BY <2>2, <1>3, <1>7 DEF Stands
    <3>2. PICK d \in 0 .. m :
              /\ d > 0 => After(g[d]) <= e
              /\ d < m => g[d + 1].p = e
      BY <3>1, <1>5, <1>6, <1>14, FragmentAt
    <3>3. d >= k
      <4> SUFFICES ASSUME d < k PROVE FALSE
        BY <1>6
      <4>1. d < m /\ d + 1 \in DOMAIN g /\ d + 1 <= k
        BY <1>6
      <4>2. g[d + 1].p <= g[k].p
        BY <4>1, <1>5, Later
      <4>3. p < e
        BY <1>1, <1>3, <1>4
      <4> QED BY <4>1, <4>2, <4>3, <3>2, <1>9
    <3> QED BY <2>2, <3>2, <3>3, <1>6
  <2> QED BY <2>1, <2>2
<1>16. Stands(rd, g, d)
  <2>1. IF reader.eof THEN e = l /\ \E a \in Nat : Aligned(a) /\ a <= p /\ e < a + BlockSize
                      ELSE Aligned(e)
    BY <1>3, <1>7 DEF Stands
  <2>2. IF reader.eof THEN e = l /\ \E a \in Nat : Aligned(a) /\ a <= e /\ e < a + BlockSize
                      ELSE Aligned(e) /\ e <= e + BlockSize
    BY <2>1, <1>3, <1>4
  <2> QED BY <2>2, <1>3, <1>6, <1>13, <1>15 DEF Stands
<1>17. Behind(rd, g, d)
  <2>1. ASSUME NEW y \in DOMAIN g, k <= y, y <= d PROVE ~Due(rd, g[y].r)
    <3>1. d \in DOMAIN g
      BY <1>6, <2>1
    <3>2. After(g[y]) <= After(g[d])
      BY <2>1, <3>1, <1>5, Later
    <3>3. After(g[y]) \in Nat /\ After(g[d]) \in Nat
      BY <2>1, <3>1, <1>5, LaidIs
    <3>4. After(g[y]) <= b + BlockSize
      BY <3>2, <3>3, <1>4, <1>9, <1>15
    <3> QED BY <2>1, <3>4, <1>1, <1>5, <1>9, <1>11, NotDue
  <2>2. ASSUME NEW y \in 1 .. d, Complete(g[y]), Due(rd, g[y].r) PROVE Got(rd, g[y].r)
    <3>1. y \in DOMAIN g /\ y < k
      <4>1. y \in DOMAIN g
        BY <1>6, <2>2
      <4> QED BY <4>1, <2>1, <2>2, <1>6
    <3>2. y \in 1 .. j
      BY <3>1, <1>6, <1>8
    <3>3. Due(reader, g[y].r)
      BY <2>2, <1>13 DEF Due
    <3>4. Got(reader, g[y].r)
      BY <3>2, <3>3, <2>2, <1>7 DEF Behind
    <3> QED BY <3>4, <1>13 DEF Got
  <2>3. ~Due(rd, g[d].r)
    <3>1. d \in DOMAIN g /\ d <= d
      BY <1>6, <1>15
    <3> QED BY <3>1, <2>1, <1>15
  <2> QED BY <2>2, <2>3, <1>11, <1>13 DEF Behind
<1>18. \A r \in Logged : Got(rd, r) => starts[r].at > rd.from
  BY <1>2, <1>13, GotStarts DEF ReaderLoss
<1> QED BY <1>2, <1>6, <1>12, <1>13, <1>16, <1>17, <1>18 DEF ReaderLoss

\* At the end of the file every record that is due was returned.
LEMMA AtEofKeepsLoss == ASSUME LogInv, LossInv, AtEof PROVE LossInv'
<1> SUFFICES ASSUME harm # "torn" PROVE \E g : Layout(g) /\ ReaderLoss(reader', g)
  BY ReaderLossKeeps DEF AtEof, FileStays
<1>1. reader.on /\ ~reader.done /\ reader.eof /\ hurt \in Nat
  BY DEF AtEof, LossInv
<1>2. PICK g : Layout(g) /\ ReaderLoss(reader, g)
  BY <1>1 DEF LossInv
<1>3. PICK p \in Nat, e \in Nat, l \in Nat :
          p = reader.pos /\ e = reader.end /\ l = Len(logFile) /\ p <= e /\ e <= l
  BY <1>1, LossReader
<1>4. /\ HeaderSize \in Nat /\ HeaderSize > 0 /\ BlockSize \in Nat /\ HeaderSize < BlockSize
      /\ Left = e - p
  BY <1>1, <1>3, LogConstants DEF Left
<1>5. Laid(g) /\ Recorded(g, starts) /\ Holds(g, logFile, harm, hurt)
  BY <1>2 DEF Layout
<1>6. PICK m \in Nat : m = Len(g) /\ DOMAIN g = 1 .. m
  BY <1>5, LaidIs
<1>7. PICK j \in 0 .. m : Stands(reader, g, j) /\ Behind(reader, g, j)
  BY <1>1, <1>2, <1>6 DEF ReaderLoss
<1>8. /\ j < m => p = g[j + 1].p \/ (j > 0 /\ p = After(g[j]))
      /\ e = l
  BY <1>1, <1>3, <1>6, <1>7 DEF Stands
<1>9. PICK rd : rd = reader' /\ rd = [reader EXCEPT !.done = TRUE, !.pos = reader.end, !.open = FALSE,
                                !.scratch = <<>>]
  BY DEF AtEof
<1>10. rd.from = reader.from /\ rd.out = reader.out /\ rd.drops = reader.drops /\ rd.done
  <2>1. reader \in ReaderType
    BY <1>1, LossReader
  <2> QED BY <2>1, <1>9 DEF ReaderType
<1>11. ASSUME NEW k \in DOMAIN g, k >= j + 1, Complete(g[k]), Due(reader, g[k].r) PROVE FALSE
  <2>1. PICK i \in DOMAIN g : i = j + 1 /\ i <= k
    BY <1>6, <1>11
  <2>2. PICK q \in Nat, a \in Nat, c \in Nat :
            /\ q = g[i].p /\ a = After(g[i]) /\ c = After(g[k]) /\ q + HeaderSize <= a /\ a <= c
    BY <2>1, <1>5, PlaceIs, Later
  <2>3. c <= l
    <3>1. CASE harm = "cut"
      <4>1. l = hurt /\ starts[g[k].r].last = c
        BY <3>1, <2>2, <1>3, <1>5, <1>11 DEF Holds, Recorded
      <4> QED BY <3>1, <4>1, <1>11 DEF Due
    <3>2. CASE harm # "cut"
      <4>1. l = Total(g) /\ c <= Total(g)
        BY <3>2, <2>2, <1>3, <1>5, LaidIs DEF Holds
      <4> QED BY <4>1
    <3> QED BY <3>1, <3>2
  <2>4. p <= q
    <3>1. CASE p = q
      BY <3>1
    <3>2. CASE p # q
      <4>1. p = After(g[j]) /\ j \in DOMAIN g /\ j < i
        BY <3>2, <2>1, <2>2, <1>6, <1>8
      <4> QED BY <4>1, <2>2, <1>5 DEF Laid
    <3> QED BY <3>1, <3>2
  <2>5. CASE Left < HeaderSize
    BY <2>2, <2>3, <2>4, <2>5, <1>3, <1>4, <1>8
  <2>6. CASE Left >= HeaderSize
    <3>1. PICK n \in Nat :
          /\ n = g[i].n /\ a = p + HeaderSize + n
          /\ IsFragment(Header) <=> Sound(p, HeaderSize)
          /\ IsFragment(Header) => Header[1].n = n
      <4>1. PICK x : x = g[j + 1] /\ x = g[i]
        BY <2>1
      <4>2. /\ x \in FragmentType /\ After(x) = p + HeaderSize + x.n
            /\ IsFragment(Header) <=> Sound(p, HeaderSize)
            /\ IsFragment(Header) => Header[1] = CellOf(x, 1)
        BY <4>1, <2>6, <1>1, <1>2, <1>3, <1>7, FragmentHere
      <4>3. CellOf(x, 1).n = x.n
        BY DEF CellOf
      <4> QED BY <4>1, <4>2, <4>3, <2>2, FragmentTypes
    <3>2. CASE IsFragment(Header)
      <4>1. HeaderSize + Header[1].n > Left
        <5>1. ~(Left < HeaderSize)
          BY <2>6, <1>3, <1>4
        <5> QED BY <5>1, <3>2 DEF AtEof
      <4>2. HeaderSize + n > e - p
        BY <4>1, <3>1, <3>2, <1>4
      <4>3. a = p + HeaderSize + n /\ a <= c /\ c <= e
        BY <3>1, <2>2, <2>3, <1>8
      <4> QED BY <4>2, <4>3, <1>4
    <3>3. CASE ~IsFragment(Header)
      <4>1. harm = "damaged" /\ hurt \in p + 1 .. p + HeaderSize
        BY <3>1, <3>3 DEF Sound
      <4>2. p = q /\ e < g[i].b + BlockSize
        BY <2>1, <2>2, <2>6, <1>1, <1>2, <1>3, <1>7, ReaderHere
      <4>3. hurt \in g[i].p + 1 .. After(g[i])
        BY <4>1, <4>2, <3>1, <2>2, <1>4
      <4>4. c <= g[i].b + BlockSize
        <5>1. PICK b \in Nat : b = g[i].b
          BY <1>5, PlaceIs
        <5> QED BY <5>1, <4>2, <2>2, <2>3, <1>4, <1>8
      <4>5. ~Due(reader, g[k].r)
        BY <4>1, <4>3, <4>4, <2>1, <2>2, <1>1, <1>5, NotDue
      <4> QED BY <4>5, <1>11
    <3> QED BY <3>2, <3>3
  <2> QED BY <2>5, <2>6, <1>3, <1>4
<1>12. Loses(rd)
  <2>1. ASSUME NEW r \in Logged, Due(rd, r) PROVE Got(rd, r)
    <3>1. PICK k \in DOMAIN g : g[k].r = r /\ Complete(g[k])
      BY <1>5 DEF Recorded, Logged
    <3>2. Due(reader, r)
      BY <2>1, <1>10 DEF Due
    <3>3. k \in 1 .. j
      BY <3>1, <3>2, <1>6, <1>11
    <3>4. Got(reader, r)
      BY <3>1, <3>2, <3>3, <1>7 DEF Behind
    <3> QED BY <3>4, <1>10 DEF Got
  <2>2. ASSUME harm = "cut", rd.from = 0 PROVE rd.drops = 0
    BY <2>2, <1>7, <1>10 DEF Behind
  <2> QED BY <2>1, <2>2 DEF Loses
<1>13. \A r \in Logged : Got(rd, r) => starts[r].at > rd.from
  BY <1>2, <1>10, GotStarts DEF ReaderLoss
<1> QED BY <1>2, <1>9, <1>10, <1>12, <1>13 DEF ReaderLoss

\* A fragment that goes on with a record comes after one of the record that does not end it.
LEMMA BeforeIs ==
  ASSUME NEW g, Laid(g), NEW j \in Nat, NEW k \in DOMAIN g, k = j + 1
  PROVE  IF Begins(g[k]) THEN j > 0 => Complete(g[j])
         ELSE /\ j > 0 /\ ~Complete(g[j]) /\ g[j].r = g[k].r /\ g[k].f = g[j].f + 1
              /\ g[j].f \in Nat \ {0}
<1>1. PICK m \in Nat : m = Len(g) /\ DOMAIN g = 1 .. m /\ (g = << >> <=> m = 0)
  BY LaidIs
<1>2. CASE j = 0
  BY <1>1, <1>2 DEF Laid
<1>3. CASE j > 0
  <2>1. j \in DOMAIN g
    BY <1>1, <1>3
  <2>2. Follows(g[j], g[k])
    BY <2>1 DEF Laid
  <2>3. g[j] \in FragmentType
    BY <2>1, LaidIs
  <2>4. g[j].f \in Nat \ {0}
    BY <2>3, FragmentTypes
  <2> QED BY <1>3, <2>2, <2>4 DEF Follows
<1> QED BY <1>2, <1>3

LEMMA RunIsOf ==
  ASSUME NEW r1, NEW m1 \in Nat \ {0}, NEW r2, NEW m2 \in Nat \ {0}, Run(r1, m1) = Run(r2, m2)
  PROVE  r1 = r2
<1>1. Run(r1, m1)[1] = <<r1, 1>> /\ Run(r2, m2)[1] = <<r2, 1>>
  BY DEF Run
<1> QED BY <1>1

\* A record more was returned.
LEMMA GotGrows ==
  ASSUME NEW rd, rd.out \in Seq(Seq(Nat \X Nat)), NEW rd1, rd1.from = rd.from,
         NEW r \in Nat, NEW f \in Nat \ {0}, rd1.out = Append(rd.out, Run(r, f)),
         \A s \in Logged : Got(rd, s) => starts[s].at > rd.from,
         starts \in Seq(RecordType), starts[r].at > rd.from
  PROVE  /\ \A s : Got(rd, s) => Got(rd1, s)
         /\ starts[r].frags = f => Got(rd1, r)
         /\ \A s \in Logged : Got(rd1, s) => starts[s].at > rd1.from
<1>8. PICK o \in Seq(Seq(Nat \X Nat)) : o = rd.out
  OBVIOUS
<1>9. Len(o) \in Nat /\ DOMAIN o = 1 .. Len(o)
  BY LenProperties
<1>1. PICK n \in Nat : n = Len(o) /\ DOMAIN o = 1 .. n
  BY <1>9
<1>2. Run(r, f) \in Seq(Nat \X Nat)
  BY RunIs
<1>3. PICK run \in Seq(Nat \X Nat) : run = Run(r, f)
  BY <1>2
<1>4. /\ DOMAIN rd1.out = 1 .. n + 1 /\ rd1.out[n + 1] = run
      /\ \A i \in 1 .. n : rd1.out[i] = rd.out[i]
  BY <1>1, <1>3, <1>8, AppendIs
<1>5. ASSUME NEW s, Got(rd, s) PROVE Got(rd1, s)
  <2>1. PICK i \in 1 .. n : rd.out[i] = Whole(s)
    BY <1>1, <1>5, <1>8 DEF Got
  <2>2. i \in 1 .. n + 1 /\ rd1.out[i] = Whole(s)
    BY <2>1, <1>4
  <2> QED BY <2>2, <1>4 DEF Got
<1>6. ASSUME starts[r].frags = f PROVE Got(rd1, r)
  <2>1. Whole(r) = run
    BY <1>3, <1>6 DEF Whole, Run
  <2>2. n + 1 \in 1 .. n + 1
    OBVIOUS
  <2> QED BY <2>1, <2>2, <1>4 DEF Got
<1>7. ASSUME NEW s \in Logged, Got(rd1, s) PROVE starts[s].at > rd1.from
  <2>1. PICK i \in 1 .. n + 1 : rd1.out[i] = Whole(s)
    BY <1>4, <1>7 DEF Got
  <2>2. CASE i \in 1 .. n
    <3>1. Got(rd, s)
      BY <2>1, <2>2, <1>1, <1>4, <1>8 DEF Got
    <3> QED BY <3>1
  <2>3. CASE i = n + 1
    <3>1. starts[s].frags > 0 /\ starts[s] \in RecordType
      BY DEF Logged
    <3>2. PICK w \in Nat \ {0} : w = starts[s].frags
      BY <3>1 DEF RecordType
    <3>3. Run(s, w) = Run(r, f)
      BY <2>1, <2>3, <3>2, <1>3, <1>4 DEF Whole, Run
    <3>4. s = r
      BY <3>3, RunIsOf
    <3> QED BY <3>4
  <2> QED BY <2>1, <2>2, <2>3
<1> QED BY <1>5, <1>6, <1>7

\* A fragment is passed over whose record is not due.
LEMMA PassedOver ==
  ASSUME NEW g, NEW j \in Nat, NEW k, k = j + 1, NEW rd, Behind(rd, g, j),
         ~Due(rd, g[k].r), ~(harm \in {"none", "cut"} /\ rd.from = 0),
         NEW rd1, rd1.from = rd.from, rd1.out = rd.out, ~rd1.open
  PROVE  Behind(rd1, g, k)
<1>1. \A r : (Due(rd1, r) <=> Due(rd, r)) /\ (Got(rd1, r) <=> Got(rd, r))
  BY DEF Due, Got
<1>2. ASSUME NEW i \in 1 .. k, Complete(g[i]), Due(rd1, g[i].r) PROVE Got(rd1, g[i].r)
  <2>1. i # k
    BY <1>1, <1>2
  <2>2. i \in 1 .. j
    BY <2>1
  <2> QED BY <2>2, <1>1, <1>2 DEF Behind
<1> QED BY <1>1, <1>2 DEF Behind

\* A record that the reader is not in, where a fragment goes on with it, is not due.
LEMMA NotInIt ==
  ASSUME NEW g, Laid(g), NEW j \in Nat, NEW k \in DOMAIN g, k = j + 1, NEW rd, Behind(rd, g, j),
         ~Begins(g[k]), ~rd.open
  PROVE  ~Due(rd, g[k].r) /\ ~(harm \in {"none", "cut"} /\ rd.from = 0)
BY BeforeIs DEF Behind

\* What is known of the reader behind a fragment that it takes
LEMMA TakenLoss ==
  ASSUME LogInv, NEW g, Laid(g), Recorded(g, starts), NEW j \in Nat, NEW k \in DOMAIN g, k = j + 1,
         NEW rd \in ReaderType, Behind(rd, g, j), rd.from <= g[k].p,
         \A s \in Logged : Got(rd, s) => starts[s].at > rd.from,
         NEW c, c.r = g[k].r, c.f = g[k].f, c.t = g[k].t,
         NEW rd1, rd1 = Taken(rd, c)
  PROVE  /\ Behind(rd1, g, k)
         /\ \A s \in Logged : Got(rd1, s) => starts[s].at > rd1.from
<1>1. PICK r \in Nat \ {0}, f \in Nat \ {0}, t \in Types, p \in Nat, from \in Nat :
          /\ r = g[k].r /\ f = g[k].f /\ t = g[k].t /\ p = g[k].p /\ from = rd.from /\ from <= p
  <2>1. g[k] \in FragmentType
    BY LaidIs
  <2> QED BY <2>1, FragmentTypes, ReaderIs
<1>2. /\ r \in DOMAIN starts /\ starts \in Seq(RecordType)
      /\ Begins(g[k]) => starts[r].at = p + 1 /\ f = 1
      /\ Complete(g[k]) => starts[r].frags = f
      /\ Begins(g[k]) <=> t \in {"full", "first"}
      /\ Complete(g[k]) <=> t \in {"full", "last"}
  BY <1>1 DEF Recorded, LogInv, Begins, Complete, Laid
<1>3. Begins(g[k]) => starts[r].at > from
  BY <1>1, <1>2
<1>4. Begins(g[k]) => ~rd.open
  BY BeforeIs DEF Behind
<1>5. \A s, d : d.from = rd.from => (Due(d, s) <=> Due(rd, s))
  BY DEF Due
<1>6. \A i \in 1 .. k : i = k \/ i \in 1 .. j
  OBVIOUS
<1>7. Piece(c) = <<r, f>> /\ c.t = t
  BY <1>1 DEF Piece
<1>8. rd.out \in Seq(Seq(Nat \X Nat)) /\ rd.scratch \in Seq(Nat \X Nat) /\ rd.open \in BOOLEAN
      /\ rd.drops \in Nat
  BY ReaderIs
<1>9. CASE t = "full"
  <2>1. <<Piece(c)>> = Run(r, f) /\ ~rd.open
    BY <1>1, <1>2, <1>4, <1>7, <1>9, RunOne
  <2>2. PICK o : o = Append(rd.out, Run(r, f))
    OBVIOUS
  <2>3. /\ rd1.from = rd.from /\ rd1.out = o /\ ~rd1.open
        /\ rd1.resync = rd.resync /\ rd1.drops = rd.drops
    <3>1. rd1 = [rd EXCEPT
              !.drops = @ + (IF rd.open /\ rd.scratch # <<>> THEN 1 ELSE 0),
              !.open = FALSE, !.scratch = <<>>, !.out = o]
      BY <2>1, <2>2, <1>7, <1>9 DEF Taken
    <3>2. rd.drops + (IF rd.open /\ rd.scratch # <<>> THEN 1 ELSE 0) = rd.drops
      BY <2>1, <1>8
    <3>3. rd1 = [rd EXCEPT !.drops = rd.drops, !.open = FALSE, !.scratch = <<>>, !.out = o]
      BY <3>1, <3>2
    <3> QED BY <3>3 DEF ReaderType
  <2>4. /\ \A s : Got(rd, s) => Got(rd1, s)
        /\ starts[r].frags = f => Got(rd1, r)
        /\ \A s \in Logged : Got(rd1, s) => starts[s].at > rd1.from
    <3>1. starts[r].at > rd.from /\ starts \in Seq(RecordType) /\ rd1.out = Append(rd.out, Run(r, f))
      BY <2>2, <2>3, <1>1, <1>2, <1>3, <1>9
    <3> QED BY <3>1, <2>3, <1>8, GotGrows
  <2>5. Behind(rd1, g, k)
    BY <2>3, <2>4, <1>1, <1>2, <1>5, <1>6, <1>9 DEF Behind
  <2> QED BY <2>4, <2>5
<1>10. CASE t = "first"
  <2>1. <<Piece(c)>> = Run(r, f) /\ ~rd.open
    BY <1>1, <1>2, <1>4, <1>7, <1>10, RunOne
  <2>2. PICK o : o = Run(r, f)
    OBVIOUS
  <2>3. /\ rd1.from = rd.from /\ rd1.out = rd.out /\ rd1.open /\ rd1.scratch = o
        /\ rd1.resync = rd.resync /\ rd1.drops = rd.drops
    <3>1. rd1 = [rd EXCEPT
              !.drops = @ + (IF rd.open /\ rd.scratch # <<>> THEN 1 ELSE 0),
              !.open = TRUE, !.scratch = o]
      BY <2>1, <2>2, <1>7, <1>10 DEF Taken
    <3>2. rd.drops + (IF rd.open /\ rd.scratch # <<>> THEN 1 ELSE 0) = rd.drops
      BY <2>1, <1>8
    <3>3. rd1 = [rd EXCEPT !.drops = rd.drops, !.open = TRUE, !.scratch = o]
      BY <3>1, <3>2
    <3> QED BY <3>3 DEF ReaderType
  <2>4. \A s \in Logged : Got(rd1, s) => starts[s].at > rd1.from
    BY <2>3, GotStarts
  <2>5. \A s : Got(rd, s) => Got(rd1, s)
    BY <2>3 DEF Got
  <2>6. Behind(rd1, g, k)
    BY <2>2, <2>3, <2>5, <1>1, <1>2, <1>3, <1>5, <1>6, <1>10 DEF Behind
  <2> QED BY <2>4, <2>6
<1>11. CASE t \in {"middle", "last"} /\ rd.open
  <2>1. j > 0 /\ g[j].r = r /\ f = g[j].f + 1 /\ g[j].f \in Nat \ {0}
    BY <1>1, <1>2, <1>11, BeforeIs
  <2>2. starts[r].at > from /\ rd.scratch = Run(r, g[j].f)
    BY <2>1, <1>1, <1>11 DEF Behind
  <2>3. Append(rd.scratch, Piece(c)) = Run(r, f)
    <3>1. PICK h \in Nat : h = g[j].f /\ f = h + 1
      BY <2>1
    <3>2. Append(Run(r, h), <<r, h + 1>>) = Run(r, h + 1)
      BY RunGrows
    <3> QED BY <3>1, <3>2, <2>2, <1>7
  <2>4. CASE t = "middle"
    <3>1. PICK o : o = Run(r, f)
      OBVIOUS
    <3>2. rd1 = [rd EXCEPT !.scratch = o]
      BY <2>3, <2>4, <3>1, <1>7, <1>11 DEF Taken
    <3>3. /\ rd1.from = rd.from /\ rd1.out = rd.out /\ rd1.open /\ rd1.scratch = o
          /\ rd1.resync = rd.resync /\ rd1.drops = rd.drops
      BY <3>2, <1>11 DEF ReaderType
    <3>4. \A s \in Logged : Got(rd1, s) => starts[s].at > rd1.from
      BY <3>3, GotStarts
    <3>5. \A s : Got(rd, s) => Got(rd1, s)
      BY <3>3 DEF Got
    <3>6. Behind(rd1, g, k)
      BY <3>1, <3>3, <3>5, <2>2, <2>4, <1>1, <1>2, <1>5, <1>6 DEF Behind
    <3> QED BY <3>4, <3>6
  <2>5. CASE t = "last"
    <3>1. PICK o : o = Append(rd.out, Run(r, f))
      OBVIOUS
    <3>2. rd1 = [rd EXCEPT !.open = FALSE, !.scratch = <<>>, !.out = o]
      BY <2>3, <2>5, <3>1, <1>7, <1>11 DEF Taken
    <3>3. /\ rd1.from = rd.from /\ rd1.out = o /\ ~rd1.open
          /\ rd1.resync = rd.resync /\ rd1.drops = rd.drops
      BY <3>2 DEF ReaderType
    <3>4. /\ \A s : Got(rd, s) => Got(rd1, s)
          /\ starts[r].frags = f => Got(rd1, r)
          /\ \A s \in Logged : Got(rd1, s) => starts[s].at > rd1.from
      <4>1. starts[r].at > rd.from /\ starts \in Seq(RecordType) /\ rd1.out = Append(rd.out, Run(r, f))
        BY <3>1, <3>3, <2>2, <1>1, <1>2
      <4> QED BY <4>1, <3>3, <1>8, GotGrows
    <3>5. Behind(rd1, g, k)
      BY <3>3, <3>4, <2>5, <1>1, <1>2, <1>5, <1>6 DEF Behind
    <3> QED BY <3>4, <3>5
  <2> QED BY <2>4, <2>5, <1>11
<1>12. CASE t \in {"middle", "last"} /\ ~rd.open
  <2>1. rd1 = [rd EXCEPT !.drops = @ + 1]
    BY <1>7, <1>12 DEF Taken
  <2>2. rd1.from = rd.from /\ rd1.out = rd.out /\ ~rd1.open
    BY <2>1, <1>12 DEF ReaderType
  <2>3. ~Due(rd, g[k].r) /\ ~(harm \in {"none", "cut"} /\ rd.from = 0)
    BY <1>2, <1>12, NotInIt
  <2>4. Behind(rd1, g, k)
    BY <2>2, <2>3, PassedOver
  <2>5. \A s \in Logged : Got(rd1, s) => starts[s].at > rd1.from
    BY <2>2, GotStarts
  <2> QED BY <2>4, <2>5
<1> QED BY <1>9, <1>10, <1>11, <1>12, <1>8 DEF Types

\* A fragment that is taken does not move the reader.
LEMMA TakenStands ==
  ASSUME NEW rd \in ReaderType, NEW c, NEW rd1, rd1 = Taken(rd, c)
  PROVE  rd1.pos = rd.pos /\ rd1.end = rd.end /\ rd1.eof = rd.eof /\ rd1.done = rd.done
<1>1. CASE c.t = "full"
  <2>1. rd1 = [rd EXCEPT
              !.drops = @ + (IF rd.open /\ rd.scratch # <<>> THEN 1 ELSE 0),
              !.open = FALSE, !.scratch = <<>>,
              !.out = Append(@, <<Piece(c)>>)]
    BY <1>1 DEF Taken
  <2> QED BY <2>1 DEF ReaderType
<1>2. CASE c.t = "first"
  <2>1. rd1 = [rd EXCEPT
              !.drops = @ + (IF rd.open /\ rd.scratch # <<>> THEN 1 ELSE 0),
              !.open = TRUE, !.scratch = <<Piece(c)>>]
    BY <1>2 DEF Taken
  <2> QED BY <2>1 DEF ReaderType
<1>3. CASE c.t = "middle" /\ rd.open
  <2>1. rd1 = [rd EXCEPT !.scratch = Append(@, Piece(c))]
    BY <1>3 DEF Taken
  <2> QED BY <2>1 DEF ReaderType
<1>4. CASE c.t = "last" /\ rd.open
  <2>1. rd1 = [rd EXCEPT
              !.open = FALSE, !.scratch = <<>>,
              !.out = Append(@, Append(rd.scratch, Piece(c)))]
    BY <1>4 DEF Taken
  <2> QED BY <2>1 DEF ReaderType
<1>5. CASE ~(c.t \in {"full", "first"}) /\ ~(c.t \in {"middle", "last"} /\ rd.open)
  <2>1. rd1 = [rd EXCEPT !.drops = @ + 1]
    BY <1>5 DEF Taken
  <2> QED BY <2>1 DEF ReaderType
<1> QED BY <1>1, <1>2, <1>3, <1>4, <1>5

\* A reader takes or passes over the fragment before it.
LEMMA ReadFragmentKeepsLoss == ASSUME LogInv, LossInv, ReadFragment PROVE LossInv'
<1> SUFFICES ASSUME harm # "torn" PROVE \E g : Layout(g) /\ ReaderLoss(reader', g)
  BY ReaderLossKeeps DEF ReadFragment, FileStays
<1>1. reader.on /\ ~reader.done /\ Left >= HeaderSize /\ IsFragment(Header) /\ hurt \in Nat
  BY DEF ReadFragment, LossInv
<1>2. PICK g : Layout(g) /\ ReaderLoss(reader, g)
  BY <1>1 DEF LossInv
<1>3. PICK p \in Nat, e \in Nat : p = reader.pos /\ e = reader.end /\ p <= e
  BY <1>1, LossReader
<1>4. HeaderSize \in Nat /\ BlockSize \in Nat
  BY LogConstants
<1>5. Laid(g) /\ Recorded(g, starts)
  BY <1>2 DEF Layout
<1>6. PICK m \in Nat : m = Len(g) /\ DOMAIN g = 1 .. m
  BY <1>5, LaidIs
<1>7. PICK j \in 0 .. m : Stands(reader, g, j) /\ Behind(reader, g, j)
  BY <1>1, <1>2, <1>6 DEF ReaderLoss
<1>8. PICK k \in DOMAIN g : k = j + 1 /\ p = g[k].p
  BY <1>1, <1>2, <1>3, <1>7, ReaderHere
<1>9. PICK x : x = g[k] /\ x = g[j + 1]
  BY <1>8
<1>10. /\ x \in FragmentType /\ After(x) = p + HeaderSize + x.n /\ Header[1] = CellOf(x, 1)
  BY <1>1, <1>2, <1>3, <1>7, <1>9, FragmentHere
<1>11. PICK c : c = Header[1] /\ c.r = x.r /\ c.f = x.f /\ c.t = x.t /\ c.n = x.n
  BY <1>10 DEF CellOf
<1>12. x.n \in Nat /\ x.t \in Types /\ After(x) \in Nat
  BY <1>10, FragmentTypes
<1>13. PICK a \in Nat : a = After(x) /\ a = reader.pos + HeaderSize + c.n /\ p <= a
  <2>1. PICK n \in Nat : n = x.n
    BY <1>12
  <2> QED BY <2>1, <1>3, <1>4, <1>10, <1>11, <1>12
<1>14. PICK rd : rd = [reader EXCEPT !.pos = a]
  OBVIOUS
<1>15. reader' = IF reader.pos < reader.from
                 THEN [rd EXCEPT !.open = FALSE, !.scratch = <<>>, !.resync = FALSE]
                 ELSE IF reader.resync THEN Resynced(rd, c) ELSE Taken(rd, c)
  BY <1>11, <1>13, <1>14 DEF ReadFragment
<1>16. reader \in ReaderType /\ (reader.resync => ~reader.open)
  BY <1>1, LossReader
<1>17. /\ rd \in ReaderType /\ rd.pos = a /\ rd.end = e /\ rd.eof = reader.eof /\ ~rd.done
       /\ rd.from = reader.from /\ rd.out = reader.out /\ rd.open = reader.open
       /\ rd.scratch = reader.scratch /\ rd.resync = reader.resync /\ rd.drops = reader.drops
  BY <1>1, <1>3, <1>14, <1>16 DEF ReaderType
<1>18. Behind(rd, g, j)
  BY <1>7, <1>17, BehindMoves
<1>19. \A s \in Logged : Got(rd, s) => starts[s].at > rd.from
  BY <1>2, <1>17, GotStarts DEF ReaderLoss
<1>20. PICK from \in Nat : from = rd.from /\ from = reader.from
  BY <1>17, ReaderIs
<1> DEFINE Good(rd1) ==
      /\ rd1.pos = rd.pos /\ rd1.end = rd.end /\ rd1.eof = rd.eof /\ rd1.done = rd.done
      /\ Behind(rd1, g, k)
      /\ \A s \in Logged : Got(rd1, s) => starts[s].at > rd1.from
<1>21. ASSUME NEW rd1, rd1.from = rd.from, rd1.out = rd.out, ~rd1.open, rd1.done = rd.done,
              rd1.pos = rd.pos, rd1.end = rd.end, rd1.eof = rd.eof,
              ~Due(rd, x.r), ~(harm \in {"none", "cut"} /\ rd.from = 0)
       PROVE  Good(rd1)
  <2>1. Behind(rd1, g, k)
    BY <1>8, <1>9, <1>18, <1>21, PassedOver
  <2>2. \A s \in Logged : Got(rd1, s) => starts[s].at > rd1.from
    BY <1>19, <1>21, GotStarts
  <2> QED BY <2>1, <2>2, <1>21
<1>22. ASSUME NEW rd0 \in ReaderType, Behind(rd0, g, j), ~(p < from), rd0.from = from,
              rd0.out = rd.out, rd0.pos = rd.pos, rd0.end = rd.end, rd0.eof = rd.eof,
              rd0.done = rd.done
       PROVE  Good(Taken(rd0, c))
  <2>1. PICK rd1 : rd1 = Taken(rd0, c)
    OBVIOUS
  <2>2. \A s \in Logged : Got(rd0, s) => starts[s].at > rd0.from
    BY <1>19, <1>20, <1>22, GotStarts
  <2>3. rd0.from <= g[k].p
    BY <1>8, <1>22
  <2>4. Behind(rd1, g, k) /\ \A s \in Logged : Got(rd1, s) => starts[s].at > rd1.from
    BY <2>1, <2>2, <2>3, <1>5, <1>8, <1>9, <1>11, <1>22, TakenLoss
  <2>5. rd1.pos = rd0.pos /\ rd1.end = rd0.end /\ rd1.eof = rd0.eof /\ rd1.done = rd0.done
    BY <2>1, <1>22, TakenStands
  <2> QED BY <2>1, <2>4, <2>5, <1>22
<1>23. Good(reader')
  <2>1. CASE p < from
    <3>1. PICK rd1 : rd1 = [rd EXCEPT !.open = FALSE, !.scratch = <<>>, !.resync = FALSE]
      OBVIOUS
    <3>2. rd1.from = rd.from /\ rd1.out = rd.out /\ ~rd1.open /\ rd1.done = rd.done
          /\ rd1.pos = rd.pos /\ rd1.end = rd.end /\ rd1.eof = rd.eof
      BY <3>1, <1>17 DEF ReaderType
    <3>3. ~Due(rd, x.r)
      <4>1. x.r \in DOMAIN starts /\ starts[x.r].at <= p + 1 /\ starts \in Seq(RecordType)
        BY <1>5, <1>8, <1>9 DEF Recorded, LogInv
      <4>2. starts[x.r] \in RecordType
        BY <4>1
      <4>3. PICK at \in Nat : at = starts[x.r].at
        BY <4>2 DEF RecordType
      <4>4. ~(at > from)
        BY <4>1, <4>3, <2>1
      <4> QED BY <4>3, <4>4, <1>20 DEF Due
    <3>4. ~(harm \in {"none", "cut"} /\ rd.from = 0)
      BY <2>1, <1>20
    <3>5. Good(rd1)
      BY <3>2, <3>3, <3>4, <1>21
    <3> HIDE DEF Good
    <3> QED BY <3>1, <3>5, <2>1, <1>3, <1>15, <1>20
  <2>2. CASE ~(p < from) /\ ~reader.resync
    <3>1. Good(Taken(rd, c))
      BY <2>2, <1>17, <1>18, <1>20, <1>22
    <3> HIDE DEF Good
    <3> QED BY <3>1, <2>2, <1>3, <1>15, <1>20
  <2>3. CASE ~(p < from) /\ reader.resync
    <3>1. reader' = Resynced(rd, c)
      BY <2>3, <1>3, <1>15, <1>20
    <3>2. CASE x.t \in {"middle", "last"}
      <4>1. ~Due(rd, x.r) /\ ~(harm \in {"none", "cut"} /\ rd.from = 0) /\ ~rd.open
        <5>1. ~Begins(g[k]) /\ ~rd.open
          BY <3>2, <2>3, <1>9, <1>16, <1>17 DEF Begins
        <5>2. j \in Nat
          OBVIOUS
        <5>3. ~Due(rd, g[k].r) /\ ~(harm \in {"none", "cut"} /\ rd.from = 0)
          BY <5>1, <5>2, <1>5, <1>8, <1>18, NotInIt
        <5> QED BY <5>1, <5>3, <1>9
      <4>2. CASE x.t = "middle"
        <5>1. Good(rd)
          BY <4>1, <1>21
        <5> HIDE DEF Good
        <5> QED BY <5>1, <4>2, <3>1, <1>11 DEF Resynced
      <4>3. CASE x.t = "last"
        <5>1. PICK rd1 : rd1 = [rd EXCEPT !.resync = FALSE]
          OBVIOUS
        <5>2. rd1.from = rd.from /\ rd1.out = rd.out /\ ~rd1.open /\ rd1.done = rd.done
              /\ rd1.pos = rd.pos /\ rd1.end = rd.end /\ rd1.eof = rd.eof
          BY <5>1, <4>1, <1>17 DEF ReaderType
        <5>3. Good(rd1)
          BY <5>2, <4>1, <1>21
        <5> HIDE DEF Good
        <5> QED BY <5>1, <5>3, <4>3, <3>1, <1>11 DEF Resynced
      <4> QED BY <4>2, <4>3, <3>2
    <3>3. CASE ~(x.t \in {"middle", "last"})
      <4>1. PICK rd0 : rd0 = [rd EXCEPT !.resync = FALSE]
        OBVIOUS
      <4>2. /\ rd0 \in ReaderType /\ rd0.pos = rd.pos /\ rd0.end = rd.end /\ rd0.eof = rd.eof
            /\ rd0.done = rd.done /\ rd0.from = rd.from /\ rd0.out = rd.out /\ rd0.open = rd.open
            /\ rd0.scratch = rd.scratch /\ ~rd0.resync /\ rd0.drops = rd.drops
        BY <4>1, <1>17 DEF ReaderType
      <4>3. Behind(rd0, g, j)
        <5>1. /\ \A r : (Due(rd0, r) <=> Due(rd, r)) /\ (Got(rd0, r) <=> Got(rd, r))
          BY <4>2 DEF Due, Got
        <5> QED BY <4>2, <5>1, <1>18 DEF Behind
      <4>4. Good(Taken(rd0, c))
        BY <4>2, <4>3, <2>3, <1>20, <1>22
      <4> HIDE DEF Good
      <4>5. Resynced(rd, c) = Taken(rd0, c)
        BY <4>1, <3>3, <1>11 DEF Resynced
      <4> QED BY <4>4, <4>5, <3>1
    <3> QED BY <3>2, <3>3
  <2> QED BY <2>1, <2>2, <2>3
<1>24. PICK rd1 : rd1 = reader'
  OBVIOUS
<1>25. Good(rd1)
  BY <1>23, <1>24
<1>26. Stands(rd1, g, k)
  <2>1. k \in 0 .. m /\ After(g[k]) = a
    BY <1>6, <1>8, <1>9, <1>13
  <2>2. IF reader.eof
        THEN e = Len(logFile) /\ \E b \in Nat : Aligned(b) /\ b <= a /\ e < b + BlockSize
        ELSE Aligned(e) /\ e <= a + BlockSize
    BY <1>3, <1>4, <1>7, <1>13 DEF Stands
  <2>3. rd1.pos = a /\ rd1.end = e /\ rd1.eof = reader.eof
    BY <1>17, <1>25
  <2> QED BY <2>1, <2>2, <2>3, <1>6, <1>8 DEF Stands
<1>27. k \in 0 .. Len(g) /\ ~rd1.done
  BY <1>6, <1>8, <1>17, <1>25
<1> QED BY <1>2, <1>24, <1>25, <1>26, <1>27 DEF ReaderLoss

-----------------------------------------------------------------------------

LEMMA LossNext == ASSUME LogInv, LossInv, [LogNext]_logVars PROVE LossInv'
<1>1. ASSUME UNCHANGED logVars PROVE LossInv'
  <2>1. CASE reader.on
    <3>1. harm # "torn" => \E g : Layout(g) /\ ReaderLoss(reader, g)
      BY <2>1 DEF LossInv
    <3> QED BY <3>1, <1>1, ReaderLossKeeps DEF logVars, FileStays
  <2>2. CASE ~reader.on
    <3>1. \A g : Layout(g) => Layout(g)'
      BY <1>1 DEF Layout, logVars
    <3> QED BY <3>1, <2>2, <1>1 DEF LossInv, logVars
  <2> QED BY <2>1, <2>2
<1>2. ASSUME NEW n \in 0 .. Len(logFile), CutFile(n) \/ (n > 0 /\ DamageCell(n)) PROVE LossInv'
  <2>1. n \in Nat /\ Len(logFile) \in Nat
    BY DEF LogInv, FileOK
  <2>2. CASE n > 0 /\ DamageCell(n)
    <3>1. n \in 1 .. Len(logFile)
      BY <2>1, <2>2
    <3> QED BY <3>1, <2>2, DamageKeepsLoss
  <2> QED BY <2>2, <1>2, CutKeepsLoss
<1> QED BY <1>1, <1>2, AddRecordKeepsLoss, EmitKeepsLoss, EmitFailsKeepsLoss, OpenKeepsLoss,
           RefillKeepsLoss, AtEofKeepsLoss, BadRecordKeepsLoss, ReadFragmentKeepsLoss
        DEF LogNext

LEMMA LossInvLoses == ASSUME LogInv, LossInv PROVE NoNeedlessLoss
<1> SUFFICES ASSUME AllRead, harm # "torn"
             PROVE  /\ \A r \in Logged : Due(reader, r) => r \in Returned
                    /\ \A r \in Returned : starts[r].at > reader.from
                    /\ harm = "cut" /\ reader.from = 0 => reader.drops = 0
  BY DEF NoNeedlessLoss, Due
<1>1. reader.on /\ reader.done
  BY DEF AllRead
<1>2. PICK g : ReaderLoss(reader, g)
  BY <1>1 DEF LossInv
<1>3. \A r \in Logged : Got(reader, r) <=> r \in Returned
  BY DEF Got, Returned
<1> QED BY <1>1, <1>2, <1>3 DEF ReaderLoss, Loses, Returned

(***************************************************************************)
(* A reader of a log returns every record it need not lose: all from its   *)
(* offset on of a whole file, all that end before a cut, all but those in  *)
(* the block of a damaged cell; none from before its offset, and after a   *)
(* cut it reports no damage.  For any sizes of blocks, headers and         *)
(* records.  log::Writer, log::Reader and SkipToInitialBlock.              *)
(***************************************************************************)
THEOREM NothingIsLost == LogSpec => []NoNeedlessLoss
<1>1. LogInit => LogInv /\ LossInv
  BY InitKeeps, InitKeepsLoss
<1>2. LogInv /\ LossInv /\ [LogNext]_logVars => (LogInv /\ LossInv)'
  BY NextKeeps, LossNext
<1>3. LogInv /\ LossInv => NoNeedlessLoss
  BY LossInvLoses
<1> QED BY <1>1, <1>2, <1>3, PTL DEF LogSpec

=============================================================================
