--------------------------- MODULE NanoEncodeProofs ---------------------------
(***************************************************************************)
(* Proof that the lengths nanopb writes are true, for any tables, contents *)
(* and buffers, and whatever the callbacks write.                          *)
(***************************************************************************)
EXTENDS NanoEncode, SequenceTheorems, WellFoundedInduction, TLAPS

Elements == (DOMAIN Field \cup {0}) \X Nat
Paths == Seq(Elements)
ByteType == [of : Paths, len : Nat \cup {NoLength}]
NoRepeats(s) == \A i, j \in DOMAIN s : s[i] = s[j] => i = j
Tags == {s \in Seq(DOMAIN Field) : NoRepeats(s)}
FrameType ==
    [type : DOMAIN Order, path : Paths, todo : Tags, item : Nat, sizing : BOOLEAN,
     written : Nat, max : Nat]

\* The path p leads to w, or through it.
Under(p, w) == Len(p) <= Len(w) /\ \A i \in 1 .. Len(p) : p[i] = w[i]

\* A message is done with the item e: its field is, or the array is past it.
ToDo(f) == {f.todo[i] : i \in DOMAIN f.todo}
Spent(f, e) == e[1] \notin ToDo(f) \/ (e[1] = Head(f.todo) /\ e[2] < f.item)

\* What may still be written: the rest of a message of the stack, all of one that is
\* only counted so far.
Live(st, w) ==
    \E k \in DOMAIN st :
        /\ Under(st[k].path, w)
        /\ st[k].sizing \/ Len(w) = k - 1 \/ ~Spent(st[k], w[k])
Closed(st, q) == \A w \in Paths : Live(st, w) => ~Under(q, w)

\* Only an array of messages is left half done.
ItemOK(f) == f.item # 0 => f.todo # << >> /\ Field[Head(f.todo)].l = "message"

\* Each message is an item of the one below, which counts it as done; below a message that
\* is written all are.
StackOK(st) ==
    /\ st \in Seq(FrameType) /\ st # << >>
    /\ ~st[1].sizing
    /\ \A i \in DOMAIN st : Len(st[i].path) = i - 1 /\ ItemOK(st[i])
    /\ \A i, j \in DOMAIN st : i < j =>
          /\ Under(st[i].path, st[j].path)
          /\ st[i].sizing => st[j].sizing
          /\ Spent(st[i], st[j].path[i])

\* The length of a message that is being written stands at base, what it has written so
\* far follows, and what it may write ends where the message below it does, or before.
SpaceAt(st, ou, base, i) ==
    /\ st[i].written <= st[i].max
    /\ IF i < Len(st) /\ ~st[i + 1].sizing THEN base[i + 1] = base[i] + st[i].written
       ELSE Len(ou) = base[i] + st[i].written
    /\ i > 1 => base[i] \in DOMAIN ou /\ ou[base[i]] = Byte(st[i].path, st[i].max)
    /\ \A j \in DOMAIN st :
          i < j /\ ~st[j].sizing => base[j] + st[j].max <= base[i] + st[i].max
SpaceOK(st, ou, base) ==
    /\ base \in [DOMAIN st -> Nat] /\ base[1] = 0
    /\ \A i \in DOMAIN st : ~st[i].sizing => SpaceAt(st, ou, base, i)

\* A length is followed by that many bytes of its message and by no other, as far as
\* anything is written; and either they are all there and no more will come, or the
\* message is on the stack.
Covers(ou, p) ==
    \A j \in p + 1 .. Len(ou) : Under(ou[p].of, ou[j].of) <=> j <= p + ou[p].len
LengthsOK(st, ou, base) ==
    \A p \in DOMAIN ou : ou[p].len # NoLength =>
        /\ Covers(ou, p)
        /\ \/ p + ou[p].len <= Len(ou) /\ Closed(st, ou[p].of)
           \/ \E i \in 2 .. Len(st) : ~st[i].sizing /\ base[i] = p

Good(st, ou, base) ==
    /\ StackOK(st) /\ ou \in Seq(ByteType)
    /\ SpaceOK(st, ou, base) /\ LengthsOK(st, ou, base)

EncodeInv ==
    /\ value \in [DOMAIN Contents -> Nat]
    /\ \E base \in [DOMAIN stack -> Nat] : Good(stack, out, base)
    /\ result = "ok" => Len(stack) = 1

-----------------------------------------------------------------------------
(* Paths *)

LEMMA PrefixIsUnder ==
  ASSUME NEW p \in Paths, NEW w \in Paths
  PROVE  IsPrefix(p, w) <=> Under(p, w)
<1>1. CASE Len(p) <= Len(w)
  <2>1. /\ SubSeq(p, 1, Len(p)) = [i \in 1 .. Len(p) |-> p[i]]
        /\ SubSeq(w, 1, Len(p)) = [i \in 1 .. Len(p) |-> w[i]]
    BY <1>1 DEF Paths
  <2> QED BY <1>1, <2>1 DEF IsPrefix, Under
<1> QED BY <1>1 DEF IsPrefix, Under

LEMMA UnderSelf == ASSUME NEW p PROVE Under(p, p)
BY DEF Under

LEMMA UnderTrans ==
  ASSUME NEW p \in Paths, NEW q \in Paths, NEW w \in Paths, Under(p, q), Under(q, w)
  PROVE  Under(p, w)
BY DEF Under, Paths

LEMMA UnderAppend ==
  ASSUME NEW p \in Paths, NEW e \in Elements
  PROVE  /\ Append(p, e) \in Paths /\ Len(Append(p, e)) = Len(p) + 1
         /\ Under(p, Append(p, e)) /\ Append(p, e)[Len(p) + 1] = e
         /\ \A i \in 1 .. Len(p) : Append(p, e)[i] = p[i]
BY DEF Under, Paths

-----------------------------------------------------------------------------
(* The stack *)

LEMMA ClosedStays ==
  ASSUME NEW st, NEW st1, NEW q, Closed(st, q), \A w \in Paths : Live(st1, w) => Live(st, w)
  PROVE  Closed(st1, q)
BY DEF Closed

\* st1 is st with another top.
Replaced(st, st1, f) ==
    /\ st1 \in Seq(FrameType) /\ Len(st1) = Len(st) /\ st1[Len(st)] = f
    /\ \A i \in 1 .. Len(st) - 1 : st1[i] = st[i]

\* f is the message t a bit later.
GetsOn(t, f) ==
    /\ f.path = t.path /\ f.sizing = t.sizing /\ f.max = t.max
    /\ ItemOK(f)
    /\ \A e \in Elements : Spent(t, e) => Spent(f, e)

LEMMA FrontIs ==
  ASSUME NEW s \in Seq(FrameType), s # << >>
  PROVE  /\ Front(s) \in Seq(FrameType) /\ Len(Front(s)) = Len(s) - 1
         /\ \A i \in 1 .. Len(s) - 1 : Front(s)[i] = s[i]
<1> DEFINE m == Len(s) - 1
<1>1. Len(s) \in Nat /\ Len(s) >= 1
  OBVIOUS
<1>2. m \in Nat
  BY <1>1
<1>3. \A i \in 1 .. m : s[i] \in FrameType
  BY <1>1
<1>4. Front(s) = SubSeq(s, 1, m)
  BY DEF Front
<1> HIDE DEF m
<1>5. /\ SubSeq(s, 1, m) \in Seq(FrameType)
      /\ Len(SubSeq(s, 1, m)) = IF 1 <= m THEN m - 1 + 1 ELSE 0
      /\ \A i \in 1 .. m - 1 + 1 : SubSeq(s, 1, m)[i] = s[1 + i - 1]
  BY <1>2, <1>3, SubSeqProperties, Z3
<1>6. m - 1 + 1 = m /\ (IF 1 <= m THEN m - 1 + 1 ELSE 0) = m
  BY <1>2
<1>7. ASSUME NEW i \in 1 .. m PROVE SubSeq(s, 1, m)[i] = s[i]
  <2>1. 1 + i - 1 = i
    OBVIOUS
  <2> QED BY <2>1, <1>5, <1>6
<1> QED BY <1>4, <1>5, <1>6, <1>7, Zenon DEF m

LEMMA ReplacedTop ==
  ASSUME NEW s \in Seq(FrameType), s # << >>, NEW f \in FrameType
  PROVE  Replaced(s, Append(Front(s), f), f)
BY FrontIs DEF Replaced

LEMMA StackLength ==
  ASSUME NEW st, StackOK(st)
  PROVE  \E n \in Nat : n = Len(st) /\ n >= 1
BY DEF StackOK

\* The top of the stack gets on.
LEMMA StackGrows ==
  ASSUME NEW st, StackOK(st), NEW f \in FrameType, NEW st1,
         Replaced(st, st1, f),
         GetsOn(st[Len(st)], f)
  PROVE  /\ StackOK(st1) /\ Len(st1) = Len(st)
         /\ \A w \in Paths : Live(st1, w) => Live(st, w)
<1>0. PICK n \in Nat : n = Len(st) /\ n >= 1
  BY StackLength DEF Good
<1> USE <1>0
<1>1. /\ st \in Seq(FrameType) /\ n \in Nat /\ n >= 1 /\ DOMAIN st = 1 .. n
  BY DEF StackOK
<1>2. /\ st1 \in Seq(FrameType) /\ Len(st1) = n /\ DOMAIN st1 = 1 .. n
      /\ st1[n] = f /\ \A i \in 1 .. n - 1 : st1[i] = st[i]
  BY <1>1 DEF Replaced
<1>3. \A i \in 1 .. n : st1[i].path = st[i].path /\ st1[i].sizing = st[i].sizing
  BY <1>1, <1>2 DEF GetsOn
<1>4. \A i \in 1 .. n : ItemOK(st1[i])
  BY <1>1, <1>2 DEF StackOK, GetsOn
<1>5. StackOK(st1)
  <2>1. st1 # << >> /\ ~st1[1].sizing
    <3>1. 1 \in 1 .. n
      BY <1>1
    <3>2. ~st1[1].sizing
      BY <3>1, <1>3 DEF StackOK
    <3>3. st1 # << >>
      BY <1>1, <1>2
    <3> QED BY <3>2, <3>3
  <2>2. \A i \in DOMAIN st1 : Len(st1[i].path) = i - 1 /\ ItemOK(st1[i])
    BY <1>1, <1>2, <1>3, <1>4 DEF StackOK
  <2>3. ASSUME NEW i \in DOMAIN st1, NEW j \in DOMAIN st1, i < j
        PROVE  /\ Under(st1[i].path, st1[j].path)
               /\ st1[i].sizing => st1[j].sizing
               /\ Spent(st1[i], st1[j].path[i])
    <3>1. st1[i] = st[i]
      <4>1. i \in 1 .. n /\ j \in 1 .. n
        BY <1>2
      <4>2. i \in 1 .. n - 1
        BY <4>1, <1>1, <2>3
      <4> QED BY <4>2, <1>2
    <3> QED BY <3>1, <1>1, <1>2, <1>3, <2>3 DEF StackOK
  <2> QED BY <2>1, <2>2, <2>3, <1>2 DEF StackOK
<1>6. ASSUME NEW w \in Paths, Live(st1, w) PROVE Live(st, w)
  <2>1. PICK k \in 1 .. n : /\ Under(st1[k].path, w)
                            /\ st1[k].sizing \/ Len(w) = k - 1 \/ ~Spent(st1[k], w[k])
    BY <1>6, <1>2 DEF Live
  <2>2. Under(st[k].path, w)
    BY <2>1, <1>3
  <2>3. st[k].sizing \/ Len(w) = k - 1 \/ ~Spent(st[k], w[k])
    <3>1. CASE k # n
      BY <3>1, <2>1, <1>2
    <3>2. CASE k = n /\ ~st1[k].sizing /\ Len(w) # k - 1
      <4>1. Len(st[k].path) = k - 1
        BY <1>1 DEF StackOK
      <4>2. k \in 1 .. Len(w)
        BY <4>1, <2>2, <3>2 DEF Under, Paths
      <4>3. w[k] \in Elements
        BY <4>2 DEF Paths
      <4> QED BY <4>3, <3>2, <2>1, <1>2 DEF GetsOn
    <3> QED BY <3>1, <3>2, <2>1, <1>3
  <2> QED BY <2>2, <2>3, <1>1 DEF Live
<1> QED BY <1>2, <1>5, <1>6

\* What leads to the top of the stack leads to what is written there.
LEMMA UnderTop ==
  ASSUME NEW st, StackOK(st), NEW i \in DOMAIN st, NEW w \in Paths,
         Under(st[Len(st)].path, w)
  PROVE  Under(st[i].path, w)
<1>1. Len(st) \in DOMAIN st /\ st[i].path \in Paths /\ st[Len(st)].path \in Paths
  <2>1. st \in Seq(FrameType) /\ st # << >>
    BY DEF StackOK
  <2>2. Len(st) \in DOMAIN st
    BY <2>1
  <2>3. st[i] \in FrameType /\ st[Len(st)] \in FrameType
    BY <2>1, <2>2
  <2> QED BY <2>2, <2>3 DEF FrameType
<1>2. CASE i = Len(st)
  BY <1>2
<1>3. CASE i < Len(st)
  <2>1. Under(st[i].path, st[Len(st)].path)
    BY <1>1, <1>3 DEF StackOK
  <2> QED BY <2>1, <1>1, UnderTrans
<1>4. i <= Len(st)
  BY DEF StackOK
<1> QED BY <1>1, <1>2, <1>3, <1>4 DEF StackOK

\* The stack without its top.
LEMMA StackFront ==
  ASSUME NEW st, StackOK(st), Len(st) > 1
  PROVE  /\ StackOK(Front(st)) /\ Len(Front(st)) = Len(st) - 1
         /\ \A i \in 1 .. Len(st) - 1 : Front(st)[i] = st[i]
         /\ \A w \in Paths : Live(Front(st), w) => Live(st, w)
<1>0. PICK n \in Nat : n = Len(st) /\ n >= 1
  BY StackLength DEF Good
<1> USE <1>0
<1> DEFINE fr == Front(st)
<1>1. st \in Seq(FrameType) /\ st # << >> /\ n \in Nat /\ DOMAIN st = 1 .. n
  BY DEF StackOK
<1>2. fr \in Seq(FrameType) /\ Len(fr) = n - 1 /\ \A i \in 1 .. n - 1 : fr[i] = st[i]
  BY <1>1, FrontIs, Zenon
<1> HIDE DEF fr
<1>3. DOMAIN fr = 1 .. n - 1 /\ 1 \in 1 .. n - 1 /\ \A i \in 1 .. n - 1 : i \in 1 .. n
  BY <1>1, <1>2
<1>4. fr # << >>
  BY <1>2, <1>3
<1>5. StackOK(fr)
  BY <1>1, <1>2, <1>3, <1>4 DEF StackOK
<1>6. ASSUME NEW w \in Paths, Live(fr, w) PROVE Live(st, w)
  BY <1>1, <1>2, <1>3, <1>6 DEF Live
<1> QED BY <1>2, <1>5, <1>6 DEF fr

-----------------------------------------------------------------------------
(* What a message that is only counted does *)

LEMMA LengthsStay ==
  ASSUME NEW st, NEW st1, NEW ou, NEW base, NEW base1, LengthsOK(st, ou, base),
         \A w \in Paths : Live(st1, w) => Live(st, w),
         \A i \in 2 .. Len(st) : ~st[i].sizing =>
             i \in 2 .. Len(st1) /\ ~st1[i].sizing /\ base1[i] = base[i]
  PROVE  LengthsOK(st1, ou, base1)
<1> SUFFICES ASSUME NEW p \in DOMAIN ou, ou[p].len # NoLength
             PROVE  /\ Covers(ou, p)
                    /\ \/ p + ou[p].len <= Len(ou) /\ Closed(st1, ou[p].of)
                       \/ \E i \in 2 .. Len(st1) : ~st1[i].sizing /\ base1[i] = p
  BY DEF LengthsOK
<1>1. Covers(ou, p)
  BY DEF LengthsOK
<1>2. CASE p + ou[p].len <= Len(ou) /\ Closed(st, ou[p].of)
  BY <1>1, <1>2, ClosedStays
<1>3. CASE \E i \in 2 .. Len(st) : ~st[i].sizing /\ base[i] = p
  BY <1>1, <1>3
<1> QED BY <1>2, <1>3 DEF LengthsOK

LEMMA SizingGrows ==
  ASSUME NEW st, NEW ou, NEW base, Good(st, ou, base), st[Len(st)].sizing,
         NEW f \in FrameType, NEW st1, Replaced(st, st1, f), GetsOn(st[Len(st)], f)
  PROVE  Good(st1, ou, base)
<1>0. PICK n \in Nat : n = Len(st) /\ n >= 1
  BY StackLength DEF Good
<1> USE <1>0
<1>1. StackOK(st) /\ st \in Seq(FrameType) /\ n \in Nat /\ n >= 1 /\ DOMAIN st = 1 .. n
  BY DEF Good, StackOK
<1>2. /\ StackOK(st1) /\ Len(st1) = n /\ DOMAIN st1 = 1 .. n
      /\ \A w \in Paths : Live(st1, w) => Live(st, w)
  BY <1>1, StackGrows DEF Replaced
<1>8. \A i \in 1 .. n : i = n \/ i \in 1 .. n - 1
  <2>1. n \in Nat
    BY <1>1
  <2> QED BY <2>1
<1>4. \A i \in 1 .. n : st1[i].sizing = st[i].sizing
  BY <1>8 DEF Replaced, GetsOn
<1>3. \A i \in 1 .. n : ~st1[i].sizing => i \in 1 .. n - 1
  BY <1>8, <1>4
<1>5. \A i \in 1 .. n : ~st1[i].sizing => st1[i] = st[i]
  BY <1>3 DEF Replaced
<1>6. SpaceOK(st1, ou, base)
  <2>1. base \in [DOMAIN st1 -> Nat] /\ base[1] = 0
    BY <1>1, <1>2 DEF Good, SpaceOK, SpaceAt
  <2> SUFFICES ASSUME NEW i \in 1 .. n, ~st1[i].sizing PROVE SpaceAt(st1, ou, base, i)
    BY <2>1, <1>2 DEF SpaceOK
  <2>2. st1[i] = st[i] /\ ~st[i].sizing /\ (i < n => i + 1 \in 1 .. n)
    BY <1>1, <1>4, <1>5
  <2>3. i < n => st1[i + 1].sizing = st[i + 1].sizing
    BY <2>2, <1>4
  <2>4. SpaceAt(st, ou, base, i)
    BY <2>2, <1>1 DEF Good, SpaceOK
  <2>5. \A j \in DOMAIN st1 : ~st1[j].sizing => j \in DOMAIN st /\ ~st[j].sizing /\ st1[j] = st[j]
    BY <1>1, <1>2, <1>4, <1>5
  <2> QED BY <2>2, <2>3, <2>4, <2>5, <1>2 DEF SpaceAt
<1>7. LengthsOK(st1, ou, base)
  <2>1. \A i \in 2 .. Len(st) : i \in 1 .. n
    BY <1>1
  <2>2. LengthsOK(st, ou, base)
    BY DEF Good
  <2> QED BY <2>1, <2>2, <1>2, <1>4, LengthsStay
<1> QED BY <1>2, <1>6, <1>7 DEF Good

LEMMA SizingPops ==
  ASSUME NEW st, NEW ou, NEW base, Good(st, ou, base), st[Len(st)].sizing, Len(st) > 1
  PROVE  Good(Front(st), ou, [i \in 1 .. Len(st) - 1 |-> base[i]])
<1>0. PICK n \in Nat : n = Len(st) /\ n >= 1
  BY StackLength DEF Good
<1> USE <1>0
<1> DEFINE fr == Front(st)
           base1 == [i \in 1 .. Len(st) - 1 |-> base[i]]
<1>1. StackOK(st) /\ st \in Seq(FrameType) /\ n \in Nat /\ n > 1 /\ DOMAIN st = 1 .. n
  BY DEF Good, StackOK
<1>2. /\ StackOK(fr) /\ Len(fr) = n - 1 /\ \A i \in 1 .. n - 1 : fr[i] = st[i]
      /\ \A w \in Paths : Live(fr, w) => Live(st, w)
  BY <1>1, StackFront, Zenon
<1>3. fr \in Seq(FrameType)
  BY <1>2 DEF StackOK
<1> HIDE DEF fr
<1>4. DOMAIN fr = 1 .. n - 1 /\ \A i \in 1 .. n - 1 : i \in 1 .. n /\ base1[i] = base[i]
  BY <1>1, <1>2, <1>3
<1>5. SpaceOK(fr, ou, base1)
  <2>1. base1 \in [DOMAIN fr -> Nat] /\ base1[1] = 0
    BY <1>1, <1>4 DEF Good, SpaceOK, SpaceAt
  <2> HIDE DEF base1
  <2> SUFFICES ASSUME NEW i \in 1 .. n - 1, ~fr[i].sizing PROVE SpaceAt(fr, ou, base1, i)
    BY <2>1, <1>2, <1>4 DEF SpaceOK
  <2>2. i \in 1 .. n /\ fr[i] = st[i] /\ base1[i] = base[i]
    BY <1>2, <1>4
  <2>3. IF i < n - 1 /\ ~fr[i + 1].sizing THEN base1[i + 1] = base1[i] + fr[i].written
        ELSE Len(ou) = base1[i] + fr[i].written
    <3>1. IF i < n /\ ~st[i + 1].sizing THEN base[i + 1] = base[i] + st[i].written
          ELSE Len(ou) = base[i] + st[i].written
      BY <2>2, <1>1 DEF Good, SpaceOK, SpaceAt
    <3>2. CASE i < n - 1
      <4>1. i + 1 \in 1 .. n - 1
        BY <3>2, <1>1
      <4>2. fr[i + 1] = st[i + 1] /\ base1[i + 1] = base[i + 1]
        BY <4>1, <1>2, <1>4
      <4> QED BY <4>2, <3>1, <3>2, <2>2, <1>1
    <3>3. CASE ~(i < n - 1)
      <4>1. i + 1 = n
        <5>1. n \in Nat
          BY <1>1
        <5> QED BY <5>1, <3>3
      <4> QED BY <4>1, <3>1, <3>3, <2>2
    <3> QED BY <3>2, <3>3
  <2> QED BY <2>2, <2>3, <1>1, <1>2, <1>4 DEF Good, SpaceOK, SpaceAt
<1>6. LengthsOK(fr, ou, base1)
  <2>1. ASSUME NEW i \in 2 .. n, ~st[i].sizing
        PROVE  i \in 2 .. Len(fr) /\ ~fr[i].sizing /\ base1[i] = base[i]
    <3>1. i \in 1 .. n - 1 /\ i \in 2 .. n - 1
      BY <1>1, <2>1
    <3> QED BY <3>1, <2>1, <1>2, <1>4
  <2>2. LengthsOK(st, ou, base)
    BY DEF Good
  <2> QED BY <2>1, <2>2, <1>2, LengthsStay
<1> QED BY <1>2, <1>5, <1>6 DEF Good, fr

\* A message is put on the stack.
LEMMA StackPush ==
  ASSUME NEW st, StackOK(st), NEW g \in FrameType, ItemOK(g), NEW st1,
         st1 \in Seq(FrameType), Len(st1) = Len(st) + 1, st1[Len(st) + 1] = g,
         \A i \in 1 .. Len(st) : st1[i] = st[i],
         NEW e \in Elements, g.path = Append(st[Len(st)].path, e),
         Spent(st[Len(st)], e), st[Len(st)].sizing => g.sizing
  PROVE  /\ StackOK(st1)
         /\ \A w \in Paths : Live(st1, w) => Live(st, w) \/ Under(g.path, w)
<1>0. PICK n \in Nat : n = Len(st) /\ n >= 1
  BY StackLength DEF Good
<1> USE <1>0
<1>1. /\ st \in Seq(FrameType) /\ n \in Nat /\ n >= 1 /\ DOMAIN st = 1 .. n
      /\ DOMAIN st1 = 1 .. n + 1
  BY DEF StackOK
<1>2. \A i \in 1 .. n + 1 : i = n + 1 \/ i \in 1 .. n
  <2>1. n \in Nat
    BY <1>1
  <2> QED BY <2>1
<1>3. n \in 1 .. n /\ 1 \in 1 .. n
  BY <1>1
<1>4. st[n] \in FrameType /\ st[n].path \in Paths /\ Len(st[n].path) = n - 1
  <2>1. st[n] \in FrameType
    BY <1>1, <1>3
  <2>2. Len(st[n].path) = n - 1
    BY <1>1, <1>3 DEF StackOK
  <2> QED BY <2>1, <2>2 DEF FrameType
<1>5. /\ g.path \in Paths /\ Len(g.path) = n /\ g.path[n] = e
      /\ Under(st[n].path, g.path) /\ \A i \in 1 .. n - 1 : g.path[i] = st[n].path[i]
  <2>1. Len(st[n].path) + 1 = n
    BY <1>4, <1>1
  <2> QED BY <1>4, <2>1, UnderAppend
<1>6. StackOK(st1)
  <2>1. st1 # << >> /\ ~st1[1].sizing
    <3>1. ~st1[1].sizing
      BY <1>3 DEF StackOK
    <3>2. 1 \in DOMAIN st1
      BY <1>1
    <3> QED BY <3>1, <3>2
  <2>2. \A i \in DOMAIN st1 : Len(st1[i].path) = i - 1 /\ ItemOK(st1[i])
    BY <1>1, <1>2, <1>5 DEF StackOK
  <2>3. ASSUME NEW i \in DOMAIN st1, NEW j \in DOMAIN st1, i < j
        PROVE  /\ Under(st1[i].path, st1[j].path)
               /\ st1[i].sizing => st1[j].sizing
               /\ Spent(st1[i], st1[j].path[i])
    <3>1. i \in 1 .. n /\ st1[i] = st[i]
      BY <1>1, <2>3
    <3>2. CASE j \in 1 .. n
      BY <3>1, <3>2, <1>1, <2>3 DEF StackOK
    <3>3. CASE j = n + 1
      <4>1. Under(st[i].path, g.path)
        BY <3>1, <1>1, <1>5, UnderTop
      <4>2. CASE i = n
        BY <4>1, <4>2, <3>1, <3>3, <1>5
      <4>3. CASE i # n
        <5>1. i < n /\ i \in 1 .. n - 1
          BY <4>3, <3>1, <1>1
        <5>2. (st[i].sizing => st[n].sizing) /\ Spent(st[i], st[n].path[i])
          BY <5>1, <3>1, <1>1, <1>3 DEF StackOK
        <5> QED BY <4>1, <5>1, <5>2, <3>1, <3>3, <1>5
      <4> QED BY <4>2, <4>3
    <3> QED BY <3>2, <3>3, <1>1, <1>2
  <2> QED BY <2>1, <2>2, <2>3 DEF StackOK
<1>7. ASSUME NEW w \in Paths, Live(st1, w) PROVE Live(st, w) \/ Under(g.path, w)
  BY <1>1, <1>2, <1>7 DEF Live
<1> QED BY <1>6, <1>7

\* A message is counted: what it will write was still to come.
LEMMA SizingPushed ==
  ASSUME NEW st, NEW ou, NEW base, Good(st, ou, base),
         NEW e \in Elements, ~Spent(st[Len(st)], e),
         NEW f \in FrameType, GetsOn(st[Len(st)], f), f.written = st[Len(st)].written,
         Spent(f, e),
         NEW g \in FrameType, ItemOK(g), g.path = Append(f.path, e), g.sizing,
         NEW st1, st1 \in Seq(FrameType), Len(st1) = Len(st) + 1,
         st1[Len(st) + 1] = g, st1[Len(st)] = f,
         \A i \in 1 .. Len(st) - 1 : st1[i] = st[i]
  PROVE  Good(st1, ou, [i \in 1 .. Len(st) + 1 |-> IF i <= Len(st) THEN base[i] ELSE 0])
<1>0. PICK n \in Nat : n = Len(st) /\ n >= 1
  BY StackLength DEF Good
<1> USE <1>0
<1> DEFINE base1 == [i \in 1 .. Len(st) + 1 |-> IF i <= Len(st) THEN base[i] ELSE 0]
           mid == Append(Front(st), f)
<1>1. /\ StackOK(st) /\ st \in Seq(FrameType) /\ st # << >> /\ n \in Nat /\ n >= 1
      /\ DOMAIN st = 1 .. n /\ DOMAIN st1 = 1 .. n + 1
  BY DEF Good, StackOK
<1>2. Replaced(st, mid, f)
  BY <1>1, ReplacedTop
<1>3. /\ StackOK(mid) /\ Len(mid) = n /\ mid[n] = f
      /\ \A w \in Paths : Live(mid, w) => Live(st, w)
  BY <1>1, <1>2, StackGrows DEF Replaced
<1> HIDE DEF mid
<1>4. /\ \A i \in 1 .. n : i = n \/ i \in 1 .. n - 1
      /\ \A i \in 1 .. n + 1 : i = n + 1 \/ i \in 1 .. n
      /\ n \in 1 .. n /\ n + 1 \in 1 .. n + 1
  <2>1. n \in Nat /\ n >= 1
    BY <1>1
  <2> QED BY <2>1
<1>5. \A i \in 1 .. n : st1[i] = mid[i]
  BY <1>2, <1>3, <1>4 DEF Replaced
<1>6. /\ StackOK(st1)
      /\ \A w \in Paths : Live(st1, w) => Live(mid, w) \/ Under(g.path, w)
  <2>1. /\ Len(st1) = Len(mid) + 1 /\ st1[Len(mid) + 1] = g
        /\ \A i \in 1 .. Len(mid) : st1[i] = mid[i]
        /\ g.path = Append(mid[Len(mid)].path, e) /\ Spent(mid[Len(mid)], e)
        /\ mid[Len(mid)].sizing => g.sizing
    BY <1>3, <1>5
  <2> QED BY <2>1, <1>3, StackPush
<1>7. ASSUME NEW w \in Paths, Live(st1, w) PROVE Live(st, w)
  <2>1. CASE Under(g.path, w)
    <3>1. st[n] \in FrameType /\ st[n].path \in Paths /\ Len(st[n].path) + 1 = n
      <4>1. st[n] \in FrameType
        BY <1>1, <1>4
      <4>2. Len(st[n].path) = n - 1
        BY <1>1, <1>4 DEF StackOK
      <4> QED BY <4>1, <4>2 DEF FrameType
    <3>2. g.path \in Paths /\ Len(g.path) = n /\ g.path[n] = e /\ Under(st[n].path, g.path)
      BY <3>1, UnderAppend DEF GetsOn
    <3>3. Under(st[n].path, w)
      BY <3>1, <3>2, <2>1, UnderTrans
    <3>4. w[n] = e
      BY <3>2, <2>1, <1>4 DEF Under
    <3> QED BY <3>3, <3>4, <1>1, <1>4 DEF Live
  <2> QED BY <2>1, <1>6, <1>3, <1>7
<1>8. /\ \A i \in 1 .. n : base1[i] = base[i] /\ i \in 1 .. n + 1
      /\ base1 \in [1 .. n + 1 -> Nat]
  <2>1. n \in Nat /\ \A i \in 1 .. n : base[i] \in Nat
    BY <1>1 DEF Good, SpaceOK
  <2> QED BY <2>1
<1> HIDE DEF base1
<1>9. \A i \in 1 .. n : st1[i].sizing = st[i].sizing /\ st1[i].path = st[i].path
        /\ st1[i].written = st[i].written /\ st1[i].max = st[i].max
  BY <1>4 DEF GetsOn
<1>10. SpaceOK(st1, ou, base1)
  <2>1. base1 \in [DOMAIN st1 -> Nat] /\ base1[1] = 0
    <3>1. 1 \in 1 .. n
      BY <1>1
    <3> QED BY <3>1, <1>1, <1>8 DEF Good, SpaceOK
  <2> SUFFICES ASSUME NEW i \in 1 .. n + 1, ~st1[i].sizing PROVE SpaceAt(st1, ou, base1, i)
    BY <2>1, <1>1 DEF SpaceOK
  <2>2. i \in 1 .. n /\ ~st[i].sizing
    BY <1>4, <1>9
  <2>3. SpaceAt(st, ou, base, i)
    BY <2>2, <1>1 DEF Good, SpaceOK
  <2>4. IF i < n + 1 /\ ~st1[i + 1].sizing THEN base1[i + 1] = base1[i] + st1[i].written
        ELSE Len(ou) = base1[i] + st1[i].written
    <3>1. CASE i = n
      BY <3>1, <2>3, <1>4, <1>8, <1>9 DEF SpaceAt
    <3>2. CASE i # n
      <4>1. i < n /\ i + 1 \in 1 .. n /\ i < n + 1
        BY <3>2, <2>2, <1>1
      <4> QED BY <4>1, <2>2, <2>3, <1>8, <1>9 DEF SpaceAt
    <3> QED BY <3>1, <3>2
  <2>5. \A j \in 1 .. n + 1 : ~st1[j].sizing => j \in 1 .. n /\ ~st[j].sizing
    BY <1>4, <1>9
  <2> QED BY <2>2, <2>3, <2>4, <2>5, <1>1, <1>8, <1>9 DEF SpaceAt
<1>11. LengthsOK(st1, ou, base1)
  <2>1. \A i \in 2 .. Len(st) : i \in 1 .. n /\ i \in 2 .. Len(st1)
    BY <1>1
  <2>2. LengthsOK(st, ou, base)
    BY DEF Good
  <2> QED BY <2>1, <2>2, <1>7, <1>8, <1>9, LengthsStay, SMTT(30)
<1> QED BY <1>6, <1>10, <1>11 DEF Good, base1

-----------------------------------------------------------------------------
(* What a message that is written does *)

\* A message below one that is written has room for what that one may write.
LEMMA RoomBelow ==
  ASSUME NEW st, NEW ou, NEW base, StackOK(st), SpaceOK(st, ou, base),
         NEW t \in DOMAIN st, ~st[t].sizing, NEW i \in DOMAIN st, i <= t
  PROVE  /\ ~st[i].sizing
         /\ base[t] \in Nat /\ base[i] \in Nat /\ st[t].max \in Nat /\ st[i].max \in Nat
         /\ base[t] + st[t].max <= base[i] + st[i].max
<1>0. PICK n \in Nat : n = Len(st) /\ n >= 1
  BY StackLength
<1>1. st \in Seq(FrameType) /\ DOMAIN st = 1 .. n
  BY <1>0 DEF StackOK
<1>2. st[i] \in FrameType /\ st[t] \in FrameType
  BY <1>1, <1>0
<1>3. base[t] \in Nat /\ base[i] \in Nat /\ st[t].max \in Nat /\ st[i].max \in Nat
  BY <1>2 DEF SpaceOK, FrameType
<1>4. CASE i = t
  BY <1>3, <1>4
<1>5. CASE i < t
  <2>1. ~st[i].sizing
    BY <1>5, <1>1 DEF StackOK
  <2>2. SpaceAt(st, ou, base, i)
    BY <2>1 DEF SpaceOK
  <2> QED BY <2>1, <2>2, <1>3, <1>5 DEF SpaceAt
<1>6. i = t \/ i < t
  BY <1>1
<1> QED BY <1>4, <1>5, <1>6

\* What comes after a length, if it can be written, is within what the length says, or
\* does not belong to it.
LEMMA CoversMore ==
  ASSUME NEW st, NEW ou, NEW base, Good(st, ou, base),
         NEW p \in DOMAIN ou, ou[p].len # NoLength,
         NEW t \in DOMAIN st, ~st[t].sizing, \A i \in DOMAIN st : i > t => st[i].sizing,
         NEW w \in Paths, Live(st, w), Under(st[t].path, w),
         NEW j \in Nat, j > Len(ou), j <= base[t] + st[t].max
  PROVE  Under(ou[p].of, w) <=> j <= p + ou[p].len
<1>0. PICK n \in Nat : n = Len(st) /\ n >= 1
  BY StackLength DEF Good
<1>1. StackOK(st) /\ SpaceOK(st, ou, base) /\ st \in Seq(FrameType) /\ DOMAIN st = 1 .. n
  BY <1>0 DEF Good, StackOK
<1>2. /\ ou \in Seq(ByteType) /\ Len(ou) \in Nat /\ p \in 1 .. Len(ou)
      /\ ou[p].of \in Paths /\ ou[p].len \in Nat
  <2>1. ou \in Seq(ByteType)
    BY DEF Good
  <2>2. ou[p] \in ByteType
    BY <2>1
  <2> QED BY <2>1, <2>2 DEF ByteType
<1>3. CASE p + ou[p].len <= Len(ou) /\ Closed(st, ou[p].of)
  <2>1. ~Under(ou[p].of, w)
    BY <1>3 DEF Closed
  <2>2. ~(j <= p + ou[p].len)
    BY <1>2, <1>3
  <2> QED BY <2>1, <2>2
<1>4. CASE \E i \in 2 .. Len(st) : ~st[i].sizing /\ base[i] = p
  <2>1. PICK i \in 2 .. Len(st) : ~st[i].sizing /\ base[i] = p
    BY <1>4
  <2>2. i \in DOMAIN st /\ i > 1 /\ i <= t
    BY <2>1, <1>0, <1>1
  <2>3. ou[p] = Byte(st[i].path, st[i].max)
    <3>1. SpaceAt(st, ou, base, i)
      BY <2>1, <2>2, <1>1 DEF SpaceOK
    <3> QED BY <3>1, <2>1, <2>2 DEF SpaceAt
  <2>4. base[t] + st[t].max <= p + ou[p].len
    BY <2>1, <2>2, <2>3, <1>1, RoomBelow DEF Byte
  <2>5. j <= p + ou[p].len
    <3>1. base[t] \in Nat /\ st[t].max \in Nat
      BY <1>1, RoomBelow
    <3> QED BY <3>1, <2>4, <1>2
  <2>6. Under(ou[p].of, w)
    <3>1. /\ st[i] \in FrameType /\ st[t] \in FrameType
      BY <2>2, <1>1
    <3>2. st[i].path \in Paths /\ st[t].path \in Paths
      BY <3>1 DEF FrameType
    <3>3. CASE i = t
      BY <3>3, <2>3 DEF Byte
    <3>4. CASE i < t
      <4>1. Under(st[i].path, st[t].path)
        BY <3>4, <2>2, <1>1 DEF StackOK
      <4>2. Under(st[i].path, w)
        BY <4>1, <3>2, UnderTrans
      <4> QED BY <4>2, <2>3 DEF Byte
    <3> QED BY <3>3, <3>4, <2>2, <1>1
  <2> QED BY <2>5, <2>6
<1> QED BY <1>3, <1>4 DEF Good, LengthsOK

\* Bytes that are added as they are to what is to come, the lengths among them complete.
LEMMA WritingGrows ==
  ASSUME NEW st, NEW ou, NEW base, Good(st, ou, base), ~st[Len(st)].sizing,
         NEW f \in FrameType, NEW st1, Replaced(st, st1, f), GetsOn(st[Len(st)], f),
         NEW bytes \in Seq(ByteType),
         f.written = st[Len(st)].written + Len(bytes), f.written <= f.max,
         \A j \in DOMAIN bytes :
             Live(st, bytes[j].of) /\ Under(st[Len(st)].path, bytes[j].of),
         \A j \in DOMAIN bytes : bytes[j].len # NoLength =>
             /\ Closed(st1, bytes[j].of) /\ j + bytes[j].len <= Len(bytes)
             /\ \A k \in j + 1 .. Len(bytes) :
                    Under(bytes[j].of, bytes[k].of) <=> k <= j + bytes[j].len
  PROVE  Good(st1, ou \o bytes, base)
<1>0. PICK n \in Nat : n = Len(st) /\ n >= 1
  BY StackLength DEF Good
<1> USE <1>0
<1> DEFINE ou1 == ou \o bytes
<1>1. StackOK(st) /\ st \in Seq(FrameType) /\ DOMAIN st = 1 .. n /\ n \in 1 .. n
  BY DEF Good, StackOK
<1>2. /\ StackOK(st1) /\ Len(st1) = n /\ DOMAIN st1 = 1 .. n
      /\ \A w \in Paths : Live(st1, w) => Live(st, w)
  BY <1>1, StackGrows DEF Replaced
<1>3. PICK N \in Nat, K \in Nat : N = Len(ou) /\ K = Len(bytes)
  BY DEF Good
<1> USE <1>3
<1>4. /\ ou \in Seq(ByteType) /\ ou1 \in Seq(ByteType) /\ Len(ou1) = N + K
      /\ DOMAIN ou = 1 .. N /\ DOMAIN bytes = 1 .. K /\ DOMAIN ou1 = 1 .. N + K
      /\ \A i \in 1 .. N : ou1[i] = ou[i]
      /\ \A i \in 1 .. K : ou1[N + i] = bytes[i]
  BY DEF Good
<1> HIDE DEF ou1
<1>5. /\ \A i \in 1 .. n : i = n \/ i \in 1 .. n - 1
      /\ \A i \in 1 .. N + K : i \in 1 .. N \/ (i > N /\ i - N \in 1 .. K)
  OBVIOUS
<1>6. /\ st1[n] = f /\ \A i \in 1 .. n - 1 : st1[i] = st[i]
      /\ \A i \in 1 .. n : st1[i].sizing = st[i].sizing /\ st1[i].path = st[i].path
                          /\ st1[i].max = st[i].max
  BY <1>5 DEF Replaced, GetsOn
<1>7. st[n] \in FrameType /\ st[n].written \in Nat /\ st[n].max \in Nat /\ base[n] \in Nat
  <2>1. st[n] \in FrameType
    BY <1>1
  <2> QED BY <2>1, <1>1 DEF FrameType, Good, SpaceOK
<1>8. N = base[n] + st[n].written
  <2>1. SpaceAt(st, ou, base, n)
    BY <1>1 DEF Good, SpaceOK
  <2> QED BY <2>1 DEF SpaceAt
<1>9. N + K <= base[n] + st[n].max
  BY <1>7, <1>8 DEF GetsOn
<1>10. SpaceOK(st1, ou1, base)
  <2>1. base \in [DOMAIN st1 -> Nat] /\ base[1] = 0
    BY <1>1, <1>2 DEF Good, SpaceOK
  <2> SUFFICES ASSUME NEW i \in 1 .. n, ~st1[i].sizing PROVE SpaceAt(st1, ou1, base, i)
    BY <2>1, <1>2 DEF SpaceOK
  <2>2. SpaceAt(st, ou, base, i)
    BY <1>6, <1>1 DEF Good, SpaceOK
  <2>3. i > 1 => base[i] \in DOMAIN ou1 /\ ou1[base[i]] = Byte(st1[i].path, st1[i].max)
    <3>1. \A x \in 1 .. N : x \in 1 .. N + K
      OBVIOUS
    <3> QED BY <3>1, <2>2, <1>4, <1>6 DEF SpaceAt
  <2>4. \A j \in DOMAIN st1 :
           i < j /\ ~st1[j].sizing => base[j] + st1[j].max <= base[i] + st1[i].max
    BY <2>2, <1>1, <1>2, <1>6 DEF SpaceAt
  <2>5. CASE i = n
    <3>1. st1[i].written <= st1[i].max
      BY <2>5, <1>6
    <3>2. N + K = base[n] + st1[n].written
      BY <1>6, <1>7, <1>8
    <3> QED BY <2>3, <2>4, <2>5, <3>1, <3>2, <1>2, <1>4 DEF SpaceAt
  <2>6. CASE i # n
    <3>1. i \in 1 .. n - 1 /\ i < n /\ i + 1 \in 1 .. n /\ st1[i] = st[i]
      BY <2>6, <1>5, <1>6
    <3>2. ~st1[i + 1].sizing /\ ~st[i + 1].sizing
      <4>1. i + 1 = n \/ i + 1 < n
        BY <3>1
      <4>2. st[i + 1].sizing => st[n].sizing
        BY <4>1, <3>1, <1>1 DEF StackOK
      <4> QED BY <4>2, <3>1, <1>6
    <3> QED BY <2>2, <2>3, <2>4, <3>1, <3>2, <1>2 DEF SpaceAt
  <2> QED BY <2>5, <2>6
<1>11. LengthsOK(st1, ou1, base)
  <2> SUFFICES ASSUME NEW p \in 1 .. N + K, ou1[p].len # NoLength
               PROVE  /\ Covers(ou1, p)
                      /\ \/ p + ou1[p].len <= N + K /\ Closed(st1, ou1[p].of)
                         \/ \E i \in 2 .. n : ~st1[i].sizing /\ base[i] = p
    BY <1>2, <1>4 DEF LengthsOK
  <2>1. CASE p \in 1 .. N
    <3>1. ou1[p] = ou[p] /\ ou[p].len # NoLength /\ p \in DOMAIN ou
      BY <2>1, <1>4
    <3>2. ou[p].len \in Nat
      <4>1. ou[p] \in ByteType
        BY <3>1, <1>4
      <4> QED BY <4>1, <3>1 DEF ByteType
    <3>3. ASSUME NEW j \in p + 1 .. N + K
          PROVE  Under(ou1[p].of, ou1[j].of) <=> j <= p + ou1[p].len
      <4>1. CASE j \in 1 .. N
        <5>1. j \in p + 1 .. N /\ ou1[j] = ou[j]
          BY <4>1, <3>3, <1>4
        <5> QED BY <5>1, <3>1 DEF Good, LengthsOK, Covers
      <4>2. CASE j > N /\ j - N \in 1 .. K
        <5>1. PICK m \in 1 .. K : j = N + m
          <6>1. j = N + (j - N)
            BY <3>3
          <6> QED BY <6>1, <4>2
        <5>2. ou1[j] = bytes[m] /\ bytes[m] \in ByteType
          BY <5>1, <1>4
        <5>3. bytes[m].of \in Paths
          BY <5>2 DEF ByteType
        <5>4. Live(st, bytes[m].of) /\ Under(st[n].path, bytes[m].of)
          BY <5>1, <1>4
        <5>5. j \in Nat /\ j > Len(ou) /\ j <= base[n] + st[n].max
          BY <5>1, <1>9, <1>7
        <5>6. \A i \in DOMAIN st : i > n => st[i].sizing
          BY <1>1
        <5>7. Under(ou[p].of, bytes[m].of) <=> j <= p + ou[p].len
          BY <3>1, <5>3, <5>4, <5>5, <5>6, <1>1, CoversMore
        <5> QED BY <5>7, <5>2, <3>1
      <4> QED BY <4>1, <4>2, <1>5, <2>1
    <3>4. \/ p + ou[p].len <= N /\ Closed(st, ou[p].of)
          \/ \E i \in 2 .. n : ~st[i].sizing /\ base[i] = p
      BY <3>1 DEF Good, LengthsOK
    <3>5. CASE p + ou[p].len <= N /\ Closed(st, ou[p].of)
      <4>1. p + ou[p].len <= N + K
        BY <3>5, <3>2
      <4> QED BY <4>1, <3>1, <3>3, <3>5, <1>2, <1>4, ClosedStays DEF Covers
    <3>6. CASE \E i \in 2 .. n : ~st[i].sizing /\ base[i] = p
      <4>1. \A i \in 2 .. n : i \in 1 .. n
        OBVIOUS
      <4> QED BY <4>1, <3>3, <3>6, <1>4, <1>6 DEF Covers
    <3> QED BY <3>4, <3>5, <3>6
  <2>2. CASE p > N /\ p - N \in 1 .. K
    <3>1. PICK m \in 1 .. K : p = N + m
      BY <2>2
    <3>2. ou1[p] = bytes[m] /\ bytes[m] \in ByteType /\ bytes[m].len # NoLength
      BY <3>1, <1>4
    <3>3. bytes[m].len \in Nat
      BY <3>2 DEF ByteType
    <3>4. /\ Closed(st1, bytes[m].of) /\ m + bytes[m].len <= K
          /\ \A k \in m + 1 .. K :
                 Under(bytes[m].of, bytes[k].of) <=> k <= m + bytes[m].len
      BY <3>1, <3>2, <1>4
    <3>5. ASSUME NEW j \in p + 1 .. N + K
          PROVE  Under(ou1[p].of, ou1[j].of) <=> j <= p + ou1[p].len
      <4>1. PICK k \in m + 1 .. K : j = N + k
        <5>1. j - N \in m + 1 .. K /\ j = N + (j - N)
          BY <3>1
        <5> QED BY <5>1
      <4>2. ou1[j] = bytes[k]
        BY <4>1, <1>4
      <4>3. j <= p + bytes[m].len <=> k <= m + bytes[m].len
        BY <4>1, <3>1, <3>3, SMTT(30)
      <4> QED BY <4>1, <4>2, <4>3, <3>2, <3>4
    <3>6. p + bytes[m].len <= N + K
      BY <3>1, <3>3, <3>4
    <3> QED BY <3>2, <3>4, <3>5, <3>6, <1>4 DEF Covers
  <2> QED BY <2>1, <2>2, <1>5
<1> QED BY <1>2, <1>4, <1>10, <1>11 DEF Good, ou1

\* The length was counted, and the message is written after it.
LEMMA Opens ==
  ASSUME NEW st, NEW ou, NEW base, Good(st, ou, base), Len(st) > 1,
         st[Len(st)].sizing, ~st[Len(st) - 1].sizing,
         NEW f \in FrameType, GetsOn(st[Len(st) - 1], f),
         f.written = st[Len(st) - 1].written + 1,
         NEW g \in FrameType, ItemOK(g), g.path = st[Len(st)].path, ~g.sizing,
         g.written = 0, f.written + g.max <= f.max,
         NEW st1, st1 \in Seq(FrameType), Len(st1) = Len(st),
         st1[Len(st) - 1] = f, st1[Len(st)] = g,
         \A i \in 1 .. Len(st) - 2 : st1[i] = st[i]
  PROVE  Good(st1, Append(ou, Byte(g.path, g.max)), [base EXCEPT ![Len(st)] = Len(ou) + 1])
<1>0. PICK n \in Nat : n = Len(st) /\ n > 1
  BY StackLength DEF Good
<1> USE <1>0
<1> DEFINE ou1 == Append(ou, Byte(g.path, g.max))
           base1 == [base EXCEPT ![Len(st)] = Len(ou) + 1]
<1>1. /\ StackOK(st) /\ st \in Seq(FrameType) /\ DOMAIN st = 1 .. n /\ DOMAIN st1 = 1 .. n
      /\ n \in 1 .. n /\ n - 1 \in 1 .. n
  BY DEF Good, StackOK
<1>2. PICK N \in Nat : N = Len(ou)
  BY DEF Good
<1> USE <1>2
<1>3. st[n - 1] \in FrameType /\ st[n] \in FrameType
  BY <1>1
<1>4. /\ st[n - 1].written \in Nat /\ st[n - 1].max \in Nat /\ base[n - 1] \in Nat
      /\ g.path \in Paths /\ g.max \in Nat
  BY <1>1, <1>3 DEF FrameType, Good, SpaceOK
<1>5. /\ ou \in Seq(ByteType) /\ ou1 \in Seq(ByteType) /\ Len(ou1) = N + 1
      /\ DOMAIN ou = 1 .. N /\ DOMAIN ou1 = 1 .. N + 1
      /\ \A i \in 1 .. N : ou1[i] = ou[i]
      /\ ou1[N + 1] = Byte(g.path, g.max)
  <2>1. Byte(g.path, g.max) \in ByteType
    BY <1>4 DEF Byte, ByteType
  <2> QED BY <2>1 DEF Good
<1>6. /\ base1 \in [1 .. n -> Nat] /\ base1[n] = N + 1
      /\ \A i \in 1 .. n - 1 : base1[i] = base[i]
  <2>1. base \in [1 .. n -> Nat]
    BY <1>1 DEF Good, SpaceOK
  <2>2. N + 1 \in Nat
    OBVIOUS
  <2>3. base1 = [base EXCEPT ![n] = N + 1]
    BY DEF base1
  <2> HIDE DEF base1
  <2>4. base1 \in [1 .. n -> Nat] /\ base1[n] = N + 1
    BY <2>1, <2>2, <2>3, <1>1
  <2>5. ASSUME NEW i \in 1 .. n - 1 PROVE base1[i] = base[i]
    <3>1. i \in 1 .. n /\ i # n
      OBVIOUS
    <3> QED BY <3>1, <2>1, <2>3
  <2> QED BY <2>4, <2>5
<1> HIDE DEF ou1, base1
<1>15. /\ st1[n - 1] = f /\ st1[n] = g /\ \A i \in 1 .. n - 2 : st1[i] = st[i]
       /\ f.written = st[n - 1].written + 1 /\ f.max = st[n - 1].max
       /\ f.written \in Nat /\ f.written + g.max <= st[n - 1].max
       /\ f.path = st[n - 1].path /\ f.sizing = st[n - 1].sizing
  BY DEF GetsOn, FrameType
<1>7. /\ \A i \in 1 .. n : i = n \/ i \in 1 .. n - 1
      /\ \A i \in 1 .. n - 1 : i \in 1 .. n /\ (i = n - 1 \/ i \in 1 .. n - 2)
      /\ \A i \in 1 .. N + 1 : i \in 1 .. N \/ i = N + 1
  OBVIOUS
<1>8. /\ \A i \in 1 .. n : st1[i].path = st[i].path
      /\ \A i \in 1 .. n - 1 : st1[i].sizing = st[i].sizing /\ st1[i].max = st[i].max
  BY <1>7 DEF GetsOn
<1>9. ASSUME NEW i \in 1 .. n - 1 PROVE ~st[i].sizing
  <2>1. CASE i = n - 1
    BY <2>1
  <2>2. CASE i < n - 1
    <3>1. st[i].sizing => st[n - 1].sizing
      BY <2>2, <1>1, <1>7 DEF StackOK
    <3> QED BY <3>1
  <2> QED BY <2>1, <2>2
<1>10. StackOK(st1)
  <2>1. st1 # << >> /\ ~st1[1].sizing
    <3>1. 1 \in 1 .. n - 1 /\ 1 \in DOMAIN st1
      BY <1>1
    <3> QED BY <3>1, <1>8, <1>9
  <2>2. ASSUME NEW i \in 1 .. n PROVE Len(st1[i].path) = i - 1
    <3>1. Len(st[i].path) = i - 1
      BY <1>1 DEF StackOK
    <3> QED BY <3>1, <1>8
  <2>3. \A i \in 1 .. n : ItemOK(st1[i])
    BY <1>1, <1>7 DEF StackOK, GetsOn
  <2>4. ASSUME NEW i \in 1 .. n, NEW j \in 1 .. n, i < j
        PROVE  /\ Under(st1[i].path, st1[j].path)
               /\ st1[i].sizing => st1[j].sizing
               /\ Spent(st1[i], st1[j].path[i])
    <3>1. i \in 1 .. n - 1
      BY <2>4
    <3>2. Under(st[i].path, st[j].path) /\ Spent(st[i], st[j].path[i])
      BY <2>4, <1>1 DEF StackOK
    <3>3. Spent(st1[i], st[j].path[i])
      <4>1. CASE i \in 1 .. n - 2
        BY <4>1, <3>2
      <4>2. CASE i = n - 1
        <5>1. j = n
          BY <4>2, <2>4
        <5>2. st[n].path \in Paths /\ Len(st[n].path) = n - 1 /\ i \in 1 .. n - 1
          BY <3>1, <1>1, <1>3 DEF FrameType, StackOK
        <5>3. st[n].path[i] \in Elements
          BY <5>2 DEF Paths
        <5> QED BY <5>1, <5>3, <4>2, <3>2 DEF GetsOn
      <4> QED BY <4>1, <4>2, <3>1, <1>7
    <3> QED BY <3>1, <3>2, <3>3, <1>8, <1>9
  <2> QED BY <2>1, <2>2, <2>3, <2>4, <1>1 DEF StackOK
<1>11. ASSUME NEW w \in Paths, Live(st1, w) PROVE Live(st, w)
  <2>1. PICK k \in 1 .. n : /\ Under(st1[k].path, w)
                            /\ st1[k].sizing \/ Len(w) = k - 1 \/ ~Spent(st1[k], w[k])
    BY <1>11, <1>1 DEF Live
  <2>2. Under(st[k].path, w)
    BY <2>1, <1>8
  <2>3. CASE k = n
    BY <2>2, <2>3, <1>1 DEF Live
  <2>4. CASE k \in 1 .. n - 2
    BY <2>1, <2>4, <1>1 DEF Live
  <2>5. CASE k = n - 1 /\ Len(w) # k - 1
    <3>1. Len(st[k].path) = k - 1
      BY <1>1 DEF StackOK
    <3>2. k \in 1 .. Len(w)
      BY <3>1, <2>2, <2>5 DEF Under, Paths
    <3>3. w[k] \in Elements
      BY <3>2 DEF Paths
    <3>4. ~Spent(f, w[k])
      BY <2>1, <2>5, <1>7, <1>8, <1>9
    <3>5. ~Spent(st[k], w[k])
      BY <3>3, <3>4, <2>5 DEF GetsOn
    <3> QED BY <3>5, <2>2, <1>1 DEF Live
  <2>6. CASE k = n - 1 /\ Len(w) = k - 1
    BY <2>2, <2>6, <1>1 DEF Live
  <2> QED BY <2>3, <2>4, <2>5, <2>6, <1>7
<1>12. N = base[n - 1] + st[n - 1].written
  <2>1. SpaceAt(st, ou, base, n - 1)
    BY <1>1 DEF Good, SpaceOK
  <2> QED BY <2>1, <1>1 DEF SpaceAt
<1>16. N + 1 <= base[n - 1] + st[n - 1].max /\ N + 1 + g.max <= base[n - 1] + st[n - 1].max
  <2>1. PICK b \in Nat, w \in Nat, m \in Nat, l \in Nat, v \in Nat :
           /\ b = base[n - 1] /\ w = st[n - 1].written /\ m = st[n - 1].max /\ l = g.max
           /\ v = f.written
    BY <1>15, <1>4
  <2>2. N = b + w /\ v = w + 1 /\ v + l <= m
    BY <2>1, <1>15, <1>12
  <2>3. N + 1 <= b + m /\ N + 1 + l <= b + m
    BY <2>2
  <2> QED BY <2>1, <2>3
<1>13. SpaceOK(st1, ou1, base1)
  <2>1. base1 \in [DOMAIN st1 -> Nat] /\ base1[1] = 0
    <3>1. 1 \in 1 .. n - 1
      OBVIOUS
    <3> QED BY <3>1, <1>1, <1>6 DEF Good, SpaceOK
  <2> SUFFICES ASSUME NEW i \in 1 .. n, ~st1[i].sizing PROVE SpaceAt(st1, ou1, base1, i)
    BY <2>1, <1>1 DEF SpaceOK
  <2>2. CASE i = n
    <3>1. 0 <= g.max /\ N + 1 = base1[n] + 0
      BY <1>4, <1>6
    <3>2. base1[n] \in DOMAIN ou1 /\ ou1[base1[n]] = Byte(g.path, g.max)
      BY <1>5, <1>6
    <3>3. \A j \in DOMAIN st1 : ~(n < j)
      BY <1>1
    <3> QED BY <2>2, <3>1, <3>2, <3>3, <1>5 DEF SpaceAt
  <2>3. CASE i \in 1 .. n - 1
    <3>1. SpaceAt(st, ou, base, i)
      BY <2>3, <1>1, <1>7, <1>9 DEF Good, SpaceOK
    <3>2. i > 1 => base1[i] \in DOMAIN ou1 /\ ou1[base1[i]] = Byte(st1[i].path, st1[i].max)
      <4>1. \A x \in 1 .. N : x \in 1 .. N + 1
        OBVIOUS
      <4> QED BY <4>1, <3>1, <2>3, <1>5, <1>6, <1>8 DEF SpaceAt
    <3>3. ASSUME NEW j \in 1 .. n, i < j, ~st1[j].sizing
          PROVE  base1[j] + st1[j].max <= base1[i] + st1[i].max
      <4>1. CASE j \in 1 .. n - 1
        BY <4>1, <3>1, <3>3, <2>3, <1>1, <1>6, <1>8, <1>9, SMTT(30) DEF SpaceAt
      <4>2. CASE j = n
        <5>1. base1[n] + st1[n].max <= base[n - 1] + st[n - 1].max
          <6>1. base1[n] + st1[n].max = N + 1 + g.max
            BY <1>15, <1>6
          <6> QED BY <6>1, <1>16
        <5>2. /\ base[n - 1] + st[n - 1].max <= base[i] + st[i].max
              /\ base[i] \in Nat /\ st[i].max \in Nat
          <6>1. i <= n - 1
            BY <2>3
          <6> QED BY <6>1, <1>1, RoomBelow DEF Good
        <5>3. base1[n] \in Nat /\ st1[n].max \in Nat
          BY <1>4, <1>6
        <5>4. base1[n] + st1[n].max <= base[i] + st[i].max
          <6>1. \A x, y, z \in Nat : x <= y /\ y <= z => x <= z
            OBVIOUS
          <6>2. /\ base1[n] + st1[n].max \in Nat /\ base[n - 1] + st[n - 1].max \in Nat
                /\ base[i] + st[i].max \in Nat
            <7>1. \A x, y \in Nat : x + y \in Nat
              OBVIOUS
            <7> QED BY <7>1, <5>2, <5>3, <1>4, Zenon
          <6> QED BY <6>1, <6>2, <5>1, <5>2, Zenon
        <5> QED BY <5>4, <4>2, <2>3, <1>6, <1>8
      <4> QED BY <4>1, <4>2, <1>7
    <3>4. CASE i = n - 1
      <4>1. i + 1 = n /\ i < n
        BY <3>4
      <4>2. base1[i + 1] = base1[i] + st1[i].written
        BY <4>1, <3>4, <2>3, <1>15, <1>4, <1>6, <1>12, SMTT(30)
      <4>3. st1[i].written <= st1[i].max
        BY <3>4, <1>4, SMTT(30) DEF GetsOn
      <4> QED BY <4>1, <4>2, <4>3, <3>2, <3>3, <1>1 DEF SpaceAt
    <3>5. CASE i \in 1 .. n - 2
      <4>1. i + 1 \in 1 .. n - 1 /\ i < n /\ i + 1 \in 1 .. n /\ st1[i] = st[i]
        BY <3>5
      <4> QED BY <4>1, <3>1, <3>2, <3>3, <1>1, <1>6, <1>8, <1>9, <2>3 DEF SpaceAt
    <3> QED BY <3>4, <3>5, <2>3, <1>7
  <2> QED BY <2>2, <2>3, <1>7
<1>14. LengthsOK(st1, ou1, base1)
  <2> SUFFICES ASSUME NEW p \in 1 .. N + 1, ou1[p].len # NoLength
               PROVE  /\ Covers(ou1, p)
                      /\ \/ p + ou1[p].len <= N + 1 /\ Closed(st1, ou1[p].of)
                         \/ \E i \in 2 .. n : ~st1[i].sizing /\ base1[i] = p
    BY <1>1, <1>5 DEF LengthsOK
  <2>1. CASE p \in 1 .. N
    <3>1. ou1[p] = ou[p] /\ ou[p].len # NoLength /\ p \in DOMAIN ou
      BY <2>1, <1>5
    <3>2. ou[p].len \in Nat
      <4>1. ou[p] \in ByteType
        BY <3>1, <1>5
      <4> QED BY <4>1, <3>1 DEF ByteType
    <3>3. ASSUME NEW j \in p + 1 .. N + 1
          PROVE  Under(ou1[p].of, ou1[j].of) <=> j <= p + ou1[p].len
      <4>1. CASE j \in 1 .. N
        <5>1. j \in p + 1 .. N /\ ou1[j] = ou[j]
          BY <4>1, <3>3, <1>5
        <5> QED BY <5>1, <3>1 DEF Good, LengthsOK, Covers
      <4>2. CASE j = N + 1
        <5>1. Live(st, g.path)
          BY <1>1, UnderSelf DEF Live
        <5>2. Under(st[n - 1].path, g.path)
          <6>1. n - 1 < n
            OBVIOUS
          <6> QED BY <6>1, <1>1 DEF StackOK
        <5>3. j \in Nat /\ j > Len(ou) /\ j <= base[n - 1] + st[n - 1].max
          BY <4>2, <1>16
        <5>4. \A i \in DOMAIN st : i > n - 1 => st[i].sizing
          <6>1. \A i \in 1 .. n : i > n - 1 => i = n
            OBVIOUS
          <6> QED BY <6>1, <1>1
        <5>5. Under(ou[p].of, g.path) <=> j <= p + ou[p].len
          BY <3>1, <5>1, <5>2, <5>3, <5>4, <1>1, <1>4, CoversMore
        <5> QED BY <5>5, <4>2, <3>1, <1>5 DEF Byte
      <4>3. j \in 1 .. N + 1
        BY <2>1, <3>3
      <4> QED BY <4>1, <4>2, <4>3, <1>7
    <3>4. \/ p + ou[p].len <= N /\ Closed(st, ou[p].of)
          \/ \E i \in 2 .. n : ~st[i].sizing /\ base[i] = p
      BY <3>1 DEF Good, LengthsOK
    <3>5. CASE p + ou[p].len <= N /\ Closed(st, ou[p].of)
      <4>1. p + ou[p].len <= N + 1
        BY <3>5, <3>2
      <4> QED BY <4>1, <3>1, <3>3, <3>5, <1>5, <1>11, ClosedStays DEF Covers
    <3>6. CASE \E i \in 2 .. n : ~st[i].sizing /\ base[i] = p
      <4>1. PICK i \in 2 .. n : ~st[i].sizing /\ base[i] = p
        BY <3>6
      <4>2. i # n /\ i \in 1 .. n
        BY <4>1
      <4>3. i \in 1 .. n - 1
        BY <4>2, <1>7
      <4>4. ~st1[i].sizing /\ base1[i] = p
        BY <4>1, <4>3, <1>6, <1>8
      <4> QED BY <4>1, <4>4, <3>3, <1>5 DEF Covers
    <3> QED BY <3>4, <3>5, <3>6
  <2>2. CASE p = N + 1
    <3>1. Covers(ou1, p)
      BY <2>2, <1>5 DEF Covers
    <3>2. n \in 2 .. n /\ ~st1[n].sizing /\ base1[n] = p
      BY <2>2, <1>6
    <3> QED BY <3>1, <3>2
  <2> QED BY <2>1, <2>2, <1>7
<1> QED BY <1>5, <1>10, <1>13, <1>14 DEF Good, ou1, base1

\* The message is written to its end: nothing more of it will come.
LEMMA Closes ==
  ASSUME NEW st, NEW ou, NEW base, Good(st, ou, base), Len(st) > 1,
         ~st[Len(st)].sizing, st[Len(st)].written = st[Len(st)].max,
         NEW f \in FrameType, GetsOn(st[Len(st) - 1], f),
         f.written = st[Len(st) - 1].written + st[Len(st)].written,
         NEW st1, Replaced(Front(st), st1, f)
  PROVE  Good(st1, ou, [i \in 1 .. Len(st) - 1 |-> base[i]])
<1>0. PICK n \in Nat : n = Len(st) /\ n > 1
  BY StackLength DEF Good
<1> USE <1>0
<1> DEFINE base1 == [i \in 1 .. Len(st) - 1 |-> base[i]]
<1>1. /\ StackOK(st) /\ st \in Seq(FrameType) /\ DOMAIN st = 1 .. n
      /\ n \in 1 .. n /\ n - 1 \in 1 .. n
  BY DEF Good, StackOK
<1>2. /\ StackOK(Front(st)) /\ Len(Front(st)) = n - 1
      /\ \A i \in 1 .. n - 1 : Front(st)[i] = st[i]
      /\ \A w \in Paths : Live(Front(st), w) => Live(st, w)
  BY <1>1, StackFront, Zenon
<1>3. /\ st1 \in Seq(FrameType) /\ Len(st1) = n - 1 /\ st1[n - 1] = f
      /\ \A i \in 1 .. n - 2 : st1[i] = st[i]
  <2>1. \A i \in 1 .. n - 2 : i \in 1 .. n - 1 /\ i \in 1 .. n - 1 - 1
    OBVIOUS
  <2>2. st1 \in Seq(FrameType) /\ Len(st1) = n - 1 /\ st1[n - 1] = f
    BY <1>2, Zenon DEF Replaced
  <2>3. \A i \in 1 .. n - 1 - 1 : st1[i] = Front(st)[i]
    BY <1>2, Zenon DEF Replaced
  <2> QED BY <2>1, <2>2, <2>3, <1>2, Zenon
<1>4. /\ StackOK(st1) /\ DOMAIN st1 = 1 .. n - 1
      /\ \A w \in Paths : Live(st1, w) => Live(st, w)
  <2>1. n - 1 \in 1 .. n - 1
    OBVIOUS
  <2>2. GetsOn(Front(st)[Len(Front(st))], f)
    BY <2>1, <1>2
  <2>3. StackOK(st1) /\ \A w \in Paths : Live(st1, w) => Live(Front(st), w)
    BY <2>2, <1>2, StackGrows
  <2> QED BY <2>3, <1>2, <1>3
<1>5. /\ \A i \in 1 .. n : i = n \/ i \in 1 .. n - 1
      /\ \A i \in 1 .. n - 1 : i \in 1 .. n /\ (i = n - 1 \/ i \in 1 .. n - 2)
  OBVIOUS
<1>6. /\ f.written = st[n - 1].written + st[n].written /\ f.max = st[n - 1].max
      /\ f.path = st[n - 1].path /\ f.sizing = st[n - 1].sizing
      /\ \A e \in Elements : Spent(st[n - 1], e) => Spent(f, e)
  BY DEF GetsOn
<1>7. \A i \in 1 .. n - 1 : st1[i].sizing = st[i].sizing /\ st1[i].path = st[i].path
                              /\ st1[i].max = st[i].max
  BY <1>3, <1>5, <1>6
<1>8. \A i \in 1 .. n : ~st[i].sizing
  BY <1>1, <1>5 DEF StackOK
<1>9. /\ base1 \in [1 .. n - 1 -> Nat] /\ \A i \in 1 .. n - 1 : base1[i] = base[i]
      /\ \A i \in 1 .. n : base[i] \in Nat
  BY <1>1, <1>5 DEF Good, SpaceOK
<1> HIDE DEF base1
<1>10. /\ Len(ou) = base[n] + st[n].written
       /\ base[n] = base[n - 1] + st[n - 1].written
       /\ base[n] + st[n].max <= base[n - 1] + st[n - 1].max
       /\ base[n] \in DOMAIN ou /\ ou[base[n]] = Byte(st[n].path, st[n].max)
  <2>1. SpaceAt(st, ou, base, n) /\ SpaceAt(st, ou, base, n - 1)
    BY <1>1, <1>8 DEF Good, SpaceOK
  <2>2. n - 1 < n /\ n - 1 + 1 = n
    OBVIOUS
  <2> QED BY <2>1, <2>2, <1>1, <1>8 DEF SpaceAt
<1>11. /\ Len(ou) = base[n - 1] + f.written /\ f.written <= f.max
       /\ base[n] + st[n].max = Len(ou)
  <2>1. st[n] \in FrameType /\ st[n - 1] \in FrameType
    BY <1>1
  <2>2. PICK b \in Nat, w \in Nat, v \in Nat, m \in Nat :
           /\ b = base[n - 1] /\ w = st[n - 1].written /\ v = st[n].written
           /\ m = st[n - 1].max
    BY <2>1, <1>1, <1>9 DEF FrameType
  <2>3. base[n] = b + w /\ st[n].max = v /\ base[n] + v <= b + m /\ f.written = w + v
    BY <2>2, <1>6, <1>10
  <2>4. b + w + v = b + (w + v) /\ w + v <= m
    BY <2>3
  <2> QED BY <2>2, <2>3, <2>4, <1>6, <1>10
<1>12. SpaceOK(st1, ou, base1)
  <2>1. base1 \in [DOMAIN st1 -> Nat] /\ base1[1] = 0
    <3>1. 1 \in 1 .. n - 1
      OBVIOUS
    <3> QED BY <3>1, <1>4, <1>9 DEF Good, SpaceOK
  <2> SUFFICES ASSUME NEW i \in 1 .. n - 1 PROVE SpaceAt(st1, ou, base1, i)
    BY <2>1, <1>4 DEF SpaceOK
  <2>2. SpaceAt(st, ou, base, i)
    BY <1>1, <1>5, <1>8 DEF Good, SpaceOK
  <2>3. i > 1 => base1[i] \in DOMAIN ou /\ ou[base1[i]] = Byte(st1[i].path, st1[i].max)
    BY <2>2, <1>7, <1>9 DEF SpaceAt
  <2>4. \A j \in DOMAIN st1 :
           i < j /\ ~st1[j].sizing => base1[j] + st1[j].max <= base1[i] + st1[i].max
    BY <2>2, <1>1, <1>4, <1>5, <1>7, <1>8, <1>9 DEF SpaceAt
  <2>5. CASE i = n - 1
    <3>1. ~(i < Len(st1))
      BY <2>5, <1>3
    <3>2. st1[i].written <= st1[i].max /\ Len(ou) = base1[i] + st1[i].written
      BY <2>5, <1>3, <1>9, <1>11
    <3> QED BY <3>1, <3>2, <2>3, <2>4 DEF SpaceAt
  <2>6. CASE i \in 1 .. n - 2
    <3>1. i < n /\ i < n - 1 /\ i + 1 \in 1 .. n - 1 /\ i + 1 \in 1 .. n
      BY <2>6
    <3> QED BY <3>1, <2>2, <2>3, <2>4, <2>6, <1>3, <1>7, <1>8, <1>9 DEF SpaceAt
  <2> QED BY <2>5, <2>6, <1>5
<1>13. Closed(st1, st[n].path)
  <2> SUFFICES ASSUME NEW w \in Paths, Live(st1, w), Under(st[n].path, w) PROVE FALSE
    BY DEF Closed
  <2>1. PICK k \in 1 .. n - 1 : Len(w) = k - 1 \/ ~Spent(st1[k], w[k])
    BY <1>4, <1>5, <1>7, <1>8 DEF Live
  <2>2. /\ st[n].path \in Paths /\ Len(st[n].path) = n - 1 /\ Spent(st[k], st[n].path[k])
        /\ Len(w) \in Nat
    <3>1. st[n] \in FrameType /\ k \in DOMAIN st /\ k < n
      BY <1>1
    <3>2. st[n].path \in Paths /\ Len(w) \in Nat
      BY <3>1 DEF FrameType, Paths
    <3>3. Len(st[n].path) = n - 1 /\ Spent(st[k], st[n].path[k])
      BY <3>1, <1>1 DEF StackOK
    <3> QED BY <3>2, <3>3
  <2>3. w[k] = st[n].path[k] /\ w[k] \in Elements /\ Len(w) # k - 1
    <3>1. n - 1 <= Len(w) /\ k \in 1 .. Len(st[n].path)
      BY <2>2 DEF Under
    <3> QED BY <3>1, <2>2 DEF Under, Paths
  <2>4. Spent(st1[k], w[k])
    <3>1. CASE k = n - 1
      BY <3>1, <2>2, <2>3, <1>3, <1>6
    <3>2. CASE k \in 1 .. n - 2
      BY <3>2, <2>2, <2>3, <1>3
    <3> QED BY <3>1, <3>2, <1>5
  <2> QED BY <2>1, <2>3, <2>4
<1>14. LengthsOK(st1, ou, base1)
  <2> SUFFICES ASSUME NEW p \in DOMAIN ou, ou[p].len # NoLength
               PROVE  /\ Covers(ou, p)
                      /\ \/ p + ou[p].len <= Len(ou) /\ Closed(st1, ou[p].of)
                         \/ \E i \in 2 .. Len(st1) : ~st1[i].sizing /\ base1[i] = p
    BY DEF LengthsOK
  <2>1. Covers(ou, p)
    BY DEF Good, LengthsOK
  <2>2. CASE p + ou[p].len <= Len(ou) /\ Closed(st, ou[p].of)
    BY <2>1, <2>2, <1>4, ClosedStays
  <2>3. CASE \E i \in 2 .. Len(st) : ~st[i].sizing /\ base[i] = p
    <3>1. PICK i \in 2 .. n : base[i] = p
      BY <2>3
    <3>2. CASE i = n
      <4>1. p + ou[p].len = Len(ou) /\ ou[p].of = st[n].path /\ Len(ou) \in Nat
        BY <3>1, <3>2, <1>10, <1>11 DEF Byte, Good
      <4> QED BY <4>1, <2>1, <1>13
    <3>3. CASE i # n
      <4>1. i \in 1 .. n - 1 /\ i \in 2 .. n - 1
        BY <3>3
      <4>2. ~st1[i].sizing /\ base1[i] = p
        BY <4>1, <3>1, <1>5, <1>7, <1>8, <1>9
      <4> QED BY <4>1, <4>2, <2>1, <1>3
    <3> QED BY <3>2, <3>3
  <2> QED BY <2>2, <2>3 DEF Good, LengthsOK
<1> QED BY <1>4, <1>12, <1>14 DEF Good, base1

-----------------------------------------------------------------------------
(* The operators the actions are built from *)

LEMMA GetsOnTrans ==
  ASSUME NEW t, NEW u, NEW f, GetsOn(t, u), GetsOn(u, f)
  PROVE  GetsOn(t, f)
BY DEF GetsOn

LEMMA WroteIs ==
  ASSUME NEW t \in FrameType, ItemOK(t), NEW k \in Nat
  PROVE  /\ Wrote(t, k) \in FrameType /\ GetsOn(t, Wrote(t, k))
         /\ Wrote(t, k).written = t.written + k
         /\ Wrote(t, k).todo = t.todo /\ Wrote(t, k).item = t.item
BY DEF Wrote, FrameType, GetsOn, ItemOK, Spent, ToDo

LEMMA TailIs ==
  ASSUME NEW s \in Tags, s # << >>
  PROVE  /\ Head(s) \in DOMAIN Field /\ Tail(s) \in Tags
         /\ {Tail(s)[i] : i \in DOMAIN Tail(s)} \subseteq {s[i] : i \in DOMAIN s} \ {Head(s)}
<1>1. s \in Seq(DOMAIN Field) /\ \A i, j \in DOMAIN s : s[i] = s[j] => i = j
  BY DEF Tags, NoRepeats
<1>2. PICK n \in Nat : n = Len(s) /\ n >= 1
  BY <1>1
<1>3. /\ Tail(s) \in Seq(DOMAIN Field) /\ Len(Tail(s)) = n - 1 /\ DOMAIN Tail(s) = 1 .. n - 1
      /\ \A i \in 1 .. n - 1 : Tail(s)[i] = s[i + 1]
      /\ DOMAIN s = 1 .. n /\ Head(s) = s[1] /\ 1 \in 1 .. n
  BY <1>1, <1>2
<1>4. \A i \in 1 .. n - 1 : i + 1 \in 1 .. n /\ i + 1 # 1
  BY <1>2
<1>5. \A i, j \in 1 .. n - 1 : i + 1 = j + 1 => i = j
  OBVIOUS
<1>6. NoRepeats(Tail(s))
  BY <1>1, <1>3, <1>4, <1>5 DEF NoRepeats
<1>7. \A i \in 1 .. n - 1 : s[i + 1] # s[1]
  BY <1>1, <1>3, <1>4
<1> QED BY <1>1, <1>3, <1>4, <1>6, <1>7 DEF Tags

LEMMA DoneIs ==
  ASSUME NEW t \in FrameType, t.todo # << >>
  PROVE  /\ Done(t) \in FrameType /\ GetsOn(t, Done(t)) /\ Done(t).written = t.written
         /\ Head(t.todo) \notin ToDo(Done(t))
<1>1. t.todo \in Tags
  BY DEF FrameType
<1>2. /\ Tail(t.todo) \in Tags
      /\ {Tail(t.todo)[i] : i \in DOMAIN Tail(t.todo)} \subseteq ToDo(t) \ {Head(t.todo)}
  BY <1>1, TailIs DEF ToDo
<1>3. /\ Done(t) \in FrameType /\ Done(t).todo = Tail(t.todo) /\ Done(t).item = 0
      /\ Done(t).path = t.path /\ Done(t).sizing = t.sizing /\ Done(t).max = t.max
      /\ Done(t).written = t.written
  BY <1>2 DEF Done, FrameType
<1>4. ToDo(Done(t)) \subseteq ToDo(t) \ {Head(t.todo)}
  BY <1>2, <1>3 DEF ToDo
<1>5. \A e \in Elements : Spent(t, e) => Spent(Done(t), e)
  BY <1>4 DEF Spent
<1> QED BY <1>3, <1>4, <1>5 DEF GetsOn, ItemOK

LEMMA PlainIs ==
  ASSUME NEW path \in Paths, NEW k \in Nat
  PROVE  /\ Plain(path, k) \in Seq(ByteType) /\ Len(Plain(path, k)) = k
         /\ DOMAIN Plain(path, k) = 1 .. k
         /\ \A i \in 1 .. k : Plain(path, k)[i] = Byte(path, NoLength)
<1>1. Byte(path, NoLength) \in ByteType
  BY DEF Byte, ByteType
<1> QED BY <1>1 DEF Plain

LEMMA StringIs ==
  ASSUME NEW path \in Paths, NEW at \in Paths, NEW k \in Nat
  PROVE  LET bytes == Plain(path, 1) \o <<Byte(at, k)>> \o Plain(at, k)
         IN  /\ bytes \in Seq(ByteType) /\ Len(bytes) = k + 2 /\ DOMAIN bytes = 1 .. k + 2
             /\ bytes[1] = Byte(path, NoLength) /\ bytes[2] = Byte(at, k)
             /\ \A i \in 3 .. k + 2 : bytes[i] = Byte(at, NoLength)
<1> DEFINE one == Plain(path, 1)
           two == <<Byte(at, k)>>
           rest == Plain(at, k)
           bytes == one \o two \o rest
<1>1. /\ one \in Seq(ByteType) /\ Len(one) = 1 /\ one[1] = Byte(path, NoLength)
      /\ rest \in Seq(ByteType) /\ Len(rest) = k
      /\ \A i \in 1 .. k : rest[i] = Byte(at, NoLength)
  <2>1. 1 \in Nat /\ 1 \in 1 .. 1
    OBVIOUS
  <2> QED BY <2>1, PlainIs, Zenon
<1>2. two \in Seq(ByteType) /\ Len(two) = 1 /\ two[1] = Byte(at, k)
  <2>1. Byte(at, k) \in ByteType
    BY DEF Byte, ByteType
  <2> QED BY <2>1
<1> HIDE DEF one, two, rest
<1>3. /\ one \o two \in Seq(ByteType) /\ Len(one \o two) = 2
      /\ (one \o two)[1] = Byte(path, NoLength) /\ (one \o two)[2] = Byte(at, k)
  <2>1. /\ one \o two \in Seq(ByteType) /\ Len(one \o two) = Len(one) + Len(two)
        /\ \A i \in 1 .. Len(one) + Len(two) :
              (one \o two)[i] = IF i <= Len(one) THEN one[i] ELSE two[i - Len(one)]
    BY <1>1, <1>2, ConcatProperties, Zenon
  <2>2. Len(one) + Len(two) = 2 /\ 1 \in 1 .. 2 /\ 2 \in 1 .. 2 /\ 2 - Len(one) = 1
    BY <1>1, <1>2
  <2>3. (one \o two)[1] = one[1] /\ (one \o two)[2] = two[1]
    BY <2>1, <2>2, <1>1
  <2> QED BY <2>1, <2>2, <2>3, <1>1, <1>2
<1>4. /\ bytes \in Seq(ByteType) /\ Len(bytes) = k + 2 /\ DOMAIN bytes = 1 .. k + 2
      /\ bytes[1] = Byte(path, NoLength) /\ bytes[2] = Byte(at, k)
  BY <1>1, <1>3
<1>5. ASSUME NEW i \in 3 .. k + 2 PROVE bytes[i] = Byte(at, NoLength)
  <2>1. i - 2 \in 1 .. k
    OBVIOUS
  <2>2. bytes[i] = rest[i - 2]
    BY <1>1, <1>3
  <2> QED BY <2>1, <2>2, <1>1
<1> QED BY <1>4, <1>5 DEF one, two, rest

\* The top of the stack, and what the invariant says of it.
LEMMA TopIs ==
  ASSUME NEW base, Good(stack, out, base)
  PROVE  /\ stack \in Seq(FrameType) /\ stack # << >> /\ Len(stack) \in Nat /\ Len(stack) >= 1
         /\ top = stack[Len(stack)] /\ top \in FrameType /\ ItemOK(top)
         /\ top.path \in Paths /\ Len(top.path) = Len(stack) - 1
         /\ top.written \in Nat /\ top.max \in Nat /\ top.sizing \in BOOLEAN
         /\ base \in [DOMAIN stack -> Nat]
<1>1. stack \in Seq(FrameType) /\ stack # << >> /\ base \in [DOMAIN stack -> Nat]
  BY DEF Good, StackOK, SpaceOK
<1>2. Len(stack) \in DOMAIN stack /\ top = stack[Len(stack)]
  BY <1>1 DEF top, Last
<1>3. top \in FrameType
  BY <1>1, <1>2
<1>4. ItemOK(top) /\ Len(top.path) = Len(stack) - 1
  BY <1>2 DEF Good, StackOK
<1> QED BY <1>1, <1>2, <1>3, <1>4 DEF FrameType

\* What is under the top and not done with may still come.
LEMMA TopLive ==
  ASSUME NEW base, Good(stack, out, base)
  PROVE  /\ Live(stack, top.path)
         /\ \A e \in Elements : ~Spent(top, e) => Live(stack, Append(top.path, e))
<1>1. PICK n \in Nat : n = Len(stack) /\ n >= 1
  BY TopIs
<1>2. n \in DOMAIN stack /\ top = stack[n] /\ top.path \in Paths /\ Len(top.path) + 1 = n
  BY <1>1, TopIs
<1>3. Live(stack, top.path)
  BY <1>1, <1>2, UnderSelf DEF Live
<1>4. ASSUME NEW e \in Elements, ~Spent(top, e) PROVE Live(stack, Append(top.path, e))
  <2>1. Under(top.path, Append(top.path, e)) /\ Append(top.path, e)[n] = e
    BY <1>2, UnderAppend
  <2> QED BY <2>1, <1>2, <1>4 DEF Live
<1> QED BY <1>3, <1>4

\* The top of the stack gets on and nothing is written.
LEMMA PutNothing ==
  ASSUME EncodeInv, result = "running", NEW f \in FrameType, GetsOn(top, f), f.written = top.written,
         Put(<< >>, Append(Front(stack), f))
  PROVE  EncodeInv'
<1>1. PICK base \in [DOMAIN stack -> Nat] : Good(stack, out, base)
  BY DEF EncodeInv
<1>2. stack' = Append(Front(stack), f) /\ UNCHANGED <<value, call, result>>
  BY DEF Put
<1>3. /\ Replaced(stack, stack', f) /\ DOMAIN stack' = DOMAIN stack
  BY <1>1, <1>2, TopIs, ReplacedTop DEF Replaced
<1>4. out' = out
  BY <1>1, Zenon, ConcatEmptySeq DEF Put, Good
<1>5. Good(stack', out', base)
  <2>1. CASE top.sizing
    BY <2>1, <1>1, <1>3, <1>4, TopIs, SizingGrows
  <2>2. CASE ~top.sizing
    <3>1. << >> \in Seq(ByteType) /\ Len(<< >>) = 0 /\ DOMAIN << >> = {}
      OBVIOUS
    <3>2. top.written = top.written + Len(<< >>) /\ top.written <= top.max
      <4>1. SpaceAt(stack, out, base, Len(stack))
        BY <1>1, <2>2, TopIs DEF Good, SpaceOK
      <4> QED BY <4>1, <1>1, TopIs DEF SpaceAt
    <3>3. Good(stack', out \o << >>, base)
      BY <3>1, <3>2, <2>2, <1>1, <1>3, TopIs, WritingGrows DEF GetsOn
    <3> QED BY <3>3, <1>4, <1>1, ConcatEmptySeq, Zenon DEF Good
  <2> QED BY <2>1, <2>2
<1> QED BY <1>2, <1>3, <1>5 DEF EncodeInv

\* Bytes without a length are added, or counted.
LEMMA PlainWritten ==
  ASSUME NEW base, Good(stack, out, base), NEW k \in Nat, HasRoom(top, k),
         NEW f \in FrameType, GetsOn(top, f), f.written = top.written + k,
         NEW st1, Replaced(stack, st1, f)
  PROVE  Good(st1, IF top.sizing THEN out ELSE out \o Plain(top.path, k), base)
<1>1. CASE top.sizing
  BY <1>1, TopIs, SizingGrows
<1>2. CASE ~top.sizing
  <2>1. /\ Plain(top.path, k) \in Seq(ByteType) /\ Len(Plain(top.path, k)) = k
        /\ \A i \in DOMAIN Plain(top.path, k) : Plain(top.path, k)[i] = Byte(top.path, NoLength)
    BY TopIs, PlainIs
  <2>2. f.written <= f.max
    BY <1>2, TopIs DEF HasRoom, GetsOn
  <2>3. \A i \in DOMAIN Plain(top.path, k) :
           /\ Plain(top.path, k)[i].len = NoLength
           /\ Live(stack, Plain(top.path, k)[i].of) /\ Under(top.path, Plain(top.path, k)[i].of)
    BY <2>1, TopLive, UnderSelf DEF Byte
  <2>4. Good(st1, out \o Plain(top.path, k), base)
    <3>1. /\ top = stack[Len(stack)]
          /\ f.written = top.written + Len(Plain(top.path, k))
      BY <2>1, TopIs
    <3> HIDE DEF top
    <3> QED BY <3>1, <2>1, <2>2, <2>3, <1>2, WritingGrows
  <2> QED BY <2>4, <1>2
<1> QED BY <1>1, <1>2, TopIs

\* A string, or a packed array, with its length: the field is done with it.
LEMMA StringWritten ==
  ASSUME NEW base, Good(stack, out, base), top.todo # << >>, top.item = 0, ~top.sizing,
         NEW k \in Nat, HasRoom(top, k + 2),
         NEW st1, Replaced(stack, st1, Done(Wrote(top, k + 2)))
  PROVE  LET at == Append(top.path, <<tag, 0>>)
         IN  Good(st1, out \o (Plain(top.path, 1) \o <<Byte(at, k)>> \o Plain(at, k)), base)
<1> DEFINE e == <<tag, 0>>
           at == Append(top.path, <<tag, 0>>)
           f == Done(Wrote(top, k + 2))
           bytes == Plain(top.path, 1) \o <<Byte(at, k)>> \o Plain(at, k)
<1>0. PICK n \in Nat : n = Len(stack) /\ n >= 1
  BY TopIs
<1>1. /\ top = stack[n] /\ top \in FrameType /\ ItemOK(top) /\ top.path \in Paths
      /\ Len(top.path) + 1 = n /\ Len(top.path) = n - 1 /\ StackOK(stack) /\ stack \in Seq(FrameType)
      /\ DOMAIN stack = 1 .. n
  BY <1>0, TopIs DEF Good
<1>2. tag \in ToDo(top) /\ tag \in DOMAIN Field /\ e \in Elements
  <2>1. top.todo \in Tags /\ tag = Head(top.todo)
    BY <1>1 DEF FrameType, tag
  <2>2. tag \in DOMAIN Field
    BY <2>1, TailIs
  <2>3. top.todo \in Seq(DOMAIN Field)
    BY <2>1 DEF Tags
  <2>4. 1 \in DOMAIN top.todo /\ Head(top.todo) = top.todo[1]
    BY <2>3
  <2> QED BY <2>1, <2>2, <2>4 DEF ToDo, Elements
<1>3. ~Spent(top, e)
  BY <1>2 DEF Spent
<1>4. /\ at \in Paths /\ Len(at) = n /\ at[n] = e /\ Under(top.path, at)
      /\ \A i \in 1 .. n - 1 : at[i] = top.path[i]
  <2>1. /\ at \in Paths /\ Len(at) = Len(top.path) + 1 /\ at[Len(top.path) + 1] = e
        /\ Under(top.path, at) /\ \A i \in 1 .. Len(top.path) : at[i] = top.path[i]
    BY <1>1, <1>2, UnderAppend, ZenonT(40)
  <2> QED BY <2>1, <1>1, Zenon
<1>5. k + 2 \in Nat
  OBVIOUS
<1>6. /\ f \in FrameType /\ GetsOn(top, f) /\ f.written = top.written + (k + 2)
      /\ tag \notin ToDo(f)
  <2>1. /\ Wrote(top, k + 2) \in FrameType /\ GetsOn(top, Wrote(top, k + 2))
        /\ Wrote(top, k + 2).written = top.written + (k + 2)
        /\ Wrote(top, k + 2).todo = top.todo
    BY <1>1, <1>5, WroteIs, Zenon
  <2>2. /\ f \in FrameType /\ GetsOn(Wrote(top, k + 2), f)
        /\ f.written = Wrote(top, k + 2).written
        /\ Head(Wrote(top, k + 2).todo) \notin ToDo(f)
    BY <2>1, DoneIs, Zenon
  <2> QED BY <2>1, <2>2, GetsOnTrans, Zenon DEF tag
<1>7. /\ bytes \in Seq(ByteType) /\ Len(bytes) = k + 2 /\ DOMAIN bytes = 1 .. k + 2
      /\ bytes[1] = Byte(top.path, NoLength) /\ bytes[2] = Byte(at, k)
      /\ \A i \in 3 .. k + 2 : bytes[i] = Byte(at, NoLength)
  BY <1>1, <1>4, StringIs, ZenonT(40)
<1>8. f.written <= f.max
  BY <1>6, <1>1 DEF HasRoom, GetsOn
<1> HIDE DEF bytes, f, at
<1>9. Closed(st1, at)
  <2>1. /\ st1 \in Seq(FrameType) /\ Len(st1) = n /\ DOMAIN st1 = 1 .. n /\ st1[n] = f
        /\ \A i \in 1 .. n - 1 : st1[i] = stack[i]
    BY <1>0 DEF Replaced, f
  <2>2. \A i \in 1 .. n : i = n \/ (i \in 1 .. n - 1 /\ i < n)
    OBVIOUS
  <2>3. \A i \in 1 .. n : ~st1[i].sizing
    BY <2>1, <2>2, <1>1, <1>6 DEF StackOK, GetsOn
  <2> SUFFICES ASSUME NEW w \in Paths, Live(st1, w), Under(at, w) PROVE FALSE
    BY DEF Closed
  <2>4. PICK i \in 1 .. n : Len(w) = i - 1 \/ ~Spent(st1[i], w[i])
    BY <2>1, <2>3 DEF Live
  <2>5. Len(w) \in Nat /\ n <= Len(w) /\ w[i] = at[i]
    BY <1>4 DEF Under, Paths
  <2>6. ~Spent(st1[i], w[i])
    BY <2>4, <2>5
  <2>7. CASE i = n
    BY <2>5, <2>6, <2>7, <2>1, <1>4, <1>6 DEF Spent
  <2>8. CASE i \in 1 .. n - 1 /\ i < n
    <3>1. i \in DOMAIN stack /\ n \in DOMAIN stack /\ i < n /\ StackOK(stack)
      BY <2>8, <1>1
    <3>2. Spent(stack[i], stack[n].path[i])
      BY <3>1, Zenon DEF StackOK
    <3> QED BY <3>2, <2>5, <2>6, <2>8, <2>1, <1>1, <1>4
  <2> QED BY <2>2, <2>7, <2>8
<1>10. \A i \in 1 .. k + 2 : i = 1 \/ i = 2 \/ i \in 3 .. k + 2
  OBVIOUS
<1>11. \A i \in 1 .. k + 2 : bytes[i].of \in {top.path, at} /\ (i > 1 => bytes[i].of = at)
                            /\ bytes[i].len = IF i = 2 THEN k ELSE NoLength
  BY <1>7, <1>10 DEF Byte
<1>12. \A j \in DOMAIN bytes :
          Live(stack, bytes[j].of) /\ Under(stack[Len(stack)].path, bytes[j].of)
  <2>1. Live(stack, top.path) /\ Live(stack, at)
    BY <1>2, <1>3, TopLive DEF at
  <2>2. Under(top.path, top.path) /\ Under(top.path, at)
    BY <1>4, UnderSelf
  <2> QED BY <2>1, <2>2, <1>0, <1>1, <1>7, <1>11
<1>13. ASSUME NEW j \in DOMAIN bytes, bytes[j].len # NoLength
       PROVE  /\ Closed(st1, bytes[j].of) /\ j + bytes[j].len <= Len(bytes)
              /\ \A i \in j + 1 .. Len(bytes) :
                    Under(bytes[j].of, bytes[i].of) <=> i <= j + bytes[j].len
  <2>1. j = 2 /\ bytes[j].len = k /\ bytes[j].of = at
    BY <1>13, <1>7, <1>11
  <2>2. \A i \in 3 .. k + 2 : bytes[i].of = at /\ i <= 2 + k
    BY <1>7 DEF Byte
  <2> QED BY <2>1, <2>2, <1>7, <1>9, UnderSelf
<1>14. Good(st1, out \o bytes, base)
  <2>1. f.written = stack[Len(stack)].written + Len(bytes)
    BY <1>0, <1>1, <1>6, <1>7
  <2> QED BY <2>1, <1>0, <1>1, <1>6, <1>7, <1>8, <1>12, <1>13, WritingGrows DEF f
<1> QED BY <1>14 DEF bytes, at

-----------------------------------------------------------------------------
(* The initial state and the steps *)

LEMMA EncodeInitKeeps == EncodeInit => EncodeInv
<1> SUFFICES ASSUME EncodeInit PROVE EncodeInv
  OBVIOUS
<1>1. value \in [DOMAIN Contents -> Nat]
  <2>1. PICK v \in [DOMAIN Contents -> UNION {Contents[t] : t \in DOMAIN Contents}] :
           value = v /\ \A t \in DOMAIN v : v[t] \in Contents[t]
    BY DEF EncodeInit
  <2>2. \A t \in DOMAIN Contents : v[t] \in Nat
    BY <2>1, EncodeAssumption
  <2> QED BY <2>1, <2>2
<1>2. PICK size \in Buffers :
         stack = IF call # "delimited" THEN <<Frame(Root, << >>, FALSE, size)>>
                 ELSE <<[Frame(Root, << >>, FALSE, size) EXCEPT !.todo = << >>],
                        Frame(Root, <<<<0, 0>>>>, TRUE, Unlimited)>>
  BY DEF EncodeInit
<1>3. size \in Nat /\ Root \in DOMAIN Order /\ Order[Root] \in Tags
  BY EncodeAssumption DEF Tags, NoRepeats
<1>4. << >> \in Paths /\ Len(<< >>) = 0 /\ << >> \in Tags /\ << >> \in Seq(ByteType)
  BY DEF Paths, Tags, NoRepeats
<1>5. <<0, 0>> \in Elements
  BY DEF Elements
<1>6. <<<<0, 0>>>> \in Paths /\ Len(<<<<0, 0>>>>) = 1 /\ <<<<0, 0>>>>[1] = <<0, 0>>
  BY <1>5 DEF Paths
<1> DEFINE first == Frame(Root, << >>, FALSE, size)
           outer == [first EXCEPT !.todo = << >>]
           second == Frame(Root, <<<<0, 0>>>>, TRUE, Unlimited)
<1>7. /\ first \in FrameType /\ ItemOK(first) /\ first.path = << >> /\ ~first.sizing
      /\ first.written = 0 /\ first.max = size
  BY <1>3, <1>4 DEF Frame, FrameType, ItemOK
<1>8. /\ outer \in FrameType /\ ItemOK(outer) /\ outer.path = << >> /\ ~outer.sizing
      /\ outer.written = 0 /\ outer.max = size /\ outer.todo = << >>
  BY <1>3, <1>4 DEF Frame, FrameType, ItemOK
<1>9. /\ second \in FrameType /\ ItemOK(second) /\ second.path = <<<<0, 0>>>> /\ second.sizing
  BY <1>3, <1>6 DEF Frame, FrameType, ItemOK, Unlimited
<1> HIDE DEF first, outer, second
<1>10. ASSUME NEW f, f \in FrameType, ItemOK(f), f.path = << >>, ~f.sizing,
              f.written = 0, f.max = size
       PROVE  Good(<<f>>, << >>, [i \in {1} |-> 0])
  <2>1. <<f>> \in Seq(FrameType) /\ Len(<<f>>) = 1 /\ DOMAIN <<f>> = {1} /\ <<f>>[1] = f
    BY <1>10
  <2>2. StackOK(<<f>>)
    BY <2>1, <1>4, <1>10 DEF StackOK
  <2>3. SpaceOK(<<f>>, << >>, [i \in {1} |-> 0])
    BY <2>1, <1>3, <1>4, <1>10 DEF SpaceOK, SpaceAt
  <2>4. LengthsOK(<<f>>, << >>, [i \in {1} |-> 0])
    BY DEF LengthsOK
  <2> QED BY <2>2, <2>3, <2>4, <1>4 DEF Good
<1>11. out = << >> /\ result = "running"
  BY DEF EncodeInit
<1>12. CASE call # "delimited"
  <2>1. stack = <<first>>
    BY <1>2, <1>12 DEF first
  <2>2. Good(stack, out, [i \in {1} |-> 0])
    BY <2>1, <1>7, <1>10, <1>11
  <2> QED BY <2>2, <1>1, <1>11 DEF EncodeInv, Good, SpaceOK
<1>13. CASE call = "delimited"
  <2>1. stack = <<outer, second>>
    BY <1>2, <1>13 DEF first, outer, second
  <2>2. /\ stack \in Seq(FrameType) /\ Len(stack) = 2 /\ DOMAIN stack = 1 .. 2
        /\ stack[1] = outer /\ stack[2] = second
    BY <2>1, <1>8, <1>9
  <2>3. Under(outer.path, second.path) /\ Spent(outer, second.path[1])
    BY <1>4, <1>6, <1>8, <1>9 DEF Under, Spent, ToDo
  <2>4. \A i \in 1 .. 2 : i = 1 \/ i = 2
    OBVIOUS
  <2>5. StackOK(stack)
    BY <2>2, <2>3, <2>4, <1>4, <1>6, <1>8, <1>9 DEF StackOK
  <2>6. SpaceOK(stack, out, [i \in 1 .. 2 |-> 0])
    BY <2>2, <2>4, <1>3, <1>4, <1>8, <1>9, <1>11 DEF SpaceOK, SpaceAt
  <2>7. LengthsOK(stack, out, [i \in 1 .. 2 |-> 0])
    BY <1>11 DEF LengthsOK
  <2>8. Good(stack, out, [i \in 1 .. 2 |-> 0])
    BY <2>5, <2>6, <2>7, <1>4, <1>11 DEF Good
  <2> QED BY <2>2, <2>8, <1>1, <1>11 DEF EncodeInv
<1> QED BY <1>12, <1>13

\* A step that failed keeps everything but the result.
LEMMA FailKeeps == ASSUME EncodeInv, Fail PROVE EncodeInv'
BY DEF EncodeInv, Fail

\* The field of the top, and the field done.
LEMMA FieldIs ==
  ASSUME NEW base, Good(stack, out, base), Encoding
  PROVE  /\ tag \in DOMAIN Field /\ tag = Head(top.todo) /\ top.todo # << >>
         /\ \A k \in Nat :
               /\ Done(Wrote(top, k)) \in FrameType /\ GetsOn(top, Done(Wrote(top, k)))
               /\ Done(Wrote(top, k)).written = top.written + k
         /\ Done(top) \in FrameType /\ GetsOn(top, Done(top)) /\ Done(top).written = top.written
<1>1. top \in FrameType /\ ItemOK(top) /\ top.todo # << >> /\ top.todo \in Tags
  BY TopIs DEF Encoding, FrameType
<1>2. tag \in DOMAIN Field
  BY <1>1, TailIs DEF tag
<1>3. ASSUME NEW k \in Nat
      PROVE  /\ Done(Wrote(top, k)) \in FrameType /\ GetsOn(top, Done(Wrote(top, k)))
             /\ Done(Wrote(top, k)).written = top.written + k
  <2>1. /\ Wrote(top, k) \in FrameType /\ GetsOn(top, Wrote(top, k))
        /\ Wrote(top, k).written = top.written + k /\ Wrote(top, k).todo = top.todo
    BY <1>1, WroteIs, Zenon
  <2>2. /\ Done(Wrote(top, k)) \in FrameType /\ GetsOn(Wrote(top, k), Done(Wrote(top, k)))
        /\ Done(Wrote(top, k)).written = Wrote(top, k).written
    BY <2>1, <1>1, DoneIs, Zenon
  <2> QED BY <2>1, <2>2, GetsOnTrans, Zenon
<1> QED BY <1>1, <1>2, <1>3, DoneIs, Zenon DEF tag

LEMMA EncodeFieldKeeps == ASSUME EncodeInv, EncodeField PROVE EncodeInv'
<1>1. PICK base \in [DOMAIN stack -> Nat] : Good(stack, out, base)
  BY DEF EncodeInv
<1>2. /\ Encoding /\ result = "running" /\ top.todo # << >> /\ tag = Head(top.todo)
      /\ field.l \in {"number", "string"} /\ tag \in DOMAIN Field
  BY <1>1, FieldIs DEF EncodeField, Encoding
<1>3. CASE Put(<< >>, Append(Front(stack), Done(top)))
  BY <1>1, <1>2, <1>3, FieldIs, PutNothing
<1>4. CASE Fail
  BY <1>4, FailKeeps
<1>5. CASE /\ HasRoom(top, Len(FieldBytes))
           /\ Put(FieldBytes, Append(Front(stack), Done(Wrote(top, Len(FieldBytes)))))
  <2>1. top \in FrameType /\ ItemOK(top) /\ top.path \in Paths /\ top.sizing \in BOOLEAN
        /\ stack \in Seq(FrameType) /\ stack # << >> /\ top = stack[Len(stack)]
    BY <1>1, TopIs
  <2>2. ASSUME NEW k \in Nat, Len(FieldBytes) = k,
               \A st1 : ~top.sizing /\ HasRoom(top, k) /\ Replaced(stack, st1, Done(Wrote(top, k)))
                           => Good(st1, out \o FieldBytes, base)
        PROVE  EncodeInv'
    <3>1. /\ stack' = Append(Front(stack), Done(Wrote(top, k)))
          /\ out' = IF top.sizing THEN out ELSE out \o FieldBytes
          /\ UNCHANGED <<value, call, result>> /\ HasRoom(top, k)
      BY <1>5, <2>2, Zenon DEF Put
    <3>2. /\ Done(Wrote(top, k)) \in FrameType /\ GetsOn(top, Done(Wrote(top, k)))
      BY <1>1, <1>2, FieldIs
    <3>3. Replaced(stack, stack', Done(Wrote(top, k)))
      BY <3>1, <3>2, <2>1, ReplacedTop
    <3>4. Good(stack', out', base)
      <4>1. CASE top.sizing
        <5>1. Good(stack', out, base)
          BY <4>1, <3>2, <3>3, <2>1, <1>1, SizingGrows
        <5> QED BY <5>1, <4>1, <3>1
      <4>2. CASE ~top.sizing
        BY <4>2, <3>1, <3>3, <2>2
      <4> QED BY <4>1, <4>2
    <3> QED BY <3>1, <3>4, <1>2 DEF EncodeInv, Good, SpaceOK
  <2>3. CASE field.l = "number" /\ field.h # "repeated"
    <3>1. FieldBytes = Plain(top.path, 2) /\ Len(FieldBytes) = 2
      BY <2>3, <2>1, PlainIs DEF FieldBytes
    <3>2. \A st1 : ~top.sizing /\ HasRoom(top, 2) /\ Replaced(stack, st1, Done(Wrote(top, 2)))
                      => Good(st1, out \o FieldBytes, base)
      BY <3>1, <1>1, <1>2, FieldIs, PlainWritten
    <3> QED BY <3>1, <3>2, <2>2
  <2>4. CASE ~(field.l = "number" /\ field.h # "repeated")
    <3>1. value[tag] \in Nat
      <4>1. tag \in DOMAIN Contents
        BY <2>4, <1>2, EncodeAssumption DEF field
      <4> QED BY <4>1 DEF EncodeInv
    <3>2. PICK v \in Nat : v = value[tag]
      BY <3>1
    <3>3. /\ FieldBytes = Plain(top.path, 1) \o <<Byte(Append(top.path, <<tag, 0>>), v)>>
                              \o Plain(Append(top.path, <<tag, 0>>), v)
      BY <2>4, <3>2, Zenon DEF FieldBytes
    <3>4. Len(FieldBytes) = v + 2
      <4>1. <<tag, 0>> \in Elements
        BY <1>2 DEF Elements
      <4>2. Append(top.path, <<tag, 0>>) \in Paths
        BY <4>1, <2>1, UnderAppend
      <4> QED BY <4>2, <2>1, <3>3, StringIs, Zenon
    <3>5. top.item = 0
      <4>1. field.l # "message"
        BY <1>2
      <4> QED BY <4>1, <2>1 DEF ItemOK, field, tag
    <3>6. \A st1 : ~top.sizing /\ HasRoom(top, v + 2)
                      /\ Replaced(stack, st1, Done(Wrote(top, v + 2)))
                      => Good(st1, out \o FieldBytes, base)
      BY <3>3, <3>5, <1>1, <1>2, StringWritten, Zenon
    <3>7. v + 2 \in Nat
      OBVIOUS
    <3> QED BY <3>4, <3>6, <3>7, <2>2, Zenon
  <2> QED BY <2>3, <2>4
<1> QED BY <1>3, <1>4, <1>5 DEF EncodeField

LEMMA EncodeCallbackKeeps ==
  ASSUME EncodeInv, NEW k \in Chunks, EncodeCallback(k)
  PROVE  EncodeInv'
<1>1. PICK base \in [DOMAIN stack -> Nat] : Good(stack, out, base)
  BY DEF EncodeInv
<1>2. k \in Nat /\ Encoding /\ result = "running"
  BY EncodeAssumption DEF EncodeCallback, Encoding
<1>3. CASE Fail
  BY <1>3, FailKeeps
<1>4. CASE /\ HasRoom(top, k)
           /\ Put(Plain(top.path, k), Append(Front(stack), Done(Wrote(top, k))))
  <2>1. /\ stack' = Append(Front(stack), Done(Wrote(top, k)))
        /\ out' = IF top.sizing THEN out ELSE out \o Plain(top.path, k)
        /\ UNCHANGED <<value, call, result>>
    BY <1>4, Zenon DEF Put
  <2>2. /\ Done(Wrote(top, k)) \in FrameType /\ GetsOn(top, Done(Wrote(top, k)))
        /\ Done(Wrote(top, k)).written = top.written + k
    BY <1>1, <1>2, FieldIs
  <2>3. Replaced(stack, stack', Done(Wrote(top, k)))
    BY <2>1, <2>2, <1>1, TopIs, ReplacedTop
  <2>4. Good(stack', out', base)
    BY <2>1, <2>2, <2>3, <1>1, <1>2, <1>4, PlainWritten
  <2> QED BY <2>1, <2>4, <1>2 DEF EncodeInv, Good, SpaceOK
<1> QED BY <1>3, <1>4 DEF EncodeCallback

LEMMA EncodeReturnsKeeps == ASSUME EncodeInv, EncodeReturns PROVE EncodeInv'
<1>1. PICK base \in [DOMAIN stack -> Nat] : Good(stack, out, base)
  BY DEF EncodeInv
<1>2. Len(stack) = 1
  BY DEF EncodeReturns
<1>3. CASE UNCHANGED <<value, call, stack, out>>
  BY <1>1, <1>2, <1>3 DEF EncodeInv
<1>4. CASE Fail
  BY <1>4, FailKeeps
<1>5. CASE /\ HasRoom(top, 1) /\ stack' = <<Wrote(top, 1)>> /\ out' = out \o Plain(<< >>, 1)
           /\ UNCHANGED value
  <2>1. /\ top \in FrameType /\ ItemOK(top) /\ top.path \in Paths /\ Len(top.path) = 0
        /\ top = stack[1] /\ ~top.sizing
    BY <1>1, <1>2, TopIs DEF Good, StackOK
  <2>2. top.path = << >>
    BY <2>1 DEF Paths
  <2>3. /\ Wrote(top, 1) \in FrameType /\ GetsOn(top, Wrote(top, 1))
        /\ Wrote(top, 1).written = top.written + 1
    BY <2>1, WroteIs
  <2>4. Replaced(stack, stack', Wrote(top, 1)) /\ Len(stack') = 1
    BY <2>3, <1>2, <1>5 DEF Replaced
  <2>5. Good(stack', out', base)
    BY <2>1, <2>2, <2>3, <2>4, <1>1, <1>5, PlainWritten
  <2> QED BY <2>4, <2>5, <1>5 DEF EncodeInv, Good, SpaceOK
<1> QED BY <1>3, <1>4, <1>5 DEF EncodeReturns

LEMMA FrameIs ==
  ASSUME NEW type \in DOMAIN Order, NEW path \in Paths, NEW sizing \in BOOLEAN, NEW max \in Nat
  PROVE  /\ Frame(type, path, sizing, max) \in FrameType
         /\ ItemOK(Frame(type, path, sizing, max))
         /\ Frame(type, path, sizing, max).path = path
         /\ Frame(type, path, sizing, max).sizing = sizing
         /\ Frame(type, path, sizing, max).written = 0
         /\ Frame(type, path, sizing, max).max = max
<1>1. Order[type] \in Tags
  BY EncodeAssumption DEF Tags, NoRepeats
<1> QED BY <1>1 DEF Frame, FrameType, ItemOK

LEMMA TwoMore ==
  ASSUME NEW s \in Seq(FrameType), NEW f \in FrameType, NEW g \in FrameType, NEW m \in Nat,
         Len(s) = m
  PROVE  /\ s \o <<f, g>> \in Seq(FrameType) /\ Len(s \o <<f, g>>) = m + 2
         /\ (s \o <<f, g>>)[m + 1] = f /\ (s \o <<f, g>>)[m + 2] = g
         /\ \A i \in 1 .. m : (s \o <<f, g>>)[i] = s[i]
<1> DEFINE two == <<f, g>>
<1>1. two \in Seq(FrameType) /\ Len(two) = 2 /\ two[1] = f /\ two[2] = g
  OBVIOUS
<1> HIDE DEF two
<1>2. /\ s \o two \in Seq(FrameType) /\ Len(s \o two) = m + 2
      /\ \A i \in 1 .. m : (s \o two)[i] = s[i]
      /\ (s \o two)[m + 1] = two[1] /\ (s \o two)[m + 2] = two[2]
  <2>1. /\ s \o two \in Seq(FrameType) /\ Len(s \o two) = Len(s) + Len(two)
        /\ \A i \in 1 .. Len(s) + Len(two) :
              (s \o two)[i] = IF i <= Len(s) THEN s[i] ELSE two[i - Len(s)]
    BY <1>1, ConcatProperties, Zenon
  <2>2. /\ m + 1 \in 1 .. m + 2 /\ m + 2 \in 1 .. m + 2
        /\ ~(m + 1 <= m) /\ ~(m + 2 <= m) /\ m + 1 - m = 1 /\ m + 2 - m = 2
        /\ \A i \in 1 .. m : i \in 1 .. m + 2 /\ i <= m
    OBVIOUS
  <2> QED BY <2>1, <2>2, <1>1
<1> QED BY <1>1, <1>2 DEF two

LEMMA EncodeMessageKeeps == ASSUME EncodeInv, EncodeMessage PROVE EncodeInv'
<1>1. PICK base \in [DOMAIN stack -> Nat] : Good(stack, out, base)
  BY DEF EncodeInv
<1>2. /\ Encoding /\ result = "running" /\ top.todo # << >> /\ tag = Head(top.todo)
      /\ field.l = "message" /\ tag \in DOMAIN Field
  BY <1>1, FieldIs DEF EncodeMessage, Encoding
<1>3. CASE Put(<< >>, Append(Front(stack), Done(top)))
  BY <1>1, <1>2, <1>3, FieldIs, PutNothing
<1>4. CASE Fail
  BY <1>4, FailKeeps
<1> DEFINE e == <<tag, top.item>>
           m == Wrote(top, 1)
           f == [Wrote(top, 1) EXCEPT !.item = @ + 1]
           g == Frame(field.sub, Append(top.path, <<tag, top.item>>), TRUE, Unlimited)
           st1 == Front(stack) \o <<f, g>>
           mid == Append(Front(stack), m)
           ou1 == IF top.sizing THEN out ELSE out \o Plain(top.path, 1)
<1>5. CASE HasRoom(top, 1) /\ Put(Plain(top.path, 1), st1)
  <2>0. PICK n \in Nat : n = Len(stack) /\ n >= 1
    BY <1>1, TopIs
  <2>1. /\ top \in FrameType /\ ItemOK(top) /\ top.path \in Paths /\ top = stack[n]
        /\ stack \in Seq(FrameType) /\ stack # << >> /\ top.item \in Nat
        /\ top.todo \in Seq(DOMAIN Field)
    BY <1>1, <2>0, TopIs DEF FrameType, Tags
  <2>2. /\ stack' = st1 /\ out' = ou1 /\ UNCHANGED <<value, call, result>>
    BY <1>5, Zenon DEF Put
  <2>3. /\ m \in FrameType /\ GetsOn(top, m) /\ m.written = top.written + 1
        /\ m.todo = top.todo /\ m.item = top.item /\ m.path = top.path
    <3>1. 1 \in Nat
      OBVIOUS
    <3> QED BY <3>1, <2>1, WroteIs, Zenon DEF GetsOn
  <2>4. e \in Elements
    BY <1>2, <2>1 DEF Elements
  <2>5. g \in FrameType /\ ItemOK(g) /\ g.path = Append(m.path, e) /\ g.sizing
    <3>1. field.sub \in DOMAIN Order /\ Append(top.path, e) \in Paths /\ Unlimited \in Nat
      BY <1>2, <2>1, <2>4, EncodeAssumption, UnderAppend DEF field, Unlimited
    <3>2. TRUE \in BOOLEAN
      OBVIOUS
    <3>3. /\ g \in FrameType /\ ItemOK(g) /\ g.path = Append(top.path, e) /\ g.sizing = TRUE
      BY <3>1, <3>2, FrameIs
    <3> QED BY <3>3, <2>3, Zenon
  <2>6. /\ f \in FrameType /\ f.path = m.path /\ f.sizing = m.sizing /\ f.max = m.max
        /\ f.todo = m.todo /\ f.item = m.item + 1 /\ f.written = m.written
    BY <2>3 DEF FrameType
  <2> HIDE DEF f, g, m, st1, mid, ou1
  <2>7. GetsOn(m, f)
    <3>1. ItemOK(f)
      BY <2>3, <2>6, <1>2 DEF ItemOK, field
    <3>2. ASSUME NEW x \in Elements, Spent(m, x) PROVE Spent(f, x)
      <4>1. x[2] \in Nat /\ m.item \in Nat
        BY <2>1, <2>3 DEF Elements
      <4> QED BY <4>1, <3>2, <2>6 DEF Spent, ToDo
    <3> QED BY <3>1, <3>2, <2>6 DEF GetsOn
  <2>8. ~Spent(m, e) /\ Spent(f, e)
    <3>1. top.todo[1] = tag /\ 1 \in DOMAIN top.todo
      BY <2>1, <1>2
    <3>2. tag \in ToDo(m) /\ tag = Head(m.todo) /\ e[1] = tag /\ e[2] = top.item
      BY <3>1, <2>3, <1>2 DEF ToDo
    <3> QED BY <3>2, <2>1, <2>3, <2>6 DEF Spent
  <2>9. Replaced(stack, mid, m)
    BY <2>1, <2>3, ReplacedTop DEF mid
  <2>10. Good(mid, ou1, base)
    <3>1. 1 \in Nat
      OBVIOUS
    <3> QED BY <3>1, <2>3, <2>9, <1>1, <1>5, PlainWritten, Zenon DEF ou1
  <2>11. /\ mid \in Seq(FrameType) /\ Len(mid) = n /\ mid[n] = m
         /\ \A i \in 1 .. n - 1 : mid[i] = stack[i]
    BY <2>0, <2>9 DEF Replaced
  <2>12. /\ st1 \in Seq(FrameType) /\ Len(st1) = n + 1 /\ st1[n] = f /\ st1[n + 1] = g
         /\ \A i \in 1 .. n - 1 : st1[i] = stack[i]
    <3>1. /\ Front(stack) \in Seq(FrameType) /\ Len(Front(stack)) = n - 1 /\ n - 1 \in Nat
          /\ \A i \in 1 .. n - 1 : Front(stack)[i] = stack[i]
      BY <2>0, <2>1, FrontIs
    <3>2. /\ st1 \in Seq(FrameType) /\ Len(st1) = (n - 1) + 2 /\ st1[(n - 1) + 1] = f
          /\ st1[(n - 1) + 2] = g /\ \A i \in 1 .. n - 1 : st1[i] = Front(stack)[i]
      <4>1. PICK s \in Seq(FrameType), a, b \in FrameType, k \in Nat :
                /\ s = Front(stack) /\ a = f /\ b = g /\ k = n - 1
        BY <3>1, <2>5, <2>6, Zenon
      <4>2. Len(s) = k
        BY <3>1, <4>1, Zenon
      <4>3. /\ s \o <<a, b>> \in Seq(FrameType) /\ Len(s \o <<a, b>>) = k + 2
            /\ (s \o <<a, b>>)[k + 1] = a /\ (s \o <<a, b>>)[k + 2] = b
            /\ \A i \in 1 .. k : (s \o <<a, b>>)[i] = s[i]
        BY <4>2, TwoMore
      <4>4. st1 = s \o <<a, b>>
        BY <4>1, Zenon DEF st1
      <4> QED BY <4>1, <4>3, <4>4, Zenon
    <3>3. (n - 1) + 2 = n + 1 /\ (n - 1) + 1 = n
      OBVIOUS
    <3> QED BY <3>1, <3>2, <3>3
  <2>13. \E b : Good(st1, ou1, b)
    <3>1. /\ m = mid[Len(mid)] /\ Len(st1) = Len(mid) + 1 /\ st1[Len(mid) + 1] = g
          /\ st1[Len(mid)] = f /\ \A i \in 1 .. Len(mid) - 1 : st1[i] = mid[i]
          /\ g.path = Append(f.path, e)
      BY <2>5, <2>6, <2>11, <2>12
    <3>2. GetsOn(mid[Len(mid)], f) /\ ~Spent(mid[Len(mid)], e) /\ f.written = mid[Len(mid)].written
      BY <3>1, <2>6, <2>7, <2>8
    <3>3. Good(st1, ou1, [i \in 1 .. Len(mid) + 1 |-> IF i <= Len(mid) THEN base[i] ELSE 0])
      BY <3>1, <3>2, <2>4, <2>5, <2>6, <2>8, <2>10, <2>12, SizingPushed, Zenon
    <3> QED BY <3>3, Zenon
  <2> QED BY <2>2, <2>13, <1>2 DEF EncodeInv, Good, SpaceOK
<1> QED BY <1>3, <1>4, <1>5, Zenon DEF EncodeMessage

\* The message below the top.
LEMMA ParentIs ==
  ASSUME NEW base, Good(stack, out, base), NEW n \in Nat, Len(stack) = n, n > 1
  PROVE  /\ parent = stack[n - 1] /\ parent \in FrameType /\ ItemOK(parent)
         /\ parent.written \in Nat
         /\ Front(stack) \in Seq(FrameType) /\ Front(stack) # << >>
         /\ Len(Front(stack)) = n - 1
         /\ \A i \in 1 .. n - 1 : Front(stack)[i] = stack[i]
<1>1. stack \in Seq(FrameType) /\ stack # << >>
  BY TopIs
<1>2. /\ Front(stack) \in Seq(FrameType) /\ Len(Front(stack)) = n - 1
      /\ \A i \in 1 .. n - 1 : Front(stack)[i] = stack[i]
  BY <1>1, FrontIs
<1>3. n - 1 \in 1 .. n - 1 /\ n - 1 \in 1 .. n /\ n - 1 # 0
  OBVIOUS
<1>4. parent = stack[n - 1]
  BY <1>2, <1>3 DEF parent, Last
<1>5. n - 1 \in DOMAIN stack /\ stack[n - 1] \in FrameType
  BY <1>1, <1>3
<1>6. ItemOK(stack[n - 1])
  BY <1>5 DEF Good, StackOK
<1>7. Front(stack) # << >>
  BY <1>2, <1>3
<1> QED BY <1>2, <1>4, <1>5, <1>6, <1>7 DEF FrameType

LEMMA LengthKnownKeeps == ASSUME EncodeInv, LengthKnown PROVE EncodeInv'
<1>1. PICK base \in [DOMAIN stack -> Nat] : Good(stack, out, base)
  BY DEF EncodeInv
<1>2. PICK n \in Nat : n = Len(stack) /\ n > 1
  BY <1>1, TopIs DEF LengthKnown
<1> DEFINE size == top.written
           outer == Wrote(parent, 1)
<1>3. CASE Fail
  BY <1>3, FailKeeps
<1>4. /\ parent = stack[n - 1] /\ parent \in FrameType /\ ItemOK(parent)
      /\ Front(stack) \in Seq(FrameType) /\ Front(stack) # << >>
      /\ Len(Front(stack)) = n - 1 /\ \A i \in 1 .. n - 1 : Front(stack)[i] = stack[i]
  BY <1>1, <1>2, ParentIs
<1>5. /\ top = stack[n] /\ top.sizing /\ top \in FrameType /\ size \in Nat
      /\ top.path \in Paths /\ top.type \in DOMAIN Order /\ result = "running"
  BY <1>1, <1>2, TopIs DEF LengthKnown, FrameType
<1>6. /\ outer \in FrameType /\ GetsOn(parent, outer) /\ ItemOK(outer)
      /\ outer.written = parent.written + 1
  <2>1. 1 \in Nat
    OBVIOUS
  <2> QED BY <2>1, <1>4, WroteIs, Zenon DEF GetsOn
<1>7. CASE /\ parent.sizing
           /\ stack' = Front(Front(stack)) \o <<Wrote(outer, size)>> /\ out' = out
           /\ UNCHANGED <<value, call, result>>
  <2>1. Wrote(outer, size) \in FrameType /\ GetsOn(parent, Wrote(outer, size))
    BY <1>5, <1>6, WroteIs, GetsOnTrans, Zenon
  <2>2. Good(Front(stack), out, [i \in 1 .. n - 1 |-> base[i]])
    <3>1. stack[Len(stack)].sizing /\ Len(stack) > 1
      BY <1>2, <1>5
    <3>2. Good(Front(stack), out, [i \in 1 .. Len(stack) - 1 |-> base[i]])
      BY <3>1, <1>1, SizingPops
    <3> QED BY <3>2, <1>2
  <2>3. stack' = Append(Front(Front(stack)), Wrote(outer, size))
    <3>1. Front(Front(stack)) \in Seq(FrameType)
      BY <1>4, FrontIs
    <3> QED BY <3>1, <2>1, <1>7, AppendIsConcat
  <2>4. Replaced(Front(stack), stack', Wrote(outer, size))
    BY <2>1, <2>3, <1>4, ReplacedTop, Zenon
  <2>5. Front(stack)[Len(Front(stack))] = parent
    <3>1. n - 1 \in 1 .. n - 1
      BY <1>2
    <3> QED BY <3>1, <1>4
  <2>6. Good(stack', out, [i \in 1 .. n - 1 |-> base[i]])
    BY <2>1, <2>2, <2>4, <2>5, <1>7, SizingGrows
  <2> QED BY <2>6, <1>5, <1>7 DEF EncodeInv, Good, SpaceOK
<1>8. CASE /\ ~parent.sizing /\ HasRoom(outer, size)
           /\ stack' = Front(Front(stack)) \o
                          <<outer, Frame(top.type, top.path, FALSE, size)>>
           /\ out' = Append(out, Byte(top.path, size))
           /\ UNCHANGED <<value, call, result>>
  <2> DEFINE g == Frame(top.type, top.path, FALSE, size)
  <2>1. /\ g \in FrameType /\ ItemOK(g) /\ g.path = top.path /\ ~g.sizing
        /\ g.written = 0 /\ g.max = size
    <3>1. FALSE \in BOOLEAN
      OBVIOUS
    <3>2. PICK type \in DOMAIN Order, path \in Paths, max \in Nat :
              type = top.type /\ path = top.path /\ max = size
      BY <1>5, Zenon
    <3>3. /\ Frame(type, path, FALSE, max) \in FrameType
          /\ ItemOK(Frame(type, path, FALSE, max))
          /\ Frame(type, path, FALSE, max).path = path
          /\ Frame(type, path, FALSE, max).sizing = FALSE
          /\ Frame(type, path, FALSE, max).written = 0
          /\ Frame(type, path, FALSE, max).max = max
      BY <3>1, FrameIs, ZenonT(40)
    <3>4. g = Frame(type, path, FALSE, max)
      BY <3>2, Zenon
    <3> QED BY <3>2, <3>3, <3>4, Zenon
  <2>2. outer.written + g.max <= outer.max
    BY <2>1, <1>6, <1>8 DEF HasRoom, GetsOn
  <2> HIDE DEF g, outer, size
  <2>3. /\ stack' \in Seq(FrameType) /\ Len(stack') = n /\ stack'[n - 1] = outer
        /\ stack'[n] = g /\ \A i \in 1 .. n - 2 : stack'[i] = stack[i]
    <3>1. /\ Front(Front(stack)) \in Seq(FrameType)
          /\ Len(Front(Front(stack))) = n - 1 - 1
          /\ \A i \in 1 .. n - 1 - 1 : Front(Front(stack))[i] = Front(stack)[i]
      BY <1>4, FrontIs, Zenon
    <3>2. n - 1 - 1 = n - 2 /\ n - 2 \in Nat /\ n - 2 + 2 = n /\ n - 2 + 1 = n - 1
      BY <1>2
    <3>3. Len(Front(Front(stack))) = n - 2
      BY <3>1, <3>2
    <3>4. stack' = Front(Front(stack)) \o <<outer, g>>
      BY <1>8, Zenon DEF g
    <3>6. /\ stack' \in Seq(FrameType) /\ Len(stack') = (n - 2) + 2
          /\ stack'[(n - 2) + 1] = outer /\ stack'[(n - 2) + 2] = g
          /\ \A i \in 1 .. n - 2 : stack'[i] = Front(Front(stack))[i]
      <4>1. PICK s \in Seq(FrameType), a, b \in FrameType, k \in Nat :
                /\ s = Front(Front(stack)) /\ a = outer /\ b = g /\ k = n - 2
        BY <3>1, <3>2, <2>1, <1>6, Zenon
      <4>2. Len(s) = k
        BY <3>3, <4>1, Zenon
      <4>3. /\ s \o <<a, b>> \in Seq(FrameType) /\ Len(s \o <<a, b>>) = k + 2
            /\ (s \o <<a, b>>)[k + 1] = a /\ (s \o <<a, b>>)[k + 2] = b
            /\ \A i \in 1 .. k : (s \o <<a, b>>)[i] = s[i]
        BY <4>2, TwoMore
      <4>4. stack' = s \o <<a, b>>
        BY <3>4, <4>1, Zenon
      <4> QED BY <4>1, <4>3, <4>4, Zenon
    <3>5. \A i \in 1 .. n - 2 : i \in 1 .. n - 1 /\ i \in 1 .. n - 1 - 1
      BY <1>2
    <3> QED BY <3>1, <3>2, <3>6, <3>5, <1>4
  <2>4. out' = Append(out, Byte(g.path, g.max))
    BY <2>1, <1>8
  <2>5. \E b : Good(stack', out', b)
    <3>1. /\ parent = stack[Len(stack) - 1] /\ g.path = stack[Len(stack)].path
          /\ stack[Len(stack)].sizing /\ ~stack[Len(stack) - 1].sizing /\ Len(stack) > 1
          /\ Len(stack') = Len(stack) /\ stack'[Len(stack) - 1] = outer
          /\ stack'[Len(stack)] = g
          /\ \A i \in 1 .. Len(stack) - 2 : stack'[i] = stack[i]
      BY <2>1, <2>3, <1>2, <1>4, <1>5, <1>8
    <3>2. GetsOn(stack[Len(stack) - 1], outer) /\ outer.written = stack[Len(stack) - 1].written + 1
      BY <3>1, <1>6
    <3>3. Good(stack', Append(out, Byte(g.path, g.max)), [base EXCEPT ![Len(stack)] = Len(out) + 1])
      BY <3>1, <3>2, <2>1, <2>2, <2>3, <1>1, <1>6, Opens, Zenon
    <3> QED BY <3>3, <2>4, Zenon
  <2> QED BY <2>5, <1>5, <1>8 DEF EncodeInv, Good, SpaceOK
<1> QED BY <1>3, <1>7, <1>8 DEF LengthKnown

LEMMA MessageWrittenKeeps == ASSUME EncodeInv, MessageWritten PROVE EncodeInv'
<1>1. PICK base \in [DOMAIN stack -> Nat] : Good(stack, out, base)
  BY DEF EncodeInv
<1>2. PICK n \in Nat : n = Len(stack) /\ n > 1
  BY <1>1, TopIs DEF MessageWritten
<1>3. CASE Fail
  BY <1>3, FailKeeps
<1>4. /\ parent = stack[n - 1] /\ parent \in FrameType /\ ItemOK(parent)
      /\ Front(stack) \in Seq(FrameType) /\ Front(stack) # << >>
      /\ Len(Front(stack)) = n - 1
  BY <1>1, <1>2, ParentIs
<1>5. /\ top = stack[n] /\ ~top.sizing /\ top.written \in Nat /\ result = "running"
  BY <1>1, <1>2, TopIs DEF MessageWritten
<1>6. CASE /\ top.written = top.max
           /\ Put(<< >>, Append(Front(Front(stack)), Wrote(parent, top.written)))
  <2> DEFINE f == Wrote(parent, top.written)
  <2>1. /\ f \in FrameType /\ GetsOn(parent, f) /\ f.written = parent.written + top.written
    BY <1>4, <1>5, WroteIs, Zenon
  <2>2. stack' = Append(Front(Front(stack)), f) /\ UNCHANGED <<value, call, result>>
    BY <1>6, Zenon DEF Put
  <2>3. out' = out
    BY <1>1, <1>6, Zenon, ConcatEmptySeq DEF Put, Good
  <2> HIDE DEF f
  <2>4. Replaced(Front(stack), stack', f)
    BY <2>1, <2>2, <1>4, ReplacedTop, Zenon
  <2>5. \E b : Good(stack', out, b)
    <3>1. /\ parent = stack[Len(stack) - 1] /\ top = stack[Len(stack)] /\ Len(stack) > 1
          /\ stack[Len(stack)].written = stack[Len(stack)].max
      BY <1>2, <1>4, <1>5, <1>6
    <3> HIDE DEF top, parent
    <3> QED BY <3>1, <2>1, <2>4, <1>1, <1>5, Closes
  <2> QED BY <2>2, <2>3, <2>5, <1>5 DEF EncodeInv, Good, SpaceOK
<1> QED BY <1>3, <1>6 DEF MessageWritten

LEMMA EncodeNextKeeps == ASSUME EncodeInv, [EncodeNext]_encodeVars PROVE EncodeInv'
<1>1. CASE EncodeField
  BY <1>1, EncodeFieldKeeps
<1>2. ASSUME NEW k \in Chunks, EncodeCallback(k) PROVE EncodeInv'
  BY <1>2, EncodeCallbackKeeps
<1>3. CASE EncodeMessage
  BY <1>3, EncodeMessageKeeps
<1>4. CASE LengthKnown
  BY <1>4, LengthKnownKeeps
<1>5. CASE MessageWritten
  BY <1>5, MessageWrittenKeeps
<1>6. CASE EncodeReturns
  BY <1>6, EncodeReturnsKeeps
<1>7. CASE UNCHANGED encodeVars
  BY <1>7 DEF encodeVars, EncodeInv
<1> QED BY <1>1, <1>2, <1>3, <1>4, <1>5, <1>6, <1>7 DEF EncodeNext

LEMMA EncodeInvImplies == EncodeInv => LengthsTrue
<1> SUFFICES ASSUME EncodeInv PROVE LengthsTrue
  OBVIOUS
<1>1. PICK base \in [DOMAIN stack -> Nat] : Good(stack, out, base)
  BY DEF EncodeInv
<1>2. PICK n \in Nat : n = Len(stack) /\ n >= 1
  BY <1>1, TopIs
<1>3. PICK N \in Nat : N = Len(out)
  BY <1>1 DEF Good
<1>4. /\ StackOK(stack) /\ SpaceOK(stack, out, base) /\ out \in Seq(ByteType)
      /\ DOMAIN stack = 1 .. n /\ DOMAIN out = 1 .. N /\ stack \in Seq(FrameType)
  BY <1>1, <1>2, <1>3 DEF Good, StackOK
<1>5. ~stack[1].sizing /\ base[1] = 0 /\ 1 \in DOMAIN stack
  BY <1>2, <1>4 DEF StackOK, SpaceOK
<1>6. N <= stack[1].max
  <2> DEFINE Counted == {i \in Nat : i \in 1 .. n /\ stack[i].sizing}
  <2>1. PICK t \in 1 .. n : ~stack[t].sizing /\ (t = n \/ stack[t + 1].sizing)
    <3>1. CASE Counted = {}
      <4>1. n \in 1 .. n /\ ~stack[n].sizing
        BY <3>1, <1>2
      <4> QED BY <4>1
    <3>2. CASE Counted # {}
      <4>1. PICK x \in Counted : \A y \in Counted : ~(<<y, x>> \in OpToRel(<, Nat))
        BY <3>2, WFMin, NatLessThanWellFounded
      <4>2. x \in 1 .. n /\ stack[x].sizing /\ x # 1
        BY <4>1, <1>5
      <4>3. x - 1 \in 1 .. n /\ x - 1 \in Nat /\ x - 1 < x /\ x - 1 + 1 = x /\ x \in Nat
        BY <4>2
      <4>4. ~stack[x - 1].sizing
        BY <4>1, <4>3 DEF OpToRel
      <4> QED BY <4>2, <4>3, <4>4
    <3> QED BY <3>1, <3>2
  <2>2. SpaceAt(stack, out, base, t)
    BY <2>1, <1>4 DEF SpaceOK
  <2>3. N = base[t] + stack[t].written /\ stack[t].written <= stack[t].max
    BY <2>1, <2>2, <1>2, <1>3 DEF SpaceAt
  <2>4. /\ base[t] \in Nat /\ stack[t].max \in Nat /\ stack[1].max \in Nat
        /\ base[t] + stack[t].max <= base[1] + stack[1].max
    <3>1. 1 <= t /\ t \in DOMAIN stack
      BY <1>4
    <3> QED BY <3>1, <2>1, <1>4, <1>5, RoomBelow
  <2>5. stack[t].written \in Nat
    <3>1. stack[t] \in FrameType
      BY <1>4
    <3> QED BY <3>1 DEF FrameType
  <2> QED BY <2>3, <2>4, <2>5, <1>5
<1>7. ASSUME result = "ok"
      PROVE  /\ N = stack[1].written
             /\ \A i \in DOMAIN out : out[i].len # NoLength =>
                    {j \in i + 1 .. N : IsPrefix(out[i].of, out[j].of)}
                        = i + 1 .. i + out[i].len
  <2>1. n = 1
    BY <1>2, <1>7 DEF EncodeInv
  <2>2. N = stack[1].written
    <3>1. SpaceAt(stack, out, base, 1)
      BY <1>4, <1>5 DEF SpaceOK
    <3>2. stack[1] \in FrameType
      BY <1>4, <1>5
    <3>3. stack[1].written \in Nat /\ ~(1 < Len(stack))
      <4>1. Len(stack) = 1
        BY <2>1, <1>2
      <4> QED BY <4>1, <3>2 DEF FrameType
    <3>4. Len(out) = base[1] + stack[1].written
      BY <3>1, <3>3 DEF SpaceAt
    <3> QED BY <3>3, <3>4, <1>3, <1>5
  <2>3. ASSUME NEW i \in 1 .. N, out[i].len # NoLength
        PROVE  {j \in i + 1 .. N : IsPrefix(out[i].of, out[j].of)} = i + 1 .. i + out[i].len
    <3>1. \A j \in 1 .. N : out[j] \in ByteType /\ out[j].of \in Paths
      <4>1. \A j \in 1 .. N : out[j] \in ByteType
        BY <1>4
      <4> QED BY <4>1 DEF ByteType
    <3>2. out[i].len \in Nat
      BY <3>1, <2>3 DEF ByteType
    <3>3. /\ \A j \in i + 1 .. N : Under(out[i].of, out[j].of) <=> j <= i + out[i].len
          /\ i + out[i].len <= N
      <4>1. ~ \E k \in 2 .. Len(stack) : ~stack[k].sizing /\ base[k] = i
        <5>1. 2 .. 1 = {}
          OBVIOUS
        <5> QED BY <5>1, <2>1, <1>2, Zenon
      <4> QED BY <4>1, <2>3, <1>1, <1>3, <1>4 DEF Good, LengthsOK, Covers
    <3>4. \A j \in i + 1 .. N : IsPrefix(out[i].of, out[j].of) <=> j <= i + out[i].len
      <4>1. \A j \in i + 1 .. N : j \in 1 .. N
        OBVIOUS
      <4> QED BY <4>1, <3>1, <3>3, PrefixIsUnder
    <3>5. {j \in i + 1 .. N : IsPrefix(out[i].of, out[j].of)}
             = {j \in i + 1 .. N : j <= i + out[i].len}
      BY <3>4, Zenon
    <3>6. PICK l \in Nat : l = out[i].len
      BY <3>2
    <3>7. {j \in i + 1 .. N : j <= i + l} = i + 1 .. i + l
      <4>1. i + l <= N
        BY <3>3, <3>6
      <4> QED BY <4>1
    <3> QED BY <3>5, <3>6, <3>7
  <2> QED BY <2>2, <2>3, <1>4
<1> QED BY <1>3, <1>5, <1>6, <1>7 DEF LengthsTrue

\* Each length that was written is the number of bytes its message really has after it,
\* and never is more written than the buffer holds (pb_encode_submessage).
THEOREM LengthsAreTrue == EncodeSpec => []LengthsTrue
BY EncodeInitKeeps, EncodeNextKeeps, EncodeInvImplies, PTL DEF EncodeSpec
=============================================================================
