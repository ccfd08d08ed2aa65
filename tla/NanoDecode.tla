----------------------------- MODULE NanoDecode -----------------------------
(* The decoder of nanopb (pb_decode.c, pb_common.c), which turns the bytes of  *)
(* a protocol buffer into C structures whose strings, arrays and messages are  *)
(* allocated (PB_ENABLE_MALLOC), as the local store of the database needs it.  *)
(* Any bytes may come in: a field may be given twice, a oneof may change, and  *)
(* the input may be malformed at any byte.  What the model keeps of the        *)
(* message is who owns which block of memory.                                  *)
(*                                                                             *)
(* A pointer is named by the path that leads to it, a sequence of <<tag, item>>*)
(* with item = Own for the field itself.  The stack holds a frame for each     *)
(* message being decoded.  Left out: arrays without a counter, extensions.     *)
(* The decoder does not clear the items of an array in a structure.  Those of  *)
(* the structure it is given are as the caller left them: zeroed or not.       *)
EXTENDS Integers, Sequences, SequencesExt, FiniteSetsExt

CONSTANTS
    Field,      \* tag -> [in, h, a, l, sub, max], the rows of the pb_field_t tables
    Root,       \* the type of the message that is decoded
    Inputs,     \* lengths of the whole input
    Lengths     \* bound: lengths of strings, of packed arrays and of skipped data

VARIABLES
    stack,      \* [type, path, left, seen, op, tag] of each message being decoded
    memory,     \* [pointers, heap, which, count, wild, zeroed]
    result      \* "running", "ok", "failed", "released"

nanoVars == <<stack, memory, result>>

Own == -1
Null == 0
Garbage == -1

top == Last(stack)
Value(f, x) == IF x \in DOMAIN f THEN f[x] ELSE 0
With(f, x, v) == [y \in DOMAIN f \cup {x} |-> IF y = x THEN v ELSE f[y]]
Path(at, tag) == Append(at, <<tag, Own>>)
ItemPath(at, tag, i) == Append(at, <<tag, i>>)
SetPointer(m, p, b) == [m EXCEPT !.pointers = With(@, p, b)]
SetCount(m, p, n) == [m EXCEPT !.count = With(@, p, n)]
SetWhich(m, at, f, tag) == IF f.h = "oneof" THEN [m EXCEPT !.which = With(@, at, tag)] ELSE m

-----------------------------------------------------------------------------
(* Releasing.                                                                  *)

ItemsReleased(m, f, p) ==
    IF f.a = "static" THEN Min({Value(m.count, p), f.max}) ELSE Value(m.count, p)

\* pb_release follows the current field of a oneof, the counted items of an array,
\* and a pointer that is not NULL
Followed(m, p) ==
    \A i \in DOMAIN p :
        LET tag == p[i][1]
            f == Field[tag]
            at == SubSeq(p, 1, i - 1)
            inside == i < Len(p) \/ p[i][2] # Own
        IN  /\ f.h = "oneof" => Value(m.which, at) = tag
            /\ p[i][2] # Own => p[i][2] < ItemsReleased(m, f, Path(at, tag))
            /\ inside /\ f.a = "pointer" => Value(m.pointers, Path(at, tag)) # Null

\* The pointers of one field of the message at a path, or of the whole message
PointersIn(m, at) == {p \in DOMAIN m.pointers : IsPrefix(at, p)}
PointersOfField(m, at, tag) == {p \in PointersIn(m, at) : Len(p) > Len(at) /\ p[Len(at) + 1][1] = tag}

FreeTwice(m, S) ==
    \/ \E p \in S : m.pointers[p] # Null /\ m.pointers[p] \notin m.heap
    \/ \E p, q \in S : p # q /\ m.pointers[p] # Null /\ m.pointers[p] = m.pointers[q]

\* Each block is freed once and its pointer is cleared; wild notes that free() was
\* given what is no allocated block
Freed(m, S) ==
    [m EXCEPT !.pointers = [p \in DOMAIN @ |-> IF p \in S THEN Null ELSE @[p]],
              !.heap = @ \ {m.pointers[p] : p \in S},
              !.wild = @ \/ FreeTwice(m, S)]
ReleaseMessage(m, at) == Freed(m, {p \in PointersIn(m, at) : Followed(m, p)})
ReleaseField(m, at, tag) ==
    LET freed == Freed(m, {p \in PointersOfField(m, at, tag) : Followed(m, p)})
    IN  IF Field[tag].h = "repeated" /\ Field[tag].a = "pointer"
        THEN SetCount(freed, Path(at, tag), 0) ELSE freed

\* pb_release_union_field: another field of the oneof is released.  Its storage is that
\* of the new field: a structure leaves its bytes there, but a pointer is set to NULL.
Overwritten(m, S) == [m EXCEPT !.pointers = [p \in DOMAIN @ |-> IF p \in S THEN Garbage ELSE @[p]]]
ReleaseUnion(m, at, f, tag) ==
    LET old == Value(m.which, at)
    IN  IF f.h # "oneof" \/ old \in {0, tag} THEN m
        ELSE LET released == ReleaseField(m, at, old)
                 left == IF Field[old].a = "pointer" THEN released
                         ELSE Overwritten(released, PointersOfField(released, at, tag))
             IN  IF f.a = "pointer" THEN SetPointer(left, Path(at, tag), Null) ELSE left

-----------------------------------------------------------------------------
(* A new message: its pointers are NULL, its arrays empty, its oneofs unset.   *)

TagsOf(type) == {t \in DOMAIN Field : Field[t].in = type}

\* The pointers of a message at a path become v
RECURSIVE Filled(_, _, _, _)
Filled(m, type, at, v) ==
    LET tags == TagsOf(type)
        own == {Path(at, t) : t \in {t \in tags : Field[t].a = "pointer"}}
        arrays == {Path(at, t) : t \in {t \in tags : Field[t].h = "repeated"}}
        cleared == [m EXCEPT
            !.pointers = [p \in DOMAIN @ \cup own |-> IF p \in own THEN v ELSE @[p]],
            !.count = [p \in DOMAIN @ \cup arrays |-> IF p \in arrays THEN 0 ELSE @[p]],
            !.which = [p \in DOMAIN @ \ {at} |-> @[p]]]
        inner == {t \in tags : /\ Field[t].a = "static" /\ Field[t].l = "message"
                               /\ Field[t].h \in {"required", "optional"}}
    IN  FoldSet(LAMBDA t, n : Filled(n, Field[t].sub, Path(at, t), v), cleared, inner)

Defaults(m, type, at) == Filled(m, type, at, Null)

\* The storage at a path is the caller's: no block of its own, and no oneof, whose bytes
\* the decoder sets to zero
OfCaller(at) ==
    \A i \in DOMAIN at : Field[at[i][1]].a = "static" /\ Field[at[i][1]].h # "oneof"

\* An item of an array in a structure, counted and not yet begun
Counted(m, f, at) ==
    IF f.l # "message" THEN m
    ELSE Filled(m, f.sub, at, IF OfCaller(at) /\ ~m.zeroed THEN Garbage ELSE Null)

\* allocate_field: realloc of the pointer at p; initialize_pointer_field clears an item
NewBlock(m) == Min((1 .. Cardinality(m.heap) + 1) \ m.heap)
Allocated(m, p) ==
    LET old == Value(m.pointers, p)
        block == IF old = Null THEN NewBlock(m) ELSE old
    IN  [SetPointer(m, p, block) EXCEPT !.heap = @ \cup {block},
                                        !.wild = @ \/ (old # Null /\ old \notin m.heap)]
Initialized(m, f, p) ==
    CASE f.l = "string" -> SetPointer(m, p, Null)
      [] f.l = "message" -> Defaults(m, f.sub, p)
      [] OTHER -> m

-----------------------------------------------------------------------------
Frame(type, path, left) ==
    [type |-> type, path |-> path, left |-> left, seen |-> {}, op |-> "tag", tag |-> 0]
Continue(m, frames) == memory' = m /\ stack' = frames /\ UNCHANGED result

\* A call that fails: pb_decode releases the message it was to fill, which the items of
\* arrays and the outermost message are; the others are left to their owner
FailWith(m) ==
    LET decoded == SelectSeq(stack, LAMBDA f : f.path = << >> \/ Last(f.path)[2] # Own)
    IN  /\ memory' = FoldLeft(LAMBDA n, f : ReleaseMessage(n, f.path), m, Reverse(decoded))
        /\ result' = "failed"
        /\ UNCHANGED stack

AtTag(bytes) == result = "running" /\ top.op = "tag" /\ top.left >= bytes
\* decode_field is called: the key is read, the value is still in the stream
AtValue(tag) == Append(Front(stack),
    [top EXCEPT !.left = @ - 1, !.op = "value", !.tag = tag,
                !.seen = IF Field[tag].h = "required" THEN @ \cup {tag} ELSE @])
Rest(bytes) == Append(Front(stack), [top EXCEPT !.left = @ - bytes, !.op = "tag"])

\* Mutant of StaticField: a message of a oneof is cleared although it is current.
StaticFieldClears(tag) ==
    /\ AtTag(1) /\ Field[tag].a = "static"
    /\ LET f == Field[tag]
           p == Path(top.path, tag)
           m == ReleaseUnion(memory, top.path, f, tag)
           stale == f.h = "oneof" /\ f.l = "message"
           begun == SetWhich(IF stale THEN Defaults(m, f.sub, p) ELSE m, top.path, f, tag)
           n == Value(m.count, p)
           counted == SetCount(begun, p, n + 1)
       IN  IF f.h # "repeated" THEN Continue(begun, AtValue(tag))
           ELSE IF n >= f.max THEN FailWith(counted)
           ELSE Continue(Counted(counted, f, ItemPath(top.path, tag, n)), AtValue(tag))

\* decode_static_field for one value: the counter of an array goes up before the test
\* whether there is room, a message that was not current in its oneof is cleared
StaticField(tag) ==
    /\ AtTag(1) /\ Field[tag].a = "static"
    /\ LET f == Field[tag]
           p == Path(top.path, tag)
           m == ReleaseUnion(memory, top.path, f, tag)
           stale == f.h = "oneof" /\ f.l = "message" /\ Value(m.which, top.path) # tag
           begun == SetWhich(IF stale THEN Defaults(m, f.sub, p) ELSE m, top.path, f, tag)
           n == Value(m.count, p)
           counted == SetCount(begun, p, n + 1)
       IN  IF f.h # "repeated" THEN Continue(begun, AtValue(tag))
           ELSE IF n >= f.max THEN FailWith(counted)
           ELSE Continue(Counted(counted, f, ItemPath(top.path, tag, n)), AtValue(tag))

\* decode_pointer_field for one value: a message that is there already is released, an
\* array grows by one item; the memory of a string is allocated when its length is known
PointerField(tag) ==
    /\ AtTag(1) /\ Field[tag].a = "pointer"
    /\ LET f == Field[tag]
           p == Path(top.path, tag)
           m == ReleaseUnion(memory, top.path, f, tag)
           again == f.h # "repeated" /\ f.l = "message" /\ Value(m.pointers, p) # Null
           ready == SetWhich(IF again THEN ReleaseField(m, top.path, tag) ELSE m, top.path, f, tag)
           n == Value(m.count, p)
       IN  \/ f.h # "repeated" /\ f.l = "string" /\ Continue(ready, AtValue(tag))
           \/ /\ f.h # "repeated" /\ f.l # "string"
              /\ \/ Continue(Initialized(Allocated(ready, p), f, p), AtValue(tag))
                 \/ FailWith(ready)
           \/ /\ f.h = "repeated"
              /\ \/ Continue(Initialized(SetCount(Allocated(ready, p), p, n + 1), f,
                                         ItemPath(top.path, tag, n)), AtValue(tag))
                 \/ FailWith(ready)

\* A packed array of n numbers; room for them is allocated when the first one comes, and
\* each is counted when it is read
PackedArray(tag, n) ==
    /\ AtTag(n + 2) /\ Field[tag].h = "repeated" /\ Field[tag].l = "varint"
    /\ LET f == Field[tag]
           p == Path(top.path, tag)
           full == SetCount(memory, p, Value(memory.count, p) + n)
       IN  \/ /\ f.a = "static"
              /\ IF full.count[p] > f.max THEN FailWith(SetCount(memory, p, f.max))
                 ELSE Continue(full, Rest(n + 2))
           \/ /\ f.a = "pointer"
              /\ \/ Continue(IF n = 0 THEN memory ELSE Allocated(full, p), Rest(n + 2))
                 \/ n > 0 /\ FailWith(memory)
                 \/ \E k \in 0 .. n - 1 :
                      FailWith(SetCount(Allocated(memory, p), p, Value(memory.count, p) + k))

\* The number, string or message that stands in the stream for the field
Target(f, tag) ==
    IF f.h = "repeated"
    THEN ItemPath(top.path, tag, memory.count[Path(top.path, tag)] - 1)
    ELSE Path(top.path, tag)
ReadNumber ==
    /\ result = "running" /\ top.op = "value" /\ Field[top.tag].l = "varint"
    /\ top.left >= 1
    /\ Continue(memory, Rest(1))
ReadString(n) ==
    /\ result = "running" /\ top.op = "value" /\ Field[top.tag].l = "string"
    /\ top.left >= n + 1
    /\ LET f == Field[top.tag]
       IN  \/ /\ f.a = "static"
              /\ IF n >= f.max THEN FailWith(memory) ELSE Continue(memory, Rest(n + 1))
           \/ /\ f.a = "pointer"
              /\ \/ Continue(Allocated(memory, Target(f, top.tag)), Rest(n + 1))
                 \/ FailWith(memory)
                 \/ FailWith(Allocated(memory, Target(f, top.tag)))
EnterMessage(n) ==
    /\ result = "running" /\ top.op = "value" /\ Field[top.tag].l = "message"
    /\ top.left >= n + 1
    /\ LET f == Field[top.tag]
           p == Target(f, top.tag)
       IN  Continue(IF f.h = "repeated" THEN Defaults(memory, f.sub, p) ELSE memory,
                    Append(Rest(n + 1), Frame(f.sub, p, n)))

\* A field nobody knows, or a callback that takes all of its substream
SkipField(n) == AtTag(n + 2) /\ Continue(memory, Rest(n + 2))

\* The last byte of the message or a byte 0 ends it; what its substream still has is
\* skipped.  A required field must have come.
MessageEnds ==
    /\ AtTag(0)
    /\ IF {t \in TagsOf(top.type) : Field[t].h = "required"} \subseteq top.seen
       THEN IF Len(stack) > 1 THEN Continue(memory, Front(stack))
            ELSE result' = "ok" /\ UNCHANGED <<stack, memory>>
       ELSE FailWith(memory)

\* A key, a length or a value that is cut off, too long or of an unknown wire type
Malformed ==
    /\ result = "running" /\ (top.left > 0 \/ top.op = "value")
    /\ FailWith(memory)

\* The client is done with the message, or releases it once more after an error
Release ==
    /\ result \in {"ok", "failed"}
    /\ memory' = ReleaseMessage(memory, << >>)
    /\ result' = "released"
    /\ UNCHANGED stack

NanoInit ==
    /\ \E n \in Inputs : stack = <<Frame(Root, << >>, n)>>
    /\ \E zeroed \in BOOLEAN :
         memory = Defaults([pointers |-> << >>, heap |-> {}, which |-> << >>, count |-> << >>,
                            wild |-> FALSE, zeroed |-> zeroed], Root, << >>)
    /\ result = "running"

NanoNext ==
    \/ \E tag \in TagsOf(top.type) : StaticField(tag) \/ PointerField(tag)
    \/ \E tag \in TagsOf(top.type), n \in Lengths : PackedArray(tag, n)
    \/ ReadNumber
    \/ \E n \in Lengths : ReadString(n) \/ SkipField(n)
    \/ \E n \in 0 .. top.left : EnterMessage(n)
    \/ MessageEnds
    \/ Malformed
    \/ Release

NanoSpec == NanoInit /\ [][NanoNext]_nanoVars

-----------------------------------------------------------------------------
\* The item of an array that is counted and not yet begun, if its bytes are what the caller
\* left there: decode_static_field counts it before pb_dec_submessage clears it
Unset ==
    IF /\ top.op = "value" /\ ~memory.zeroed
       /\ Field[top.tag].h = "repeated" /\ Field[top.tag].a = "static"
       /\ Field[top.tag].l = "message" /\ OfCaller(top.path)
    THEN {ItemPath(top.path, top.tag, memory.count[Path(top.path, top.tag)] - 1)} ELSE {}

(* The memory of a message has one owner at every moment: each allocated block *)
(* is what exactly one pointer that pb_release would follow points to, and no  *)
(* such pointer holds anything else.  So nothing is freed twice, nothing is    *)
(* lost when a field comes twice or a oneof changes, and after an error        *)
(* nothing is left: "If pb_decode() returns with an error, the message is      *)
(* already released" (pb_decode.h), which makes a second release harmless.     *)
(* The exception is an item that was counted and not begun, in a structure the *)
(* caller did not zero: its pointers are nobody's, and an input that ends      *)
(* there makes pb_release follow them.                                         *)
MemoryOwned ==
    LET owned == {p \in DOMAIN memory.pointers :
                    Followed(memory, p) /\ \A at \in Unset : ~IsPrefix(at, p)}
    IN  Unset = {} \/ result = "running" =>
        /\ ~memory.wild
        /\ \A p \in owned : memory.pointers[p] \in memory.heap \cup {Null}
        /\ \A b \in memory.heap : \E p \in owned :
               \A q \in owned : memory.pointers[q] = b <=> q = p
        /\ result \in {"failed", "released"} => memory.heap = {}

-----------------------------------------------------------------------------
(* Claims of the sources that the code does not keep. *)

\* pb_decode.h:56: all fields but callbacks are initialized by the decoder.  Whatever the
\* caller left in the structure, the decoder frees what it allocated and nothing else.
InitializedByDecoder == ~memory.wild

=============================================================================
