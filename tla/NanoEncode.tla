----------------------------- MODULE NanoEncode -----------------------------
(* The encoder of nanopb (pb_encode.c), which turns a C structure into the     *)
(* bytes of a protocol buffer.  A message inside a message is encoded twice:   *)
(* into a stream that only counts, for the length that stands before it, then  *)
(* into the buffer.  A callback may give other bytes the second time.          *)
(*                                                                             *)
(* A byte is [of, len]: of is the path of the message or array it belongs to,  *)
(* len the length it stands for, or NoLength.  A path is a sequence of <<tag,  *)
(* item>>.  Numbers take one byte here; extensions are left out.               *)
EXTENDS Integers, Sequences, SequencesExt

CONSTANTS
    Field,      \* tag -> [h, l, sub, max, group], the rows of the pb_field_t tables
    Order,      \* type -> the tags of its fields, in the order of the table
    Root,       \* the type that is encoded
    Contents,   \* the tag -> the values of the field: counts, lengths, 0 or 1, tags
    Buffers,    \* sizes of the buffer
    Chunks      \* bound: how many bytes one run of a callback writes

\* No field has the tag 0; a table names known fields, none of them twice; strings and
\* repeated fields have a length, which is a number, as are the sizes.
ASSUME EncodeAssumption ==
    /\ 0 \notin DOMAIN Field
    /\ \A type \in DOMAIN Order :
           /\ Order[type] \in Seq(DOMAIN Field)
           /\ \A i, j \in DOMAIN Order[type] : Order[type][i] = Order[type][j] => i = j
    /\ Root \in DOMAIN Order
    /\ \A t \in DOMAIN Field :
           /\ Field[t].l = "message" => Field[t].sub \in DOMAIN Order
           /\ Field[t].h = "repeated" \/ Field[t].l = "string" => t \in DOMAIN Contents
    /\ \A t \in DOMAIN Contents : Contents[t] \subseteq Nat
    /\ Buffers \subseteq Nat /\ Chunks \subseteq Nat

VARIABLES
    value,      \* the structure: the value of each field
    call,       \* "encode", "delimited" or "nullterminated"
    stack,      \* [type, path, todo, item, sizing, written, max] of each message being encoded
    out,        \* the buffer
    result      \* "running", "ok" or "failed"

encodeVars == <<value, call, stack, out, result>>

NoLength == -1
Unlimited == 1000
top == Last(stack)
parent == Last(Front(stack))
Byte(path, len) == [of |-> path, len |-> len]
Plain(path, n) == [i \in 1 .. n |-> Byte(path, NoLength)]

\* A message with its fields still to do, into a counting or a writing stream
Frame(type, path, sizing, max) ==
    [type |-> type, path |-> path, todo |-> Order[type], item |-> 0, sizing |-> sizing, written |-> 0, max |-> max]

\* pb_write: a counting stream takes everything, a buffer what fits
HasRoom(f, n) == f.sizing \/ f.written + n <= f.max
Wrote(f, n) == [f EXCEPT !.written = @ + n]
Fail == result' = "failed" /\ UNCHANGED <<value, call, stack, out>>
Put(bytes, frames) ==
    /\ stack' = frames
    /\ out' = IF top.sizing THEN out ELSE out \o bytes
    /\ UNCHANGED <<value, call, result>>

-----------------------------------------------------------------------------
tag == Head(top.todo)
field == Field[tag]
Encoding == result = "running" /\ top.todo # << >>
Done(f) == [f EXCEPT !.todo = Tail(@), !.item = 0]

\* How often the field is encoded: a missing optional field and the fields of a oneof
\* that are not current are not encoded at all
Times == CASE field.h = "required" -> 1
           [] field.h = "optional" -> IF value[tag] = 0 THEN 0 ELSE 1
           [] field.h = "oneof" -> IF value[field.group] = tag THEN 1 ELSE 0
           [] field.h = "repeated" -> value[tag]

TooLong == (field.h = "repeated" \/ field.l = "string") /\ value[tag] > field.max

\* encode_basic_field and encode_array for what is no message: a tag and a number; a tag,
\* a length and the bytes of a string; or all numbers of an array in one packed field
FieldBytes ==
    LET at == Append(top.path, <<tag, 0>>)
    IN  CASE field.l = "number" /\ field.h # "repeated" -> Plain(top.path, 2)
          [] OTHER -> Plain(top.path, 1) \o <<Byte(at, value[tag])>> \o Plain(at, value[tag])
EncodeField ==
    /\ Encoding /\ field.l \in {"number", "string"}
    /\ IF Times = 0 THEN Put(<< >>, Append(Front(stack), Done(top)))
       ELSE IF TooLong \/ ~HasRoom(top, Len(FieldBytes)) THEN Fail
       ELSE Put(FieldBytes, Append(Front(stack), Done(Wrote(top, Len(FieldBytes)))))

\* encode_callback_field: the callback writes what it likes, whole fields of its message,
\* and fails when the stream is full
EncodeCallback(n) ==
    /\ Encoding /\ field.l = "callback"
    /\ IF HasRoom(top, n) THEN Put(Plain(top.path, n), Append(Front(stack), Done(Wrote(top, n))))
       ELSE Fail

\* pb_encode_submessage: the tag, then the first pass, which counts.  A required message
\* whose pointer is NULL and an array longer than its memory are errors.
EncodeMessage ==
    /\ Encoding /\ field.l = "message"
    /\ IF top.item = Times THEN Put(<< >>, Append(Front(stack), Done(top)))
       ELSE IF \/ field.h = "required" /\ value[tag] = 0
               \/ TooLong
               \/ ~HasRoom(top, 1) THEN Fail
       ELSE Put(Plain(top.path, 1),
                Front(stack) \o
                    <<[Wrote(top, 1) EXCEPT !.item = @ + 1],
                      Frame(field.sub, Append(top.path, <<tag, top.item>>), TRUE, Unlimited)>>)

\* The first pass is over: the length is written, and unless this is itself part of a
\* first pass the second pass gets a stream of just that length
LengthKnown ==
    /\ result = "running" /\ Len(stack) > 1 /\ top.todo = << >> /\ top.sizing
    /\ LET size == top.written
           outer == Wrote(parent, 1)
       IN  IF ~HasRoom(parent, 1) \/ ~HasRoom(outer, size) THEN Fail
           ELSE /\ stack' = Front(Front(stack)) \o
                        (IF parent.sizing THEN <<Wrote(outer, size)>>
                         ELSE <<outer, Frame(top.type, top.path, FALSE, size)>>)
                /\ out' = IF parent.sizing THEN out ELSE Append(out, Byte(top.path, size))
                /\ UNCHANGED <<value, call, result>>

\* Mutant of MessageWritten: the second pass may write less.
MessageWrittenShort ==
    /\ result = "running" /\ Len(stack) > 1 /\ top.todo = << >> /\ ~top.sizing
    /\ Put(<< >>, Append(Front(Front(stack)), Wrote(parent, top.written)))

\* The second pass is over: it must have written what the first pass counted
MessageWritten ==
    /\ result = "running" /\ Len(stack) > 1 /\ top.todo = << >> /\ ~top.sizing
    /\ IF top.written # top.max THEN Fail
       ELSE Put(<< >>, Append(Front(Front(stack)), Wrote(parent, top.written)))

\* pb_encode_nullterminated writes one byte more
EncodeReturns ==
    /\ result = "running" /\ Len(stack) = 1 /\ top.todo = << >>
    /\ IF call # "nullterminated" THEN result' = "ok" /\ UNCHANGED <<value, call, stack, out>>
       ELSE IF ~HasRoom(top, 1) THEN Fail
       ELSE /\ stack' = <<Wrote(top, 1)>>
            /\ out' = out \o Plain(<< >>, 1)
            /\ result' = "ok"
            /\ UNCHANGED <<value, call>>

\* pb_encode_delimited is pb_encode_submessage on the client's stream
EncodeInit ==
    /\ value \in {v \in [DOMAIN Contents -> UNION {Contents[t] : t \in DOMAIN Contents}] :
                      \A t \in DOMAIN v : v[t] \in Contents[t]}
    /\ call \in {"encode", "delimited", "nullterminated"}
    /\ \E size \in Buffers :
           LET stream == Frame(Root, << >>, FALSE, size)
           IN  stack = IF call # "delimited" THEN <<stream>>
                       ELSE <<[stream EXCEPT !.todo = << >>],
                              Frame(Root, <<<<0, 0>>>>, TRUE, Unlimited)>>
    /\ out = << >>
    /\ result = "running"

EncodeNext ==
    \/ EncodeField
    \/ \E n \in Chunks : EncodeCallback(n)
    \/ EncodeMessage
    \/ LengthKnown
    \/ MessageWritten
    \/ EncodeReturns

EncodeSpec == EncodeInit /\ [][EncodeNext]_encodeVars

-----------------------------------------------------------------------------
(* What was encoded can be taken apart again: each length that was written is  *)
(* the number of bytes its message really has after it, even if a callback     *)
(* wrote another number the second time ("Use a substream to verify that a     *)
(* callback doesn't write more than what it did the first time", pb_encode.c); *)
(* and never is more written than the buffer holds.                            *)
LengthsTrue ==
    /\ ~stack[1].sizing /\ Len(out) <= stack[1].max
    /\ result = "ok" =>
           /\ Len(out) = stack[1].written
           /\ \A i \in DOMAIN out : out[i].len # NoLength =>
                  {j \in i + 1 .. Len(out) : IsPrefix(out[i].of, out[j].of)}
                      = i + 1 .. i + out[i].len

=============================================================================
