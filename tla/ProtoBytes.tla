----------------------------- MODULE ProtoBytes -----------------------------
(***************************************************************************)
(* The wire format of span_client/cloud_pb.py, byte by byte: varints, the  *)
(* four wire types, and the loop that cuts a message body into fields.     *)
(*                                                                         *)
(* A byte carries a continuation bit above a group of value bits, which    *)
(* has More values (128 in the code); a varint has at most WordGroups      *)
(* groups (10 in the code), and the fixed-width fields take I64Bytes and   *)
(* I32Bytes bytes (8 and 4).  Sequences of bytes count from 1, so a        *)
(* position is one more than in the code.  A function that raises          *)
(* ProtoError there returns the empty set here, and the set of its one     *)
(* result otherwise.                                                       *)
(***************************************************************************)
EXTENDS Digits

CONSTANTS More, WordGroups, I64Bytes, I32Bytes

ByteValues == 2 * More

Slice(buf, pos, n) == SubSeq(buf, pos, pos + n - 1)

(***************************************************************************)
(* Reading.                                                                *)
(***************************************************************************)
WIRE_VARINT == 0
WIRE_I64 == 1
WIRE_LEN == 2
WIRE_I32 == 5

\* The varint ends at the first byte without the continuation bit.  The shift
\* is tested only after a byte that continues, so the last byte may still
\* carry bits beyond the word.
read_varint(buf, pos) ==
  {[value |-> NumberOf([i \in 1 .. e + 1 - pos |-> buf[pos + i - 1] % More], More), next |-> e + 1] :
      e \in {k \in pos .. Len(buf) :
               buf[k] < More /\ (\A j \in pos .. k - 1 : buf[j] >= More) /\ k - pos < WordGroups}}

Field(no, wire, num, bytes) == [no |-> no, wire |-> wire, num |-> num, bytes |-> bytes]

VarintField(buf, pos, no) ==
  {[field |-> Field(no, WIRE_VARINT, v.value, <<>>), next |-> v.next] : v \in read_varint(buf, pos)}

FixedField(buf, pos, no, wire, width) ==
  IF pos + width - 1 > Len(buf)
    THEN {}
    ELSE {[field |-> Field(no, wire, NumberOf(Slice(buf, pos, width), ByteValues), <<>>),
           next  |-> pos + width]}

\* Mutant: a field that runs past the end is cut short.
LenFieldCut(buf, pos, no) ==
  {[field |-> Field(no, WIRE_LEN, 0, SubSeq(buf, n.next, Len(buf))), next |-> n.next + n.value] :
      n \in read_varint(buf, pos)}

LenField(buf, pos, no) ==
  {[field |-> Field(no, WIRE_LEN, 0, Slice(buf, n.next, n.value)), next |-> n.next + n.value] :
      n \in {v \in read_varint(buf, pos) : v.next + v.value - 1 <= Len(buf)}}

\* What its wire type says of a field after its tag.
TypedField(buf, pos, no, wire) ==
  CASE wire = WIRE_VARINT -> VarintField(buf, pos, no)
    [] wire = WIRE_I64    -> FixedField(buf, pos, no, wire, I64Bytes)
    [] wire = WIRE_LEN    -> LenField(buf, pos, no)
    [] wire = WIRE_I32    -> FixedField(buf, pos, no, wire, I32Bytes)
    [] OTHER              -> {}

\* One round of the loop.
FieldAt(buf, pos) ==
  UNION {TypedField(buf, tag.next, tag.value \div 8, tag.value % 8) :
           tag \in {t \in read_varint(buf, pos) : t.value \div 8 # 0}}

\* Message._add: the fields by number, repeated ones in their order.
_add(message, f) ==
  [no \in DOMAIN message \cup {f.no} |->
     IF no # f.no THEN message[no]
     ELSE IF no \in DOMAIN message THEN Append(message[no], f) ELSE <<f>>]

(***************************************************************************)
(* The generator's state, with what it has yielded and the message that    *)
(* parse gathers of it.                                                    *)
(***************************************************************************)
Fresh == [pos |-> 1, fields |-> <<>>, message |-> <<>>, ended |-> "reading"]

Yielded(s, f) ==
  [pos |-> f.next, fields |-> Append(s.fields, f.field), message |-> _add(s.message, f.field),
   ended |-> "reading"]

\* The next value asked of iter_fields: the body is over, malformed, or has
\* another field.
iter_fields(s, buf) ==
  IF s.pos > Len(buf) THEN [s EXCEPT !.ended = "whole"]
  ELSE IF FieldAt(buf, s.pos) = {} THEN [s EXCEPT !.ended = "raised"]
  ELSE Yielded(s, CHOOSE f \in FieldAt(buf, s.pos) : TRUE)

(***************************************************************************)
(* Writing.                                                                *)
(***************************************************************************)
write_varint(value) ==
  LET n == DigitCount(value, More)
  IN  [i \in 1 .. n |-> Digit(value, More, i) + (IF i < n THEN More ELSE 0)]

_tag(no, wire) == write_varint(no * 8 + wire)
field_varint(no, value) == _tag(no, WIRE_VARINT) \o write_varint(value)
field_bytes(no, raw) == _tag(no, WIRE_LEN) \o (write_varint(Len(raw)) \o raw)

=============================================================================
