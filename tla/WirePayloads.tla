---------------------------- MODULE WirePayloads ----------------------------
(***************************************************************************)
(* Bodies of messages as bytes: written field by field and cut off on the  *)
(* way or not, or any bytes at all, and read field by field.               *)
(***************************************************************************)
EXTENDS Handling, Digits

CONSTANTS
    More,          \* the values of a varint's group
    WordGroups,    \* the groups of the longest varint
    I64Bytes,      \* the width of a 64-bit field
    I32Bytes,      \* the width of a 32-bit field
    WireFields,    \* the fields that are written
    MaxFields,     \* the most of them in a body
    SomeBytes,     \* the bytes that arrive from anywhere
    MaxBytes       \* the most of them

Wire == INSTANCE ProtoBytes

\* Values that fit the word, or the width of the field.
Fits(value) == DigitCount(value, More) <= WordGroups
WrittenAs(f) ==
  \/ f.wire = Wire!WIRE_VARINT /\ f.num \in Nat /\ Fits(f.num) /\ f.bytes = <<>>
  \/ f.wire = Wire!WIRE_LEN /\ f.num = 0 /\ f.bytes \in Seq(Nat) /\ Fits(Len(f.bytes))
  \/ f.wire = Wire!WIRE_I64 /\ f.num \in Nat /\ Left(f.num, Wire!ByteValues, I64Bytes) = 0 /\ f.bytes = <<>>
  \/ f.wire = Wire!WIRE_I32 /\ f.num \in Nat /\ Left(f.num, Wire!ByteValues, I32Bytes) = 0 /\ f.bytes = <<>>

ASSUME WireAssumption ==
  /\ More \in Nat /\ More > 1
  /\ {WordGroups, I64Bytes, I32Bytes} \subseteq Nat \ {0}
  /\ {MaxFields, MaxBytes} \subseteq Nat
  /\ SomeBytes \subseteq 0 .. 2 * More - 1
  /\ \A f \in WireFields :
       /\ f = Wire!Field(f.no, f.wire, f.num, f.bytes)
       /\ f.no \in Nat \ {0} /\ Fits(f.no * 8 + f.wire)
       /\ WrittenAs(f)

FixedBytes(num, width) == [i \in 1 .. width |-> Digit(num, Wire!ByteValues, i)]

Written(f) ==
  CASE f.wire = Wire!WIRE_VARINT -> Wire!field_varint(f.no, f.num)
    [] f.wire = Wire!WIRE_LEN    -> Wire!field_bytes(f.no, f.bytes)
    [] f.wire = Wire!WIRE_I64    -> Wire!_tag(f.no, f.wire) \o FixedBytes(f.num, I64Bytes)
    [] f.wire = Wire!WIRE_I32    -> Wire!_tag(f.no, f.wire) \o FixedBytes(f.num, I32Bytes)

(***************************************************************************)
(* A body is written, then arrives, cut off somewhere or not at all, and   *)
(* then is read.  ends[i] is where field i ended when it was written or    *)
(* read.                                                                   *)
(***************************************************************************)
Unwritten == [fields |-> <<>>, ends |-> <<>>, body |-> <<>>, arrived |-> FALSE]

OnBody == Comes("body") /\ Handled(Unwritten, Wire!Fresh)

OnField ==
  /\ GoesOn("body")
  /\ ~given.arrived /\ Len(given.fields) < MaxFields
  /\ \E f \in WireFields :
       LET body == given.body \o Written(f)
       IN  Follows([given EXCEPT !.fields = Append(@, f), !.ends = Append(@, Len(body)), !.body = body], got)

OnArrival ==
  /\ GoesOn("body")
  /\ ~given.arrived
  /\ \E cut \in 0 .. Len(given.body) :
       Follows([given EXCEPT !.body = SubSeq(@, 1, cut), !.arrived = TRUE], got)

OnReadBody ==
  /\ GoesOn("body")
  /\ given.arrived /\ got.ended = "reading"
  /\ Follows(given, Wire!iter_fields(got, given.body))

OnBytes ==
  /\ Comes("bytes")
  /\ \E n \in 0 .. MaxBytes : \E buf \in [1 .. n -> SomeBytes] :
       Handled([ends |-> <<>>, body |-> buf], Wire!Fresh)

OnReadBytes ==
  /\ GoesOn("bytes")
  /\ got.ended = "reading"
  /\ LET next == Wire!iter_fields(got, given.body)
     IN  Follows([given EXCEPT !.ends = IF next.ended = "reading" THEN Append(@, next.pos - 1) ELSE @], next)

WireKinds == {"body", "bytes"}
WireNext == OnBody \/ OnField \/ OnArrival \/ OnReadBody \/ OnBytes \/ OnReadBytes

\* Bodies and bytes, whatever else is handled in between.
WireSpec == Init /\ [][WireNext \/ Rest \/ Elsewhere(WireKinds)]_vars

(***************************************************************************)
(* What must hold.                                                         *)
(***************************************************************************)
End(i) == IF i = 0 THEN 0 ELSE given.ends[i]

\* The message has under each number the fields of that number, all of them and
\* in their order.
GroupedAs(message, fields) ==
  /\ DOMAIN message = {fields[i].no : i \in DOMAIN fields}
  /\ \A no \in DOMAIN message :
       \E at \in [DOMAIN message[no] -> DOMAIN fields] :
         /\ {at[k] : k \in DOMAIN at} = {i \in DOMAIN fields : fields[i].no = no}
         /\ \A k, l \in DOMAIN at : k < l => at[k] < at[l]
         /\ \A k \in DOMAIN at : message[no][k] = fields[at[k]]

\* A body reads back as the fields that were written, in order and grouped by
\* number; one cut off inside a field is an error and never a shorter field, and
\* one cut off between two is the fields before (iter_fields, parse).
BodyIsReadBack ==
  kind = "body" =>
    LET n == Len(got.fields)
    IN  /\ n <= Len(given.fields) /\ End(n) <= Len(given.body)
        /\ \A i \in 1 .. n : got.fields[i] = given.fields[i]
        /\ GroupedAs(got.message, got.fields)
        /\ got.ended = "whole" => End(n) = Len(given.body)
        /\ got.ended = "raised" => \A i \in 0 .. Len(given.fields) : End(i) # Len(given.body)

\* Whatever bytes arrive, every field that is read has bytes of its own, as many
\* at least as it takes to write it: nothing is read twice or past the end
\* (iter_fields).
NothingInvented ==
  kind = "bytes" =>
    /\ End(Len(got.fields)) <= Len(given.body)
    /\ \A i \in DOMAIN got.fields : Len(Written(got.fields[i])) <= End(i) - End(i - 1)

\* A body is what its writer wrote, or an error: whole, cut off, or any bytes at
\* all.
BodiesAreFaithful == BodyIsReadBack /\ NothingInvented

=============================================================================
