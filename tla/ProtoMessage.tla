---------------------------- MODULE ProtoMessage ----------------------------
(***************************************************************************)
(* The parsed messages of span_client/cloud_pb.py and their accessors.     *)
(*                                                                         *)
(* A message maps a field number to the sequence of its values.  A value   *)
(* remembers its wire type; a length-delimited one also what its bytes are *)
(* when read as a string (text), whether they parse as a message at all,   *)
(* and the message they parse as (body).                                   *)
(*                                                                         *)
(* An accessor that may return None gives the set of its results, with one *)
(* element or none.  One that may raise has a predicate beside it that     *)
(* says when, and its value is only meaningful when it does not.           *)
(***************************************************************************)
EXTENDS Integers, Sequences, FiniteSets, TLC, SequencesExt

NoFields == <<>>
Garbled == "garbled"

Num(n) == [wire |-> "varint", num |-> n, text |-> "", parses |-> FALSE, body |-> NoFields]
Fixed64(n) == [Num(n) EXCEPT !.wire = "i64"]
Txt(s) == [wire |-> "len", num |-> 0, text |-> s, parses |-> s = "", body |-> NoFields]
Sub(m) == [wire |-> "len", num |-> 0, text |-> Garbled, parses |-> TRUE, body |-> m]
Junk == [wire |-> "len", num |-> 0, text |-> Garbled, parses |-> FALSE, body |-> NoFields]

IsBytes(v) == v.wire = "len"

(***************************************************************************)
(* Reading.                                                                *)
(***************************************************************************)
values(msg, no) == IF no \in DOMAIN msg THEN msg[no] ELSE <<>>
_first(msg, no) == IF values(msg, no) = <<>> THEN {} ELSE {Head(values(msg, no))}

get_int_opt(msg, no) == {v.num : v \in {w \in _first(msg, no) : ~IsBytes(w)}}
get_msg_opt(msg, no) == {v.body : v \in {w \in _first(msg, no) : IsBytes(w) /\ w.parses}}

get_uint_raises(msg, no) == \E v \in _first(msg, no) : IsBytes(v)
get_uint(msg, no) == {v.num : v \in _first(msg, no)}

get_double_raises(msg, no) == \E v \in _first(msg, no) : v.wire # "i64"
get_double(msg, no) == {v.num : v \in _first(msg, no)}

get_bytes_raises(msg, no) == \E v \in _first(msg, no) : ~IsBytes(v)
get_str(msg, no) == {v.text : v \in _first(msg, no)}

get_msg_raises(msg, no) == \E v \in _first(msg, no) : ~IsBytes(v) \/ ~v.parses
get_msg(msg, no) == {v.body : v \in _first(msg, no)}

get_msgs_raises(msg, no) ==
  \E i \in DOMAIN values(msg, no) : IsBytes(values(msg, no)[i]) /\ ~values(msg, no)[i].parses
get_msgs(msg, no) ==
  LET bytes == SelectSeq(values(msg, no), IsBytes)
  IN  [i \in DOMAIN bytes |-> bytes[i].body]

zigzag_decode(value) == IF value % 2 = 0 THEN value \div 2 ELSE -(value \div 2) - 1

(***************************************************************************)
(* Writing.  Bodies are put together with @@ : no function of the code     *)
(* writes the same field number in two pieces of one body.                 *)
(***************************************************************************)
field_varint(no, value) == no :> <<Num(value)>>
field_string(no, value) == no :> <<Txt(value)>>
field_message(no, body) == no :> <<Sub(body)>>

\* A repeated message field: nothing at all when there is none to write.
field_messages(no, bodies) ==
  IF bodies = <<>> THEN NoFields ELSE no :> [i \in DOMAIN bodies |-> Sub(bodies[i])]

\* What a set of at most one result holds, or what stands in for None.
OrElse(opt, default) == IF opt = {} THEN default ELSE CHOOSE v \in opt : TRUE

\* The results of f over a sequence, without the ones that gave nothing.
Collected(f(_), seq) ==
  FoldRight(LAMBDA x, rest : LET r == f(x) IN IF r = {} THEN rest ELSE <<OrElse(r, x)>> \o rest,
            seq, <<>>)

=============================================================================
