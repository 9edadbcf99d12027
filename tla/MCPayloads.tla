----------------------------- MODULE MCPayloads -----------------------------
(***************************************************************************)
(* What the local panel publishes and answers in the run, and the lines    *)
(* that its stream has.                                                    *)
(***************************************************************************)
EXTENDS Payloads

\* In groups of 2 bits, words of 3 groups.
Body(no, wire, num, bytes) == Wire!Field(no, wire, num, bytes)
SomeFields ==
  {Body(no, Wire!WIRE_VARINT, num, <<>>) : no \in {1, 2, 7}, num \in {0, 3, 4, 31}}
  \cup {Body(1, Wire!WIRE_I64, 8 * 7 + 5, <<>>), Body(2, Wire!WIRE_I32, 7, <<>>)}
  \cup {Body(no, Wire!WIRE_LEN, 0, raw) : no \in {1, 2}, raw \in {<<>>, <<5>>, <<7, 7, 0>>, <<1, 2, 3, 0, 5>>}}

\* 6 and 2 begin a length-delimited field 1, 4 and 2 a varint one.
ChosenBytes == {0, 1, 2, 4, 6}

Lines ==
  {[field |-> field, value |-> ""] : field \in {"blank", "comment", "id"}}
  \cup [field : {"event"}, value : {"message", "error"}]
  \cup [field : {"data"}, value : {"frame", "no data"}]

SmallNumbers == 0 .. 5000

\* Stands for SHA-256.
MixedHash(a, b) == (7 * a + 3 * b + a * b) % 11

Prop(name, datatype, unit, format, settable) ==
  [name |-> name, datatype |-> datatype, unit |-> unit, format |-> format, settable |-> settable]
NodeOf(name, properties) == [name |-> name, properties |-> properties]

CircuitNode(datatype, unit) ==
  NodeOf({"Circuit"},
       {("name" :> Prop({}, {"string"}, {}, {}, FALSE))
          @@ ("active-power" :> Prop({"Active Power"}, datatype, unit, {}, FALSE))
          @@ ("relay" :> Prop({"Relay"}, {"enum"}, {}, {"OPEN", "CLOSED"}, TRUE))})

SmallDocs ==
  {"uuid-a" :> NodeOf({}, {"relay" :> Prop({}, {"enum"}, {}, {}, TRUE)}),
   "pv" :> NodeOf({}, {"nameplate-capacity" :> Prop({}, {}, {"kW"}, {}, FALSE)})}

Docs ==
  SmallDocs \cup
  {("uuid-a" :> CircuitNode(datatype, unit)) @@ ("uuid-b" :> CircuitNode({"float"}, {"W"}))
     @@ ("pv" :> NodeOf({}, {"nameplate-capacity" :> Prop({""}, datatype, unit, {}, FALSE)}))
     @@ ("core" :> NodeOf({"Core"}, core)) @@ ("site" :> NodeOf({"Site"}, {})) :
     datatype \in {{}, {"float"}, {"power"}}, unit \in {{}, {"kW"}, {"W"}},
     core \in {{}, {"name" :> Prop({"Name"}, {}, {}, {"x"}, FALSE)}}}

Answers200 ==
  {[status |-> 200, body |-> [field \in Local!RequiredFields \cup broker |->
       CASE field = "serialNumber" -> serial [] field = "hostname" -> "span.local"
         [] field = "ebusBrokerHost" -> "" [] OTHER -> secret]] :
     serial \in {"p1", "p2"}, secret \in {"s1", "s2"}, broker \in {{}, {"ebusBrokerHost"}}}
  \cup {[status |-> 200, body |-> ("serialNumber" :> "p1")], [status |-> 403, body |-> <<>>]}

=============================================================================
