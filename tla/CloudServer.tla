---------------------------- MODULE CloudServer ----------------------------
(***************************************************************************)
(* SPAN's side of the wire, as the client's module docs and tests show it: *)
(* what a panel publishes, what a site's snapshot and an energy answer     *)
(* look like, and how a request is understood.  Nothing here is code of    *)
(* the client; it is what the client's answers are held against.           *)
(***************************************************************************)
EXTENDS ProtoMessage

Text(opt) == OrElse(opt, "")
At(opt, no) == UNION {get_msg(m, no) : m \in opt}
SeqOfSet(S) == SetToSeq(S)
OptField(no, opt) == [n \in {no : v \in opt} |-> <<Num(OrElse(opt, 0))>>]

(***************************************************************************)
(* A frame.  A quantity that is not measured is left out; one that is zero *)
(* is a message without its scalar.                                        *)
(***************************************************************************)
Scalar(no, raw) == IF raw = 0 THEN NoFields ELSE field_varint(no, raw)
ZigZag(v) == IF v >= 0 THEN 2 * v ELSE -2 * v - 1

Leaf(no, opt, signed, wrapped) ==
  LET raw == IF signed THEN ZigZag(OrElse(opt, 0)) ELSE OrElse(opt, 0)
  IN  IF opt = {} THEN NoFields
      ELSE field_message(no, IF wrapped
                               THEN field_varint(1, 100) @@ field_message(2, Scalar(3, raw))
                               ELSE Scalar(3, raw))

Channel(c, wrapped) ==
  Leaf(1, c.current_ma, FALSE, wrapped) @@ Leaf(2, c.voltage_mv, FALSE, wrapped)
    @@ Leaf(3, c.power_mw, TRUE, wrapped) @@ Leaf(4, c.freq_mhz, FALSE, wrapped)

OptChannel(no, opt, wrapped) ==
  IF opt = {} THEN NoFields ELSE field_message(no, Channel(CHOOSE c \in opt : TRUE, wrapped))

Lines(legs, wrapped) ==
  OptChannel(1, legs.line_an, wrapped) @@ OptChannel(2, legs.line_bn, wrapped)
    @@ OptChannel(3, legs.combined, wrapped)

\* The panel's frequency is beside its legs.
PanelLines(legs, wrapped) ==
  LET bare == [legs EXCEPT !.combined = {[c EXCEPT !.freq_mhz = {}] : c \in @}]
  IN  Lines(bare, wrapped) @@ Leaf(4, UNION {c.freq_mhz : c \in legs.combined}, FALSE, wrapped)

Summary(s, wrapped) ==
  CASE s.kind = "two_wire"   -> field_message(11, Channel(CHOOSE c \in s.legs.combined : TRUE, wrapped))
    [] s.kind = "three_wire" -> field_message(12, Lines(s.legs, wrapped))
    [] s.kind = "panel"      -> field_message(14, field_message(1, PanelLines(s.legs, wrapped)))

SampleMessage(s, wrapped) ==
  field_varint(2, s.instance_id) @@ field_varint(4, 100) @@ Summary(s, wrapped)

BlockMessage(resource, samples, wrapped) ==
  field_message(1, field_string(1, resource))
    @@ field_messages(2, [i \in DOMAIN samples |-> SampleMessage(samples[i], wrapped)])

FlowMessage(flows, wrapped) ==
  Leaf(1, flows.grid, TRUE, wrapped) @@ Leaf(3, flows.solar, TRUE, wrapped)
    @@ Leaf(51, flows.voltage_l1, FALSE, wrapped)

\* blocks is a sequence of resource and samples; the flows may come as two
\* site metrics, one of them without any.
FrameMessage(stamp, site, instance, flows, blocks, wrapped) ==
  field_message(2, field_message(1, field_string(1, site))
                     @@ field_message(2, field_varint(1, instance)))
    @@ field_message(16, field_message(3,
         field_message(2, field_varint(1, stamp))
           @@ field_message(3,
                field_messages(2, <<NoFields, field_message(2, FlowMessage(flows, wrapped))>>)
                  @@ field_messages(3, [i \in DOMAIN blocks |->
                       BlockMessage(blocks[i].resource, blocks[i].samples, wrapped)]))))

(***************************************************************************)
(* A snapshot.  Of each panel: its circuits with their labels, spaces and  *)
(* switches; the references lie some levels down.  Only traits a           *)
(* subscriber asked for are in it.                                         *)
(***************************************************************************)
TraitKey(trait) == field_varint(1, 1) @@ field_varint(3, trait)
TraitRef(trait, instance) ==
  field_message(1, TraitKey(trait)) @@ field_message(2, field_varint(1, instance))

RECURSIVE Buried(_, _)
Buried(msg, levels) == IF levels = 0 THEN msg ELSE field_message(6, Buried(msg, levels - 1))

Entry(trait, instance, value) ==
  [trait |-> trait,
   message |-> field_message(1, TraitKey(trait) @@ field_varint(4, 1))
                 @@ field_message(2, Scalar(1, instance))
                 @@ field_message(3, field_varint(1, 7) @@ field_message(2, field_message(1, value)))]

\* Instance ids of different traits collide: circuit 1 has label 9 and space 9.
LabelOf(instance) == 8 + instance

CircuitEntry(i, c) ==
  Entry(15, i, field_message(c.wire,
    field_message(1, Buried(TraitRef(16, LabelOf(i)), c.levels))
      @@ field_messages(2, [k \in 1 .. Cardinality(c.spaces) |->
                              Buried(TraitRef(17, SetToSeq(c.spaces)[k]), c.levels)])))

LabelEntry(i, c) ==
  Entry(16, LabelOf(i), OptField(3, c.amps) @@ field_string(4, Text(c.label)))

SpaceEntry(space) == Entry(17, space, field_varint(3, space))

SwitchEntry(i, c) ==
  Entry(31, i, field_message(1, TraitRef(15, c.switches)) @@ field_varint(3, c.state))

CircuitEntries(i, c) ==
  <<CircuitEntry(i, c), LabelEntry(i, c)>>
    \o [k \in 1 .. Cardinality(c.spaces) |-> SpaceEntry(SetToSeq(c.spaces)[k])]
    \o (IF c.switches = 0 THEN <<>> ELSE <<SwitchEntry(i, c)>>)

PanelMessage(panel, asked, backwards) ==
  LET ids == SetToSeq(DOMAIN panel.circuits)
      all == FlattenSeq([k \in DOMAIN ids |-> CircuitEntries(ids[k], panel.circuits[ids[k]])])
      sent == SelectSeq(IF backwards THEN Reverse(all) ELSE all, LAMBDA e : e.trait \in asked)
  IN  field_message(1, field_string(1, panel.hardware_id))
        @@ field_messages(2, [k \in DOMAIN sent |-> sent[k].message])

\* What a SubscribeAndGetTraits request asks for, and the snapshot it gets.
AskedTraits(request) ==
  {OrElse(get_uint(t, 3), 0) :
     t \in UNION {{u \in ToSet(get_msgs(r, 2)) : get_uint(u, 1) = {1}} : r \in ToSet(get_msgs(request, 2))}}
AskedResources(request) ==
  [i \in DOMAIN get_msgs(request, 2) |->
     Text(UNION {get_str(m, 1) : m \in get_msg(get_msgs(request, 2)[i], 1)})]
AskedChannel(request) == Text(UNION {get_str(m, 1) : m \in get_msg(request, 1)})

SnapshotMessage(panels, request, backwards) ==
  LET sent == SelectSeq(panels, LAMBDA p : Contains(AskedResources(request), p.hardware_id))
  IN  field_messages(1, [i \in DOMAIN sent |-> PanelMessage(sent[i], AskedTraits(request), backwards)])

(***************************************************************************)
(* A trait command as the service reads it.                                *)
(***************************************************************************)
Understood(msg) ==
  LET request == At(get_msg(msg, 14), 1)
      payload == At(At(get_msg(msg, 14), 2), 1)
  IN  [trait     |-> UNION {get_uint(m, 3) : m \in get_msg(msg, 1)},
       resource  |-> UNION {get_str(m, 1) : m \in At(get_msg(msg, 2), 1)},
       instance  |-> UNION {get_uint(m, 1) : m \in At(get_msg(msg, 2), 2)},
       requester |-> UNION {get_str(m, 1) : m \in At(request, 2)},
       opens     |-> \E p \in payload : 1 \in DOMAIN p,
       releases  |-> \E p \in payload : 2 \in DOMAIN p,
       source    |-> UNION {get_uint(r, 3) :
                       r \in UNION {At(get_msg(p, 1), 1) \cup At(get_msg(p, 2), 1) : p \in payload}}]

(***************************************************************************)
(* An energy answer: for each identifier asked about that is metered, its  *)
(* buckets; the identifier is echoed.                                      *)
(***************************************************************************)
AskedInstance(identifier) == OrElse(UNION {get_uint(m, 1) : m \in get_msg(identifier, 2)}, 0)
AskedResource(resource) == Text(UNION {get_str(m, 1) : m \in get_msg(resource, 1)})

Components(field) ==
  IF field = 3
    THEN (1 :> "import") @@ (2 :> "export")
    ELSE (1 :> "grid_import") @@ (2 :> "grid_export")
           @@ (7 :> "solar_to_grid") @@ (8 :> "solar_to_home") @@ (9 :> "solar_to_battery")

Measurement(b) ==
  LET numbers == Components(b.field)
      reading == [no \in {n \in DOMAIN numbers : numbers[n] \in DOMAIN b.values} |->
                    <<Fixed64(b.values[numbers[no]])>>]
  IN  field_message(1, Scalar(1, b.start_ms)) @@ field_message(2, Scalar(1, b.end_ms))
        @@ field_message(b.field, reading) @@ field_varint(6, 1)

Aggregation(identifier, buckets) ==
  field_message(1, identifier)
    @@ field_messages(2, [i \in DOMAIN buckets |-> Measurement(buckets[i])])

\* meters maps a resource and an instance to the buckets it has.
ResourceAnswer(r, meters) ==
  LET key(identifier) == <<AskedResource(r), AskedInstance(identifier)>>
      known == SelectSeq(get_msgs(r, 2), LAMBDA identifier : key(identifier) \in DOMAIN meters)
  IN  field_message(1, field_string(1, AskedResource(r)))
        @@ field_messages(2, [i \in DOMAIN known |-> Aggregation(known[i], meters[key(known[i])])])

EnergyAnswer(request, meters) ==
  LET resources == get_msgs(request, 2)
  IN  field_messages(1, [i \in DOMAIN resources |-> ResourceAnswer(resources[i], meters)])

(***************************************************************************)
(* GetSitesForUser.                                                        *)
(***************************************************************************)
SitesMessage(sites) ==
  field_messages(1, [i \in DOMAIN sites |->
    field_messages(3, [j \in DOMAIN sites[i] |->
      field_messages(1, [k \in DOMAIN sites[i][j] |-> field_string(2, sites[i][j][k])])])])

(***************************************************************************)
(* Damage: one value of a message, at any depth, replaced by another.  A   *)
(* path is a sequence of field numbers with the place among its values.    *)
(***************************************************************************)
RECURSIVE PathsOf(_), ReplaceAtPath(_, _, _)
PathsOf(msg) ==
  UNION {UNION {{<<<<no, i>>>>} \cup {<<<<no, i>>>> \o p : p \in PathsOf(msg[no][i].body)} :
                  i \in DOMAIN msg[no]} : no \in DOMAIN msg}

ReplaceAtPath(msg, path, value) ==
  LET no == path[1][1]
      i == path[1][2]
      new == IF Len(path) = 1
               THEN value
               ELSE [msg[no][i] EXCEPT !.body = ReplaceAtPath(@, Tail(path), value)]
  IN  [msg EXCEPT ![no] = [@ EXCEPT ![i] = new]]

=============================================================================
