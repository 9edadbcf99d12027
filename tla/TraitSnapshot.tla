--------------------------- MODULE TraitSnapshot ---------------------------
(***************************************************************************)
(* span_client/cloud_traits.py: the snapshot SubscribeAndGetTraits returns,*)
(* read into what is known of each circuit, and                            *)
(* span_client/cloud_commands.py: the request that switches its relay.     *)
(***************************************************************************)
EXTENDS ProtoMessage

VENDOR_SPAN == 1
TRAIT_CIRCUIT == 15
TRAIT_LABEL == 16
TRAIT_SPACE == 17
TRAIT_SWITCH == 31

SWITCH_STATE_UNKNOWN == 1
SWITCH_STATE_OPEN == 2
SWITCH_STATE_CLOSED == 3

_POSITION_FIELDS == <<11, 13>>
_MAX_DEPTH == 8

_msg_or_none(msg, no) == IF get_msg_raises(msg, no) THEN {} ELSE get_msg(msg, no)

(***************************************************************************)
(* The index of trait entries.                                             *)
(***************************************************************************)
ResourceRef(resource) == UNION {get_str(ref, 1) : ref \in get_msg(resource, 1)}

\* The entries of the index that one trait entry makes: one, or none.
TraitEntry(resource, entry) ==
  {<<<<vendor, trait,
       OrElse(UNION {get_int_opt(i, 1) : i \in get_msg(entry, 2)}, 0)>>,
     [resource_id |-> ResourceRef(resource),
      metadata    |-> <<{vendor}, get_int_opt(key, 2), {trait}, get_int_opt(key, 4)>>,
      value       |-> body]>> :
     key    \in get_msg(entry, 1),
     body   \in UNION {get_msg(value, 2) : value \in get_msg(entry, 3)},
     vendor \in UNION {get_int_opt(k, 1) : k \in get_msg(entry, 1)},
     trait  \in UNION {get_int_opt(k, 3) : k \in get_msg(entry, 1)}}

EntryRaises(entry) ==
  \/ \E no \in 1 .. 3 : get_msg_raises(entry, no)
  \/ /\ get_msg(entry, 1) # {}
     /\ \E value \in get_msg(entry, 3) :
          \/ get_bytes_raises(value, 2)
          \/ /\ \A key \in get_msg(entry, 1) : get_int_opt(key, 1) # {} /\ get_int_opt(key, 3) # {}
             /\ get_msg_raises(value, 2)

ResourceRaises(resource) ==
  \/ get_msg_raises(resource, 1)
  \/ \E ref \in get_msg(resource, 1) : get_bytes_raises(ref, 1)
  \/ get_msgs_raises(resource, 2)
  \/ \E i \in DOMAIN get_msgs(resource, 2) : EntryRaises(get_msgs(resource, 2)[i])

_index_traits_raises(raw) ==
  \/ get_msgs_raises(raw, 1)
  \/ \E i \in DOMAIN get_msgs(raw, 1) : ResourceRaises(get_msgs(raw, 1)[i])

\* A later entry of the same vendor, trait and instance takes the place of an
\* earlier one, whatever resource it belongs to.
_index_traits(raw) ==
  LET entries(resource) == Collected(LAMBDA e : TraitEntry(resource, e), get_msgs(resource, 2))
      all == FlattenSeq([i \in DOMAIN get_msgs(raw, 1) |-> entries(get_msgs(raw, 1)[i])])
  IN  FoldLeft(LAMBDA out, e : (e[1] :> e[2]) @@ out, NoFields, all)

(***************************************************************************)
(* Every TraitRef below a message, depth first.                            *)
(***************************************************************************)
OwnRef(msg) ==
  {<<vendor, trait, ident>> :
     vendor \in UNION {get_int_opt(k, 1) : k \in _msg_or_none(msg, 1)},
     trait  \in UNION {get_int_opt(k, 3) : k \in _msg_or_none(msg, 1)},
     ident  \in UNION {get_int_opt(i, 1) : i \in _msg_or_none(msg, 2)}}

RECURSIVE _trait_refs(_, _)
_trait_refs(msg, depth) ==
  IF depth > _MAX_DEPTH
    THEN <<>>
    ELSE LET numbers == SetToSortSeq(DOMAIN msg, <)
             all == FlattenSeq([i \in DOMAIN numbers |-> values(msg, numbers[i])])
             nested == SelectSeq(all, LAMBDA v : IsBytes(v) /\ v.parses)
         IN  SetToSeq(OwnRef(msg))
               \o FlattenSeq([i \in DOMAIN nested |-> _trait_refs(nested[i].body, depth + 1)])

\* Mutant: a reference is followed whatever trait it names.
RefsToAny(refs, trait) ==
  LET wanted == SelectSeq(refs, LAMBDA r : r[1] = VENDOR_SPAN)
  IN  [i \in DOMAIN wanted |-> wanted[i][3]]

RefsTo(refs, trait) ==
  LET wanted == SelectSeq(refs, LAMBDA r : r[1] = VENDOR_SPAN /\ r[2] = trait)
  IN  [i \in DOMAIN wanted |-> wanted[i][3]]

_trait_inner(traits, trait, instance) ==
  IF <<VENDOR_SPAN, trait, instance>> \in DOMAIN traits
    THEN _msg_or_none(traits[<<VENDOR_SPAN, trait, instance>>].value, 1)
    ELSE {}

(***************************************************************************)
(* A circuit: its label, its spaces, and its switch.                       *)
(***************************************************************************)
NoSwitch == [relay_closed |-> {}, switch |-> {}]

RelayClosed(inner) ==
  LET state == get_int_opt(inner, 3)
  IN  {TRUE : s \in state \cap {SWITCH_STATE_CLOSED}} \cup {FALSE : s \in state \cap {SWITCH_STATE_OPEN}}

\* Mutant: the switch entry need not point back.
SwitchUnchecked(instance, traits) ==
  LET id == <<VENDOR_SPAN, TRAIT_SWITCH, instance>>
  IN  OrElse({[relay_closed |-> RelayClosed(m),
               switch |-> {[resource_id |-> r, instance_id |-> instance,
                            metadata |-> traits[id].metadata] : r \in traits[id].resource_id}]
              : m \in _trait_inner(traits, TRAIT_SWITCH, instance)}, NoSwitch)

\* A switch is offered only if its entry points back at this very circuit.
_switch_for(instance, traits) ==
  LET id == <<VENDOR_SPAN, TRAIT_SWITCH, instance>>
      inner == _trait_inner(traits, TRAIT_SWITCH, instance)
      back_ref(m) == ToSet(_trait_refs(m, 0))
  IN  OrElse({[relay_closed |-> RelayClosed(m),
               switch |-> {[resource_id |-> r, instance_id |-> instance,
                            metadata |-> traits[id].metadata] : r \in traits[id].resource_id}]
              : m \in {m \in inner : /\ traits[id].resource_id # {}
                                     /\ <<VENDOR_SPAN, TRAIT_CIRCUIT, instance>> \in back_ref(m)}},
             NoSwitch)

\* The first position block that holds a message.
Position(inner) ==
  LET found == SelectSeq(_POSITION_FIELDS, LAMBDA no : _msg_or_none(inner, no) # {})
  IN  IF found = <<>> THEN {} ELSE _msg_or_none(inner, Head(found))

LabelBody(body, traits) ==
  UNION {LET labels == RefsTo(_trait_refs(position, 0), TRAIT_LABEL)
         IN  IF labels = <<>> THEN {} ELSE _trait_inner(traits, TRAIT_LABEL, Head(labels))
         : position \in UNION {Position(inner) : inner \in get_msg(body, 1)}}

Spaces(body, traits) ==
  UNION {UNION {get_int_opt(m, 3) : m \in _trait_inner(traits, TRAIT_SPACE, space)} :
           space \in UNION {ToSet(RefsTo(_trait_refs(position, 0), TRAIT_SPACE)) :
             position \in UNION {Position(inner) : inner \in get_msg(body, 1)}}}

_circuit_from(instance, body, traits) ==
  {[instance_id  |-> instance,
    label        |-> UNION {get_str(m, 4) : m \in LabelBody(body, traits)} \ {""},
    spaces       |-> Spaces(body, traits),
    breaker_amps |-> UNION {get_int_opt(m, 3) : m \in LabelBody(body, traits)},
    relay_closed |-> _switch_for(instance, traits).relay_closed,
    switch       |-> _switch_for(instance, traits).switch]
   : inner \in get_msg(body, 1)}

\* These two accessors are outside the function's try, and do raise.
_circuit_from_raises(body, traits) ==
  \/ get_msg_raises(body, 1)
  \/ \E m \in LabelBody(body, traits) : get_bytes_raises(m, 4)

Circuits(traits) == {id[3] : id \in {i \in DOMAIN traits : i[1] = VENDOR_SPAN /\ i[2] = TRAIT_CIRCUIT}}
CircuitBody(traits, instance) == traits[<<VENDOR_SPAN, TRAIT_CIRCUIT, instance>>].value

parse_trait_snapshot(raw) ==
  IF _index_traits_raises(raw)
    THEN NoFields
    ELSE LET traits == _index_traits(raw)
             info(i) == _circuit_from(i, CircuitBody(traits, i), traits)
         IN  [i \in {j \in Circuits(traits) : info(j) # {}} |-> OrElse(info(i), i)]

parse_trait_snapshot_raises(raw) ==
  /\ ~_index_traits_raises(raw)
  /\ LET traits == _index_traits(raw)
     IN  \E i \in Circuits(traits) : _circuit_from_raises(CircuitBody(traits, i), traits)

(***************************************************************************)
(* The command.                                                            *)
(***************************************************************************)
CONTROL_SOURCE_USER_COMMAND == 5
_REQUEST_DISCONNECT == 1
_REQUEST_RELEASE == 2
DEFAULT_TIMEOUT_MS == 30000

_disconnect_reason(control_source) == field_message(1, field_varint(3, control_source))

switch_payload(closed) ==
  field_message(IF closed THEN _REQUEST_RELEASE ELSE _REQUEST_DISCONNECT,
                _disconnect_reason(CONTROL_SOURCE_USER_COMMAND))

Metadata(metadata) ==
  [no \in {n \in DOMAIN metadata : metadata[n] # {}} |-> <<Num(OrElse(metadata[no], 0))>>]

build_trait_message(target, payload, requester_id, request_id, timeout_ms) ==
  field_message(1, Metadata(target.metadata))
    @@ field_message(2, field_message(1, field_string(1, target.resource_id))
                          @@ field_message(2, field_varint(1, target.instance_id)))
    @@ field_message(14,
         field_message(1, field_message(2, field_string(1, requester_id))
                            @@ field_message(3, field_string(1, request_id))
                            @@ field_varint(4, timeout_ms))
           @@ field_message(2, field_message(1, payload)))

build_send_messages(messages) == field_messages(1, messages)

build_switch_request(target, closed, requester_id, request_id) ==
  build_send_messages(<<build_trait_message(target, switch_payload(closed), requester_id,
                                            request_id, DEFAULT_TIMEOUT_MS)>>)

=============================================================================
