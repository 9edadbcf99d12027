---------------------------- MODULE HistoryCodec ----------------------------
(***************************************************************************)
(* What an energy poll asks and how it reads the answer:                   *)
(* span_client/cloud_history.py's request and response, and                *)
(* span_client/backend.py's energy_targets and energy_samples around them. *)
(* Energies are whole numbers standing for the doubles of the wire.        *)
(***************************************************************************)
EXTENDS TelemetryFrame

VENDOR_SPAN == 1
TRAIT_METERING == 26
TRAIT_VERSION == 2
METRIC_ID == 1

_BASIC_FIELDS == (1 :> "import") @@ (2 :> "export")

\* Of _SITE_FIELDS, a flow metered by one component and the one flow that is
\* the sum of three, with a component that no flow of the model uses.
_SITE_FIELDS ==
  (1 :> "grid_import") @@ (2 :> "grid_export")
    @@ (7 :> "solar_to_grid") @@ (8 :> "solar_to_home") @@ (9 :> "solar_to_battery")

SITE_FLOW_ENERGY ==
  [grid |-> {"grid_import"}, solar |-> {"solar_to_grid", "solar_to_home", "solar_to_battery"}]

SITE_NODE == <<"site", 0>>

(***************************************************************************)
(* Targets: resource -> instance -> node.  A sample is a circuit unless it *)
(* is the panel's, or the snapshot named circuits and not this one.        *)
(***************************************************************************)
IsCircuit(sample, circuits) ==
  /\ sample.kind # "panel"
  /\ circuits = {} \/ sample.instance_id \in circuits

Metered(frame, resource, circuits) ==
  {s.instance_id : s \in {x \in ToSet(values(frame.resources, resource)) : IsCircuit(x, circuits)}}

\* The site's own instance; the identifiers 0 and "" are as good as none.
SiteTarget(frame) ==
  {<<site, instance>> \in (frame.site_id \ {""}) \X (frame.site_instance_id \ {0}) :
     DOMAIN frame.site_flows # {}}

energy_targets(frame, circuits) ==
  LET site == UNION {{t[1]} : t \in SiteTarget(frame)}
      metered == {r \in DOMAIN frame.resources : Metered(frame, r, circuits) # {}}
      own(r) == {t[2] : t \in {u \in SiteTarget(frame) : u[1] = r}}
  IN  [r \in metered \cup site |->
         [i \in Metered(frame, r, circuits) \cup own(r) |->
            IF i \in own(r) THEN SITE_NODE ELSE <<"circuit", i>>]]

(***************************************************************************)
(* The request.                                                            *)
(***************************************************************************)
Identifier(instance_id) ==
  field_message(1, field_varint(1, VENDOR_SPAN) @@ field_varint(3, TRAIT_METERING)
                     @@ field_varint(4, TRAIT_VERSION))
    @@ field_message(2, field_varint(1, instance_id))
    @@ field_varint(3, METRIC_ID)

ResourceRequest(resource_id, ids) ==
  field_message(1, field_string(1, resource_id))
    @@ field_messages(2, [i \in DOMAIN ids |-> Identifier(ids[i])])

build_request(instances, start_ms, end_ms, resolution, time_zone) ==
  LET asked == SetToSeq({r \in DOMAIN instances : instances[r] # {}})
  IN  field_message(1, field_message(1, field_varint(1, start_ms))
                         @@ field_message(2, field_varint(1, end_ms))
                         @@ field_varint(3, resolution) @@ field_string(4, time_zone))
        @@ field_messages(2, [i \in DOMAIN asked |->
                                ResourceRequest(asked[i], SetToSeq(instances[asked[i]]))])

(***************************************************************************)
(* The response.                                                           *)
(***************************************************************************)
_epoch_millis(msg, no) == OrElse(UNION {get_uint(m, 1) : m \in get_msg(msg, no)}, 0)

_doubles(msg, names) ==
  [name \in {names[no] : no \in DOMAIN names \cap DOMAIN msg} |->
     OrElse(get_double(msg, CHOOSE no \in DOMAIN names : names[no] = name), 0)]

_bucket(measurement) ==
  LET basic == UNION {{_doubles(m, _BASIC_FIELDS)} : m \in get_msg(measurement, 3)}
      site == UNION {{_doubles(m, _SITE_FIELDS)} : m \in get_msg(measurement, 4)}
      metered == OrElse(site, NoFields) @@ OrElse(basic, NoFields)
  IN  IF DOMAIN metered = {}
        THEN {}
        ELSE {[start_ms |-> _epoch_millis(measurement, 1),
               end_ms   |-> _epoch_millis(measurement, 2),
               values   |-> metered]}

_resource_id(resource) == OrElse(UNION {get_str(m, 1) : m \in get_msg(resource, 1)}, "")

_instance_id(aggregation) ==
  UNION {get_uint(m, 1) : m \in UNION {get_msg(i, 2) : i \in get_msg(aggregation, 1)}}

Series(resource, aggregation) ==
  {[resource_id |-> _resource_id(resource),
    instance_id |-> id,
    buckets     |-> Collected(_bucket, get_msgs(aggregation, 2))] : id \in _instance_id(aggregation)}

parse_response(raw) ==
  LET series(resource) == Collected(LAMBDA a : Series(resource, a), get_msgs(resource, 2))
  IN  FlattenSeq([i \in DOMAIN get_msgs(raw, 1) |-> series(get_msgs(raw, 1)[i])])

\* Nothing here is tolerant of a field of another kind.
DoublesRaise(msg, names) == \E no \in DOMAIN names : get_double_raises(msg, no)

_bucket_raises(measurement) ==
  \/ \E no \in 1 .. 4 : get_msg_raises(measurement, no)
  \/ \E m \in get_msg(measurement, 3) : DoublesRaise(m, _BASIC_FIELDS)
  \/ \E m \in get_msg(measurement, 4) : DoublesRaise(m, _SITE_FIELDS)
  \/ /\ _bucket(measurement) # {}
     /\ \/ get_uint_raises(measurement, 6)
        \/ \E no \in 1 .. 2 : \E m \in get_msg(measurement, no) : get_uint_raises(m, 1)

AggregationRaises(aggregation) ==
  \/ get_msg_raises(aggregation, 1)
  \/ \E i \in get_msg(aggregation, 1) :
       get_msg_raises(i, 2) \/ \E m \in get_msg(i, 2) : get_uint_raises(m, 1)
  \/ /\ _instance_id(aggregation) # {}
     /\ \/ get_msgs_raises(aggregation, 2)
        \/ \E i \in DOMAIN get_msgs(aggregation, 2) : _bucket_raises(get_msgs(aggregation, 2)[i])
        \/ get_msg_raises(aggregation, 3)
        \/ \E m \in get_msg(aggregation, 3) : _bucket_raises(m)

parse_response_raises(raw) ==
  \/ get_msgs_raises(raw, 1)
  \/ \E i \in DOMAIN get_msgs(raw, 1) :
       LET resource == get_msgs(raw, 1)[i]
       IN  \/ get_msg_raises(resource, 1)
           \/ \E m \in get_msg(resource, 1) : get_bytes_raises(m, 1)
           \/ get_msgs_raises(resource, 2)
           \/ \E j \in DOMAIN get_msgs(resource, 2) : AggregationRaises(get_msgs(resource, 2)[j])

(***************************************************************************)
(* Samples, keyed like the power readings.                                 *)
(***************************************************************************)
\* Mutant: a flow needs all of its components.
TotalOfAll(bucket, components) ==
  {FoldFunctionOnSet(+, 0, bucket.values, parts) : parts \in {components} \cap SUBSET DOMAIN bucket.values}

\* Bucket.total: the sum of the components it carries, if it carries any.
total(bucket, components) ==
  LET parts == components \cap DOMAIN bucket.values
  IN  {FoldFunctionOnSet(+, 0, bucket.values, parts) : p \in {parts} \ {{}}}

Sample(key, bucket, kwh) ==
  [key |-> key, start_ms |-> bucket.start_ms, end_ms |-> bucket.end_ms, kwh |-> kwh]

BucketSamples(node, bucket, flows) ==
  IF node = SITE_NODE
    THEN UNION {{Sample(<<SITE_NODE, flow>>, bucket, kwh) :
                   kwh \in total(bucket, SITE_FLOW_ENERGY[flow])} :
                flow \in DOMAIN SITE_FLOW_ENERGY \cap flows}
    ELSE {Sample(<<node, "power">>, bucket, kwh) : kwh \in total(bucket, {"import"})}

Node(targets, one) ==
  IF one.resource_id \in DOMAIN targets /\ one.instance_id \in DOMAIN targets[one.resource_id]
    THEN {targets[one.resource_id][one.instance_id]}
    ELSE {}

energy_samples(series, targets, flows) ==
  UNION {UNION {UNION {BucketSamples(node, bucket, flows) : bucket \in ToSet(one.buckets)} :
                  node \in Node(targets, one)} : one \in ToSet(series)}

=============================================================================
