--------------------------- MODULE TelemetryFrame ---------------------------
(***************************************************************************)
(* span_client/cloud_telemetry.py: one realtime frame decoded into the     *)
(* samples of its circuits and the flows of its site.  All quantities stay *)
(* in the wire's milli-units.                                              *)
(***************************************************************************)
EXTENDS ProtoMessage

\* Of SITE_FLOWS, one of each sort: a power, a power further down the table,
\* and a voltage, which is the unsigned one.
SITE_FLOWS == (1 :> "grid") @@ (3 :> "solar") @@ (51 :> "voltage_l1")
_UNSIGNED_SITE_FLOWS == {51, 52, 53}

_KIND_BY_TAG == (11 :> "two_wire") @@ (12 :> "three_wire") @@ (14 :> "panel")

\* An absent wrapper is an unmeasured quantity; a wrapper without a scalar is
\* a zero.
_leaf_value(opt, signed) ==
  {LET inner == get_msg_opt(msg, 2)
       raw == IF get_int_opt(msg, 3) # {}
                THEN OrElse(get_int_opt(msg, 3), 0)
                ELSE OrElse(UNION {get_int_opt(m, 3) : m \in inner}, 0)
   IN  IF signed THEN zigzag_decode(raw) ELSE raw
   : msg \in opt}

_decode_single_channel(msg) ==
  [current_ma |-> _leaf_value(get_msg_opt(msg, 1), FALSE),
   voltage_mv |-> _leaf_value(get_msg_opt(msg, 2), FALSE),
   power_mw   |-> _leaf_value(get_msg_opt(msg, 3), TRUE),
   freq_mhz   |-> _leaf_value(get_msg_opt(msg, 4), FALSE)]

SingleChannels(opt) == {_decode_single_channel(m) : m \in opt}

NoLegs == [line_an |-> {}, line_bn |-> {}, combined |-> {}]

_decode_double_channel(msg) ==
  [line_an  |-> SingleChannels(get_msg_opt(msg, 1)),
   line_bn  |-> SingleChannels(get_msg_opt(msg, 2)),
   combined |-> SingleChannels(get_msg_opt(msg, 3))]

\* The panel's own frequency sits beside the legs, not in a channel.
PanelMeter(meter) ==
  LET legs == _decode_double_channel(meter)
  IN  [legs EXCEPT !.combined =
         {[c EXCEPT !.freq_mhz = _leaf_value(get_msg_opt(meter, 4), FALSE)] : c \in @}]

_decode_panel(msg) == OrElse({PanelMeter(m) : m \in get_msg_opt(msg, 1)}, NoLegs)

Legs(kind, body) ==
  CASE kind = "two_wire"   -> [NoLegs EXCEPT !.combined = {_decode_single_channel(body)}]
    [] kind = "three_wire" -> _decode_double_channel(body)
    [] kind = "panel"      -> _decode_panel(body)

\* The tags are tried in the order of the table; the first that holds a
\* message decides.
SummaryTags(sample) == {tag \in DOMAIN _KIND_BY_TAG : get_msg_opt(sample, tag) # {}}

_decode_instance(sample) ==
  {LET tag == CHOOSE t \in SummaryTags(sample) : \A u \in SummaryTags(sample) : t <= u
   IN  [instance_id |-> id,
        kind        |-> _KIND_BY_TAG[tag],
        legs        |-> Legs(_KIND_BY_TAG[tag], OrElse(get_msg_opt(sample, tag), NoFields))]
   : id \in {i \in get_uint(sample, 2) : SummaryTags(sample) # {}}}

\* Mutant: a summary that does not parse raises.
RaisesOnSummary(sample) ==
  \/ get_uint_raises(sample, 2)
  \/ \E tag \in DOMAIN _KIND_BY_TAG : get_msg_raises(sample, tag)

_decode_instance_raises(sample) ==
  \/ get_uint_raises(sample, 2)
  \/ get_uint(sample, 2) # {} /\ get_uint_raises(sample, 4)

_decode_site(site_metric) ==
  LET leaf(power, no) == _leaf_value(get_msg_opt(power, no), no \notin _UNSIGNED_SITE_FLOWS)
      flows(power) == {no \in DOMAIN SITE_FLOWS : leaf(power, no) # {}}
  IN  OrElse({[name \in {SITE_FLOWS[no] : no \in flows(power)} |->
                 OrElse(leaf(power, CHOOSE no \in flows(power) : SITE_FLOWS[no] = name), 0)]
              : power \in get_msg_opt(site_metric, 2)}, NoFields)

(***************************************************************************)
(* The wrappers down to the body.                                          *)
(***************************************************************************)
Inside(opt, no) == UNION {get_msg_opt(m, no) : m \in opt}

SiteBlock(root) == get_msg_opt(root, 2)
Envelope(root) == Inside(get_msg_opt(root, 16), 3)
FrameBody(root) == Inside(Envelope(root), 3)

ResourceId(block) == OrElse(UNION {get_str(m, 1) : m \in get_msg_opt(block, 1)}, "")
Blocks(root) == FlattenSeq([i \in 1 .. Cardinality(FrameBody(root)) |->
                              get_msgs(OrElse(FrameBody(root), NoFields), 3)])
BlockSamples(block) == Collected(_decode_instance, get_msgs(block, 2))

\* Two blocks of one resource are put together in the order they came.
Resources(blocks) ==
  FoldLeft(LAMBDA out, block :
             IF BlockSamples(block) = <<>>
               THEN out
               ELSE (ResourceId(block) :> (values(out, ResourceId(block)) \o BlockSamples(block)))
                      @@ out,
           NoFields, blocks)

SiteFlows(metrics) == FoldLeft(LAMBDA out, metric : _decode_site(metric) @@ out, NoFields, metrics)

decode_frame(root) ==
  [epoch_millis     |-> UNION {get_uint(ts, 1) : ts \in Inside(Envelope(root), 2)},
   site_id          |-> UNION {get_str(m, 1) : m \in Inside(SiteBlock(root), 1)},
   site_instance_id |-> UNION {get_uint(m, 1) : m \in Inside(SiteBlock(root), 2)},
   site_flows       |-> OrElse({SiteFlows(get_msgs(body, 2)) : body \in FrameBody(root)}, NoFields),
   resources        |-> Resources(Blocks(root))]

\* A raise anywhere costs the whole frame: _handle_frame drops it.
BlockRaises(block) ==
  \/ \E m \in get_msg_opt(block, 1) : get_bytes_raises(m, 1)
  \/ get_msgs_raises(block, 2)
  \/ \E i \in DOMAIN get_msgs(block, 2) : _decode_instance_raises(get_msgs(block, 2)[i])

decode_frame_raises(root) ==
  \/ \E m \in Inside(SiteBlock(root), 1) : get_bytes_raises(m, 1)
  \/ \E m \in Inside(SiteBlock(root), 2) : get_uint_raises(m, 1)
  \/ \E ts \in Inside(Envelope(root), 2) : get_uint_raises(ts, 1)
  \/ \E body \in FrameBody(root) :
       \/ get_msgs_raises(body, 2)
       \/ get_msgs_raises(body, 3)
       \/ \E i \in DOMAIN get_msgs(body, 3) : BlockRaises(get_msgs(body, 3)[i])

=============================================================================
