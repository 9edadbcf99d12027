------------------------------ MODULE Payloads ------------------------------
(***************************************************************************)
(* Everything the clients encode or decode, held against what the other    *)
(* side meant.  One action per kind of payload: it takes any of the inputs *)
(* of its kind and gives what the code makes of it.  The inputs are built  *)
(* by CloudServer from a state of the panel, so that the properties may    *)
(* compare the answer with that state and not with the encoding.           *)
(***************************************************************************)
EXTENDS HistoryCodec, WirePayloads, ChannelPayloads, LocalPayloads, SignInPayloads

Traits == INSTANCE TraitSnapshot
Server == INSTANCE CloudServer

(***************************************************************************)
(* Frames.                                                                 *)
(***************************************************************************)
NoChannel == [current_ma |-> {}, voltage_mv |-> {}, power_mw |-> {}, freq_mhz |-> {}]
ChannelOf(current, power) == [NoChannel EXCEPT !.current_ma = current, !.power_mw = power]

OfKind(id, sort, legs) == [instance_id |-> id, kind |-> sort, legs |-> legs]
TwoWire(id, c) == OfKind(id, "two_wire", [NoLegs EXCEPT !.combined = {c}])
ThreeWire(id, leg, c) ==
  OfKind(id, "three_wire", [line_an |-> {leg}, line_bn |-> {}, combined |-> {c}])
PanelSample(id, leg, c) ==
  OfKind(id, "panel", [line_an |-> {leg}, line_bn |-> {leg}, combined |-> {c}])

Powers == {{}, {0}, {5}, {-5}}
Leg == [NoChannel EXCEPT !.current_ma = {4}, !.voltage_mv = {120}]

\* Two branch circuits, the main feed and the panel's own block, published by
\* one resource in one block or in two.
FrameSamples ==
  {<<TwoWire(1, ChannelOf(current, p)), ThreeWire(2, ChannelOf({4}, {}), ChannelOf({4}, q)),
     TwoWire(3, ChannelOf({8}, {9})),
     PanelSample(4, Leg, [ChannelOf({8}, q) EXCEPT !.freq_mhz = f])>> :
     current \in {{}, {0}, {7}}, p, q \in Powers, f \in {{}, {60}}}

Flows == [grid : Powers, solar : {{}, {2}}, voltage_l1 : {{}, {120}}]

Full ==
  [samples |-> <<TwoWire(1, ChannelOf({7}, {5})), ThreeWire(2, ChannelOf({4}, {}), ChannelOf({4}, {-5})),
                 TwoWire(3, ChannelOf({8}, {9})),
                 PanelSample(4, Leg, [ChannelOf({8}, {5}) EXCEPT !.freq_mhz = {60}])>>,
   flows |-> [grid |-> {-5}, solar |-> {2}, voltage_l1 |-> {120}], split |-> FALSE, wrapped |-> FALSE]

FrameTruths ==
  {[Full EXCEPT !.samples = samples, !.split = split, !.wrapped = wrapped] :
     samples \in FrameSamples, split, wrapped \in BOOLEAN}
  \cup {[Full EXCEPT !.flows = flows, !.wrapped = wrapped] : flows \in Flows, wrapped \in BOOLEAN}

BlocksOf(truth) ==
  LET block(samples) == [resource |-> "panel", samples |-> samples]
  IN  IF truth.split
        THEN <<block(SubSeq(truth.samples, 1, 1)), block(SubSeq(truth.samples, 2, 4))>>
        ELSE <<block(truth.samples)>>

FrameOf(truth) == Server!FrameMessage(77, "site-1", 9, truth.flows, BlocksOf(truth), truth.wrapped)

\* _handle_frame: a frame that raises is dropped.
DecodedFrame(message) ==
  LET root == message IN IF decode_frame_raises(root) THEN {} ELSE {decode_frame(root)}

OnFrame ==
  /\ Comes("frame")
  /\ \E truth \in FrameTruths : Handled(truth, DecodedFrame(FrameOf(truth)))

Damages == {Junk, Num(9)}

\* The same frame with one value spoilt, wherever it is.
OnDamagedFrame ==
  /\ Comes("damaged frame")
  /\ \E split, wrapped \in BOOLEAN : \E v \in Damages :
       LET truth == [Full EXCEPT !.split = split, !.wrapped = wrapped]
       IN  \E path \in Server!PathsOf(FrameOf(truth)) :
             Handled([truth |-> truth, path |-> path],
                     DecodedFrame(Server!ReplaceAtPath(FrameOf(truth), path, v)))

(***************************************************************************)
(* Subscribing: the sites answer, the subscribe request made from it, the  *)
(* snapshot that comes back and what it names; and the commands that may   *)
(* be given on it.                                                         *)
(***************************************************************************)
SitesGiven ==
  {<<<<<<"panel">>>>>>, <<<<<<"site-1", "panel">>>>>>, <<<<<<"panel">>, <<"annex">>>>, <<<<"panel">>>>>>,
   <<<<<<"annex", "", "panel", "annex">>>>>>}

ChannelGiven == "c:user:device"

PanelCircuits ==
  {(1 :> one) @@ (2 :> two) :
     one \in [wire : {11}, levels : {0, 7}, label : {{}, {"Kitchen"}}, spaces : {{}, {9}},
              amps : {{}, {20}}, state : 1 .. 3, switches : {0, 1, 2}],
     two \in {[wire |-> 13, levels |-> 1, label |-> {"Heat pump"}, spaces |-> {47, 48},
               amps |-> {40}, state |-> 3, switches |-> b] : b \in {1, 2}}}

AnnexCircuits ==
  5 :> [wire |-> 11, levels |-> 1, label |-> {"Garage"}, spaces |-> {9}, amps |-> {15},
        state |-> 2, switches |-> 5]

PanelsOf(circuits) ==
  <<[hardware_id |-> "panel", circuits |-> circuits],
    [hardware_id |-> "annex", circuits |-> AnnexCircuits]>>

SiteTruths ==
  {[sites |-> sites, circuits |-> c, backwards |-> b] :
     sites \in {<<<<<<"panel">>>>>>, <<<<<<"annex", "", "panel", "annex">>>>>>},
     c \in PanelCircuits, b \in BOOLEAN}
FullSite ==
  [sites |-> <<<<<<"panel", "annex">>>>>>, backwards |-> FALSE,
   circuits |->
     (1 :> [wire |-> 11, levels |-> 1, label |-> {"Kitchen"}, spaces |-> {9}, amps |-> {20},
            state |-> 2, switches |-> 1])
       @@ (2 :> [wire |-> 13, levels |-> 0, label |-> {"Heat pump"}, spaces |-> {47, 48},
                 amps |-> {40}, state |-> 3, switches |-> 2])]

SubscribeFor(sites) ==
  build_subscribe_request(ChannelGiven, parse_sites_hardware_ids(Server!SitesMessage(sites)))

SnapshotOf(truth) ==
  Server!SnapshotMessage(PanelsOf(truth.circuits), SubscribeFor(truth.sites), truth.backwards)

\* bootstrap and the subscribe that follows it: the channel attached to and
\* the request that registers it; nothing when bootstrap raises.
Attached(sites, answer, fallback, exchange) ==
  {[token |-> at[1], channel |-> at[2],
    request |-> build_subscribe_request(at[2], parse_sites_hardware_ids(sites))] :
      at \in bootstrap(answer, fallback, exchange)}

TokenAnswer(field1, said) ==
  [no \in {1 : f \in field1} \cup {2 : s \in said} |-> <<Txt(IF no = 1 THEN Server!Text(field1) ELSE Server!Text(said))>>]

\* What Ably makes of a signed request.
Exchanges == [http : {0, 200, 201, 401}, token : {{}, {""}, {"exchanged"}}]

OnAttach ==
  /\ Comes("attach")
  /\ \E sites \in SitesGiven : \E field1 \in {{}} \cup {{s} : s \in Braced \cup {"", "plain"}} :
     \E said \in {{}, {""}, {"theirs"}} : \E fallback \in {{}, {"own"}} : \E exchange \in Exchanges :
       Handled([sites |-> sites, field1 |-> field1, said |-> said, fallback |-> fallback,
                exchange |-> exchange],
               Attached(Server!SitesMessage(sites), TokenAnswer(field1, said), fallback, exchange))

\* _refresh_circuits: a snapshot that raises leaves the circuits as they were.
ParsedSnapshot(message) ==
  LET raw == message
  IN  IF Traits!parse_trait_snapshot_raises(raw) THEN {} ELSE {Traits!parse_trait_snapshot(raw)}

OnSnapshot ==
  /\ Comes("snapshot")
  /\ \E truth \in SiteTruths : Handled(truth, ParsedSnapshot(SnapshotOf(truth)))

OnDamagedSnapshot ==
  /\ Comes("damaged snapshot")
  /\ \E path \in Server!PathsOf(SnapshotOf(FullSite)) :
       Handled(path,
               ParsedSnapshot(Server!ReplaceAtPath(SnapshotOf(FullSite), path, Junk)))

\* Any command on any circuit, and what reached the service of it: nothing
\* when the circuit was offered no switch.
Sent(message, i, closed, claim) ==
  {Server!Understood(Head(get_msgs(Traits!build_switch_request(target, closed, requester, "r1"), 1))) :
     target \in UNION {circuits[i].switch : circuits \in ParsedSnapshot(message)},
     requester \in _requester_id(claim, {"configured"})}

CommandTruths ==
  {t \in SiteTruths : LET one == t.circuits[1]
                      IN  <<one.levels, one.label, one.spaces, one.amps>> = <<0, {"Kitchen"}, {9}, {20}>>}

OnCommand ==
  /\ Comes("command")
  /\ \E truth \in CommandTruths : \E closed \in BOOLEAN : \E claim \in {{}, {"user"}} :
     \E i \in DOMAIN truth.circuits :
       Handled([truth |-> truth, circuit |-> i, closed |-> closed, claim |-> claim],
               Sent(SnapshotOf(truth), i, closed, claim))

(***************************************************************************)
(* Energy: what is asked for after a frame, and what the answer becomes.   *)
(***************************************************************************)
Bucket(start, field, measured) ==
  [start_ms |-> start, end_ms |-> start + 15, field |-> field, values |-> measured]

CircuitBuckets == {<<>>, <<Bucket(0, 3, [import |-> 2, export |-> 1]), Bucket(15, 3, [import |-> 0])>>,
                   <<Bucket(15, 3, [export |-> 1]), Bucket(30, 5, NoFields)>>}
SiteBuckets == {<<Bucket(0, 4, [grid_import |-> 4, solar_to_home |-> 1, solar_to_grid |-> 2])>>,
                <<Bucket(0, 4, [grid_export |-> 4]), Bucket(15, 4, [solar_to_battery |-> 3])>>}

EnergyTruths ==
  [named : {{}, {1, 2}, {1}}, first : CircuitBuckets, second : CircuitBuckets, site : SiteBuckets,
   metered : {{1, 2}, {1}, {1, 2, 3}}, flows : {{}, {"grid"}, {"grid", "solar"}}]

Meters(truth) ==
  LET buckets(i) == IF i = 1 THEN truth.first ELSE truth.second
  IN  [k \in {<<"panel", i>> : i \in truth.metered} \cup {<<"site-1", 9>>} |->
         IF k[1] = "site-1" THEN truth.site ELSE buckets(k[2])]

EnergyFlows(truth) ==
  LET shown(flow) == IF flow \in truth.flows THEN {1} ELSE {}
  IN  [grid |-> shown("grid"), solar |-> shown("solar"), voltage_l1 |-> {120}]

Polled(truth) ==
  LET frame == CHOOSE f \in DecodedFrame(FrameOf([Full EXCEPT !.flows = EnergyFlows(truth)])) : TRUE
      targets == energy_targets(frame, truth.named)
      request == build_request([r \in DOMAIN targets |-> DOMAIN targets[r]], 0, 60, 2, "tz")
      answer == Server!EnergyAnswer(request, Meters(truth))
  IN  IF parse_response_raises(answer)
        THEN {}
        ELSE {energy_samples(parse_response(answer), targets, DOMAIN frame.site_flows)}

OnEnergy ==
  /\ Comes("energy")
  /\ \E truth \in EnergyTruths : Handled(truth, Polled(truth))

Next ==
  \/ OnFrame \/ OnDamagedFrame
  \/ OnAttach \/ OnSnapshot \/ OnDamagedSnapshot \/ OnCommand
  \/ OnEnergy
  \/ SignInNext
  \/ WireNext
  \/ ChannelNext
  \/ LocalNext
  \/ Rest

Spec == Init /\ [][Next]_vars

(***************************************************************************)
(* What must hold.                                                         *)
(***************************************************************************)

MeasuredFlows(flows) ==
  [name \in {n \in DOMAIN flows : flows[n] # {}} |-> CHOOSE v \in flows[name] : TRUE]

\* A frame says of every circuit exactly what the panel measured: a zero is a
\* zero, an unmeasured quantity is absent, an export is negative, whatever the
\* nesting and the number of blocks (decode_frame, _leaf_value).
FrameTellsPanel ==
  kind = "frame" =>
    got = {[epoch_millis |-> {77}, site_id |-> {"site-1"}, site_instance_id |-> {9},
            site_flows |-> MeasuredFlows(given.flows), resources |-> "panel" :> given.samples]}

\* The sample that a path runs through, with the samples counted over blocks.
SampleOf(truth, path) ==
  IF Len(path) >= 5 /\ path[1][1] = 16 /\ path[3][1] = 3 /\ path[4][1] = 3 /\ path[5][1] = 2
    THEN {path[5][2] + IF truth.split THEN path[4][2] - 1 ELSE 0}
    ELSE {}
InSummary(truth, path) == SampleOf(truth, path) # {} /\ Len(path) >= 6 /\ path[6][1] \in {11, 12, 14}
OfSite(path) == Len(path) >= 4 /\ path[1][1] = 16 /\ path[3][1] = 3 /\ path[4][1] = 2
InFlows(path) == OfSite(path) /\ Len(path) >= 5

\* One spoilt value inside a circuit's measurements or the site's costs at most
\* what it holds: the frame is still read, every other circuit and the flows
\* say what the panel measured, and so do the other slots of a two-wire
\* circuit.  Anywhere else it may cost the frame, but no circuit is given a
\* reading that it did not send (get_msg_opt, get_int_opt, decode_frame).
DamageStaysLocal ==
  kind = "damaged frame" =>
    LET truth == given.truth
        path == given.path
        hit == SampleOf(truth, path)
        samples(frame) == UNION {ToSet(frame.resources[r]) : r \in DOMAIN frame.resources}
    IN  /\ InSummary(truth, path) \/ InFlows(path) => got # {}
        /\ \A frame \in got :
             /\ \A s \in samples(frame) : \E i \in 1 .. 4 : s = truth.samples[i] \/ i \in hit
             /\ InSummary(truth, path) \/ InFlows(path) =>
                  \A i \in 1 .. 4 : i \in hit \/ truth.samples[i] \in samples(frame)
             /\ ~OfSite(path) /\ DOMAIN frame.resources # {} =>
                  frame.site_flows = MeasuredFlows(truth.flows)
             /\ InSummary(truth, path) /\ Len(path) >= 7 /\ path[6][1] = 11 /\ path[7][1] # 3 =>
                  \A i \in hit : \E s \in samples(frame) :
                    /\ s.instance_id = truth.samples[i].instance_id
                    /\ {c.power_mw : c \in s.legs.combined} = {c.power_mw : c \in truth.samples[i].legs.combined}

\* A frame is what the panel measured, whole or with one value spoilt.
FramesAreFaithful == FrameTellsPanel /\ DamageStaysLocal

\* The attach uses the channel SPAN named, or else the one of the user, and
\* registers that very channel for each resource of the sites once, with every
\* trait that the snapshot's and the frames' readers look for; a signed request
\* is never used as a token, but exchanged, and there is no attach on an
\* exchange that failed (bootstrap, parse_ably_token, request_token,
\* parse_sites_hardware_ids, build_subscribe_request).
RegistersWhatItReads ==
  kind = "attach" =>
    LET signed == given.field1 \in {{"{mac}"}, {"{nonce}"}}
        channels == (given.said \cup given.fallback) \ {""}
        issued == given.exchange.http \in {200, 201} /\ given.exchange.token = {"exchanged"}
        ids == FlattenSeq([i \in DOMAIN given.sites |-> FlattenSeq(given.sites[i])])
        wanted == {i \in DOMAIN ids : ids[i] # "" /\ \A j \in 1 .. i - 1 : ids[j] # ids[i]}
    IN  /\ signed => (got # {} <=> issued /\ channels # {})
        /\ \A at \in got :
             LET asked == Server!AskedResources(at.request)
             IN  /\ at.channel = IF given.said \in {{}, {""}} THEN Server!Text(given.fallback) ELSE "theirs"
                 /\ at.channel = Server!AskedChannel(at.request)
                 /\ Len(asked) = Cardinality(wanted)
                 /\ \A i \in wanted : asked[Cardinality({j \in wanted : j <= i})] = ids[i]
                 /\ {15, 16, 17, 26, 31} \subseteq Server!AskedTraits(at.request)
                 /\ at.token \notin {"", "{mac}", "{nonce}", "{token}", "{other}"}
                 /\ signed <=> at.token = "exchanged"

PanelsAsked(sites) == ToSet(FlattenSeq(FlattenSeq(sites)))
CircuitsOf(truth) ==
  (IF "annex" \in PanelsAsked(truth.sites) THEN AnnexCircuits ELSE NoFields)
    @@ (IF "panel" \in PanelsAsked(truth.sites) THEN truth.circuits ELSE NoFields)

InfoOf(truth, i) ==
  LET c == CircuitsOf(truth)[i]
      panel == IF i \in DOMAIN AnnexCircuits THEN "annex" ELSE "panel"
      own == c.switches = i
  IN  [instance_id |-> i, label |-> c.label, spaces |-> c.spaces, breaker_amps |-> c.amps,
       relay_closed |-> IF own /\ c.state \in {2, 3} THEN {c.state = 3} ELSE {},
       switch |-> IF own THEN {[resource_id |-> panel, instance_id |-> i,
                                metadata |-> <<{1}, {}, {31}, {1}>>]}
                         ELSE {}]

\* A snapshot names each circuit of the panels that were asked about with its
\* own label, spaces, rating and relay, in whatever order its entries come and
\* however deep its references lie; a relay whose entry belongs to another
\* circuit is left alone (parse_trait_snapshot, _trait_refs, _switch_for).
SnapshotNames ==
  kind = "snapshot" => got = {[i \in DOMAIN CircuitsOf(given) |-> InfoOf(given, i)]}

\* One unreadable value in a snapshot may cost names, but it gives no circuit
\* the name, the space or the relay of another, and no switch to an instance
\* that is no circuit (parse_trait_snapshot).
DamageNeverMisnames ==
  kind = "damaged snapshot" =>
    \A circuits \in got : \A i \in DOMAIN circuits :
      LET own == InfoOf(FullSite, i)
      IN  IF i \in DOMAIN CircuitsOf(FullSite)
            THEN /\ circuits[i].label \subseteq own.label \cup {Garbled}
                 /\ \A part \in {"spaces", "breaker_amps", "relay_closed"} :
                      circuits[i][part] \subseteq own[part]
                 /\ \A target \in circuits[i].switch : \E t \in own.switch :
                      /\ target.instance_id = t.instance_id
                      /\ target.resource_id \in {t.resource_id, Garbled}
            ELSE circuits[i].switch = {}

\* A circuit's name, spaces and relay are its own, in a whole snapshot or one with
\* a value spoilt.
SnapshotsAreFaithful == SnapshotNames /\ DamageNeverMisnames

\* A command opens or releases the breaker of the circuit it was given for, on
\* the panel that owns it, in the name of the user; for a circuit whose switch
\* is in doubt none is sent (build_switch_request, SwitchTarget).
CommandReachesItsBreaker ==
  kind = "command" =>
    got = {[trait |-> {31}, resource |-> {"panel"}, instance |-> {given.circuit},
            requester |-> IF given.claim = {} THEN {"configured"} ELSE given.claim,
            opens |-> ~given.closed, releases |-> given.closed, source |-> {5}] :
           i \in {i \in {given.circuit} : given.truth.circuits[i].switches = i
                                            /\ "panel" \in PanelsAsked(given.truth.sites)}}

Kwh(b, names) == FoldFunctionOnSet(+, 0, b.values, names \cap DOMAIN b.values)
SampleOfBucket(key, b, kwh) == [key |-> key, start_ms |-> b.start_ms, end_ms |-> b.end_ms, kwh |-> kwh]

CircuitSamples(truth) ==
  UNION {{SampleOfBucket(<<<<"circuit", i>>, "power">>, b, b.values.import) :
            b \in {x \in ToSet(Meters(truth)[<<"panel", i>>]) : "import" \in DOMAIN x.values}} :
         i \in {j \in truth.metered : truth.named = {} \/ j \in truth.named}}
SiteSamples(truth) ==
  LET parts(flow) == IF flow = "grid" THEN {"grid_import"}
                     ELSE {"solar_to_grid", "solar_to_home", "solar_to_battery"}
  IN  UNION {{SampleOfBucket(<<<<"site", 0>>, flow>>, b, Kwh(b, parts(flow))) :
                b \in {x \in ToSet(truth.site) : parts(flow) \cap DOMAIN x.values # {}}} :
             flow \in truth.flows}

\* A poll brings back, for every circuit the frames name and for the site's
\* published flows, exactly the energy its meter recorded, under the key of its
\* power reading, and nothing for what is not metered (energy_targets,
\* build_request, parse_response, energy_samples).
EnergyIsMetered ==
  kind = "energy" => got = {CircuitSamples(given) \cup SiteSamples(given)}

=============================================================================
