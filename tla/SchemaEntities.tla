--------------------------- MODULE SchemaEntities ---------------------------
(***************************************************************************)
(* From the first frame to the entities: CloudBackend._handle_frame, which *)
(* names what a frame carries with the circuits of the latest snapshot and *)
(* publishes the schema once; the coordinator, which hands its specs to    *)
(* the platforms that have registered; and the readings and energy targets *)
(* named after it.                                                         *)
(*                                                                         *)
(* The stream thread and the snapshot thread share _circuits and the label *)
(* deadline without a lock, and _handle_frame reads them for the schema,   *)
(* the targets and the readings in turn, so it takes a step for each.      *)
(*                                                                         *)
(* What the panel publishes and what its snapshot names are external.  The *)
(* panel's own node and the site's flows are left out: their names depend  *)
(* on nothing.                                                             *)
(***************************************************************************)
EXTENDS Integers, FiniteSets

CONSTANTS
    Branches,   \* instances that are branch circuits, all with a switch
    Feed,       \* the instance that is the main feed
    Platforms,  \* the platforms: "sensor" and "switch"
    Unusual     \* what else SPAN does: "slow" and "empty" snapshots, "appear"

ASSUME SchemaAssumption ==
    /\ IsFiniteSet(Branches)
    /\ Feed \notin Branches
    /\ Platforms \subseteq {"sensor", "switch"}
    /\ Unusual \subseteq {"slow", "empty", "appear"}

VARIABLES
    publishing,  \* external: instances the frames carry
    circuits,    \* instances of _circuits
    labelsOver,  \* the label deadline has passed, or been zeroed
    unlabelled,  \* it passed, or was zeroed, without a circuit named (history)
    schemaSent,  \* _schema_sent
    handling,    \* where _handle_frame is
    targets,     \* _energy_targets, as the keys they are booked under
    posted,      \* schemas on their way to the event loop, with their key sets
    schema,      \* the coordinator's schema: a set of keys, {} when None
    registered,  \* platforms that have registered their adder
    seen,        \* _Platform.seen
    created,     \* how many entities each platform built for a key
    buffer,      \* keys in the coordinator's reading buffer
    data         \* keys in coordinator.data

backend     == <<circuits, labelsOver, schemaSent, handling, targets>>
coordinator == <<schema, registered, seen, created, data>>
vars        == <<publishing, backend, unlabelled, posted, coordinator, buffer>>

Instances == Branches \cup {Feed}

\* PropertySpec.key: node id and property.
Keys == [node : {"circuit", "feed"}, instance : Instances, property : {"power", "relay"}]

\* _node_for
NodeFor(i, known) == IF known # {} /\ i \notin known THEN "feed" ELSE "circuit"

PowerKey(i, known) == [node |-> NodeFor(i, known), instance |-> i, property |-> "power"]
RelayKey(i) == [node |-> "circuit", instance |-> i, property |-> "relay"]

\* schema_from_frame and readings_from_frame name alike, given the same circuits: a
\* power for every sample, a relay for every one the snapshot gave a switch.
KeysFrom(samples, known) ==
    {PowerKey(i, known) : i \in samples} \cup {RelayKey(i) : i \in samples \cap known}

\* energy_targets: what is named a circuit.
TargetsFrom(samples, known) ==
    {PowerKey(i, known) : i \in {j \in samples : PowerKey(j, known).node = "circuit"}}

\* What gets an energy sensor beside its power sensor.
IsMetered(k) == k.node = "circuit" /\ k.property = "power"

\* The platforms' `wants`.
Wants(p, k) == (p = "switch") <=> (k.property = "relay")

-----------------------------------------------------------------------------
Init ==
    /\ publishing \in IF "appear" \in Unusual THEN {s \in SUBSET Instances : Feed \in s}
                      ELSE {Instances}
    /\ circuits = {} /\ labelsOver = FALSE /\ unlabelled = FALSE /\ schemaSent = FALSE
    /\ handling = "idle" /\ targets = {}
    /\ posted = {}
    /\ schema = {} /\ registered = {}
    /\ seen = [p \in Platforms |-> {}]
    /\ created = [p \in Platforms |-> [k \in Keys |-> 0]]
    /\ buffer = {} /\ data = {}

(* The backend *)

\* _refresh_circuits: a snapshot that names circuits replaces them all, and any
\* answer releases the schema.
Snapshot ==
    /\ \E named \in {Branches} \cup (IF "empty" \in Unusual THEN {{}} ELSE {}) :
         circuits' = IF named = {} THEN circuits ELSE named
    /\ labelsOver' = TRUE
    /\ unlabelled' = (unlabelled \/ circuits' = {})
    /\ UNCHANGED <<publishing, schemaSent, handling, targets, posted, coordinator, buffer>>

\* SCHEMA_LABEL_WAIT_SECONDS run out before the snapshot has come.
LabelWaitEnds ==
    /\ "slow" \in Unusual
    /\ ~labelsOver
    /\ labelsOver' = TRUE
    /\ unlabelled' = (circuits = {})
    /\ UNCHANGED <<publishing, circuits, schemaSent, handling, targets, posted,
                   coordinator, buffer>>

\* Mutant: the schema does not wait for the labels.
ReadyAtOnce == ~schemaSent

ReadyForSchema == ~schemaSent /\ (circuits # {} \/ labelsOver)

\* _handle_frame, of a content-bearing frame: the schema, once ...
FrameSchema ==
    /\ handling = "idle"
    /\ handling' = "targets"
    /\ IF ReadyForSchema
       THEN posted' = posted \cup {KeysFrom(publishing, circuits)} /\ schemaSent' = TRUE
       ELSE UNCHANGED <<posted, schemaSent>>
    /\ UNCHANGED <<publishing, circuits, labelsOver, unlabelled, targets, coordinator, buffer>>

\* Mutant: the targets are taken from the first frame only.
FrameTargetsOnce ==
    /\ handling = "targets"
    /\ handling' = "readings"
    /\ targets' = IF targets = {} THEN TargetsFrom(publishing, circuits) ELSE targets
    /\ UNCHANGED <<publishing, circuits, labelsOver, unlabelled, schemaSent, posted, coordinator, buffer>>

\* ... the energy targets ...
FrameTargets ==
    /\ handling = "targets"
    /\ handling' = "readings"
    /\ targets' = TargetsFrom(publishing, circuits)
    /\ UNCHANGED <<publishing, circuits, labelsOver, unlabelled, schemaSent, posted, coordinator, buffer>>

\* ... and the readings.
FrameReadings ==
    /\ handling = "readings"
    /\ handling' = "idle"
    /\ buffer' = buffer \cup KeysFrom(publishing, circuits)
    /\ UNCHANGED <<publishing, circuits, labelsOver, unlabelled, schemaSent, targets, posted, coordinator>>

\* A circuit that had not published before.
Appear ==
    /\ "appear" \in Unusual
    /\ handling = "idle"
    /\ \E i \in Instances \ publishing : publishing' = publishing \cup {i}
    /\ UNCHANGED <<backend, unlabelled, posted, coordinator, buffer>>

(* The event loop *)

New(p, keys) == {k \in keys : Wants(p, k) /\ k \notin seen[p]}

\* _emit_to, for each of some platforms.
EmitTo(ps, keys) ==
    /\ seen' = [p \in Platforms |-> IF p \in ps THEN seen[p] \cup New(p, keys) ELSE seen[p]]
    /\ created' = [p \in Platforms |-> [k \in Keys |->
         IF p \in ps /\ k \in New(p, keys) THEN created[p][k] + 1 ELSE created[p][k]]]

\* _apply_schema
ApplySchema ==
    /\ \E keys \in posted :
         /\ posted' = posted \ {keys}
         /\ schema' = keys
         /\ EmitTo(registered, keys)
    /\ UNCHANGED <<publishing, backend, unlabelled, registered, data, buffer>>

\* Mutant: a schema that has already landed is not replayed.
RegisterOnly(p) ==
    /\ p \notin registered
    /\ registered' = registered \cup {p}
    /\ UNCHANGED <<publishing, backend, unlabelled, posted, schema, seen, created, data, buffer>>

\* register_entity_adder: a schema that has already landed is replayed.
Register(p) ==
    /\ p \notin registered
    /\ registered' = registered \cup {p}
    /\ EmitTo({p}, schema)
    /\ UNCHANGED <<publishing, backend, unlabelled, posted, schema, data, buffer>>

\* _flush
Flush ==
    /\ buffer # {}
    /\ data' = data \cup buffer
    /\ buffer' = {}
    /\ UNCHANGED <<publishing, backend, unlabelled, posted, schema, registered, seen, created>>

-----------------------------------------------------------------------------
Next ==
    \/ Snapshot
    \/ LabelWaitEnds
    \/ FrameSchema \/ FrameTargets \/ FrameReadings
    \/ Appear
    \/ ApplySchema
    \/ \E p \in Platforms : Register(p)
    \/ Flush

\* The subscribe is answered, frames come, the loop runs, the platforms are set up.
Fairness ==
    /\ WF_vars(Snapshot)
    /\ WF_vars(FrameSchema \/ FrameTargets \/ FrameReadings)
    /\ WF_vars(ApplySchema) /\ WF_vars(Flush)
    /\ \A p \in Platforms : WF_vars(Register(p))

Spec == Init /\ [][Next]_vars /\ Fairness

\* An entity has a value and is available, as long as the stream is live.
HasReading(k) == k \in data

-----------------------------------------------------------------------------
(* Properties *)

TypeOK ==
    /\ publishing \subseteq Instances /\ circuits \subseteq Branches
    /\ labelsOver \in BOOLEAN /\ schemaSent \in BOOLEAN
    /\ handling \in {"idle", "targets", "readings"}
    /\ posted \subseteq SUBSET Keys /\ Cardinality(posted) <= 1
    /\ targets \subseteq Keys /\ schema \subseteq Keys
    /\ buffer \subseteq Keys /\ data \subseteq Keys
    /\ registered \subseteq Platforms
    /\ seen \in [Platforms -> SUBSET Keys]
    /\ created \in [Platforms -> [Keys -> 0..1]]

\* "Every entity we advertise is one the wire actually feeds" (schema_from_frame): a
\* schema that waited for its labels keeps its names, however snapshots and frames
\* interleave from then on.
AdvertisedIsFed == ~unlabelled => schema \subseteq KeysFrom(publishing, circuits)

\* Whatever the order in which platforms register and the schema lands, every key
\* of it comes to have the one entity it should ("wants is also replayed against a
\* schema that has already landed", register_entity_adder).
OneEntityEach ==
    <>[](/\ schema # {}
         /\ \A k \in schema, p \in Platforms : created[p][k] = IF Wants(p, k) THEN 1 ELSE 0)

\* In the end every entity of a labelled schema has a reading, every energy sensor is
\* asked about, and what is booked for an instance is booked under the key of such a
\* sensor (readings_from_frame: "so reading keys line up with the advertised
\* properties").
KeysLineUp ==
    <>[](~unlabelled =>
           /\ schema # {} /\ \A k \in schema : HasReading(k)
           /\ {k \in schema : IsMetered(k)} \subseteq targets
           /\ \A t \in targets : (\E k \in schema : k.instance = t.instance) =>
                                     t \in schema /\ IsMetered(t))
=============================================================================
