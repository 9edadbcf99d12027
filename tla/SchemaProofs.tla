---------------------------- MODULE SchemaProofs ----------------------------
(***************************************************************************)
(* Whatever is published and named, by however many circuits and           *)
(* platforms: a schema that waited for its labels advertises only keys     *)
(* that frames carry and books under keys it has advertised, and at every  *)
(* moment the entities of a platform are those the schema gives it.        *)
(***************************************************************************)
EXTENDS SchemaEntities, FiniteSetTheorems, TLAPS

\* The circuits of the latest snapshot are all of them, once there are any.
CircuitsAreWhole == circuits \in {{}, Branches}

\* Labels are given up only when the wait is over, and a wait that is over without
\* giving up has named the circuits.
LabelsAwaited ==
    /\ unlabelled \in BOOLEAN
    /\ unlabelled => labelsOver
    /\ labelsOver /\ ~unlabelled => circuits # {}

\* At most one schema is made, and one that is made waited for its labels.
SentOnce ==
    /\ ~schemaSent => posted = {} /\ schema = {}
    /\ posted = {} \/ \E keys \in posted : posted = {keys}
    /\ posted # {} => schema = {}
    /\ schemaSent /\ ~unlabelled => circuits # {}

\* A schema's keys, on the way or applied, are all the keys of a frame that carried
\* some of what is published by now.
Fed(keys) ==
    ~unlabelled => \E samples \in SUBSET publishing : keys = KeysFrom(samples, circuits)

SchemasAreFed == Fed(schema) /\ \A keys \in posted : Fed(keys)

\* A frame that was handled since a labelled schema was made has taken the targets
\* from the same circuits.
LabelledTargets ==
    schemaSent /\ handling # "targets" /\ ~unlabelled =>
        /\ targets \subseteq TargetsFrom(publishing, circuits)
        /\ \A keys \in posted \cup {schema} : {k \in keys : IsMetered(k)} \subseteq targets

\* A platform has seen what it wants of the schema, once it is registered.
SeenFollows ==
    \A p \in Platforms : seen[p] = {k \in schema : p \in registered /\ Wants(p, k)}

\* A key has an entity once a platform has seen it.
CreatedOnce ==
    \A p \in Platforms, k \in Keys : created[p][k] = IF k \in seen[p] THEN 1 ELSE 0

IInv ==
    /\ TypeOK
    /\ CircuitsAreWhole
    /\ LabelsAwaited
    /\ SentOnce
    /\ SchemasAreFed
    /\ LabelledTargets
    /\ SeenFollows
    /\ CreatedOnce

\* OneEntityEach is what this comes to once the schema and the platforms are there:
\* at every moment, in whatever order they arrive, a platform has built one entity for
\* each key of the schema that it wants, and no other.
EntitiesFollowSchema ==
    \A p \in Platforms, k \in Keys :
        created[p][k] = IF p \in registered /\ k \in schema /\ Wants(p, k) THEN 1 ELSE 0

\* The part of KeysLineUp that holds all along: outside the handling of a frame, the
\* energy of an instance with an entity is asked for, and is booked under the key of
\* an energy sensor.
BookedUnderSchema ==
    schemaSent /\ handling # "targets" /\ ~unlabelled =>
        /\ {k \in schema : IsMetered(k)} \subseteq targets
        /\ \A t \in targets : (\E k \in schema : k.instance = t.instance) =>
                                  t \in schema /\ IsMetered(t)

-----------------------------------------------------------------------------
(* Keys *)

\* What a frame carries is made of keys.
LEMMA KeysFromType ==
    ASSUME NEW samples \in SUBSET Instances, NEW known
    PROVE  KeysFrom(samples, known) \in SUBSET Keys
BY DEF KeysFrom, PowerKey, RelayKey, NodeFor, Keys

\* Energy targets too.
LEMMA TargetsFromType ==
    ASSUME NEW samples \in SUBSET Instances, NEW known
    PROVE  TargetsFrom(samples, known) \in SUBSET Keys
BY DEF TargetsFrom, PowerKey, NodeFor, Keys

\* A frame that carries more has the keys, and the targets, of one that carries less.
LEMMA KeysFromGrows ==
    ASSUME NEW known, NEW some, NEW more, some \subseteq more
    PROVE  /\ KeysFrom(some, known) \subseteq KeysFrom(more, known)
           /\ TargetsFrom(some, known) \subseteq TargetsFrom(more, known)
BY DEF KeysFrom, TargetsFrom

\* A frame that carries nothing has no keys.
LEMMA KeysFromNone ==
    ASSUME NEW known
    PROVE  KeysFrom({}, known) = {}
BY DEF KeysFrom

\* What gets an energy sensor is an energy target, given the same circuits ...
LEMMA MeteredAreTargets ==
    ASSUME NEW known, NEW samples
    PROVE  {k \in KeysFrom(samples, known) : IsMetered(k)} \subseteq TargetsFrom(samples, known)
BY DEF KeysFrom, TargetsFrom, IsMetered, PowerKey, RelayKey

\* ... and a target of an instance that has a key has an energy sensor.
LEMMA TargetsAreMetered ==
    ASSUME NEW known, NEW some, NEW more, NEW t \in TargetsFrom(more, known),
           NEW k \in KeysFrom(some, known), k.instance = t.instance
    PROVE  t \in KeysFrom(some, known) /\ IsMetered(t)
<1>1. PICK i \in more : t = PowerKey(i, known) /\ t.node = "circuit"
    BY DEF TargetsFrom
<1>2. t.instance = i /\ t.property = "power"
    BY <1>1 DEF PowerKey
<1>3. k.instance \in some
    BY DEF KeysFrom, PowerKey, RelayKey
<1>4. t = PowerKey(i, known) /\ i \in some
    BY <1>1, <1>2, <1>3
<1> QED BY <1>1, <1>2, <1>4 DEF KeysFrom, IsMetered

-----------------------------------------------------------------------------
(* The steps *)

\* The entities of a batch: seen keys get one each.
LEMMA EmitToType ==
    ASSUME IInv, NEW ps, NEW keys \in SUBSET Keys, EmitTo(ps, keys)
    PROVE  /\ seen' \in [Platforms -> SUBSET Keys]
           /\ created' \in [Platforms -> [Keys -> 0..1]]
           /\ CreatedOnce'
<1>1. seen \in [Platforms -> SUBSET Keys] /\ created \in [Platforms -> [Keys -> 0..1]]
    BY DEF IInv, TypeOK
<1>2. \A p \in Platforms : New(p, keys) \subseteq Keys /\ New(p, keys) \cap seen[p] = {}
    BY DEF New
<1>3. seen' = [p \in Platforms |-> IF p \in ps THEN seen[p] \cup New(p, keys) ELSE seen[p]]
    BY DEF EmitTo
<1>4. seen' \in [Platforms -> SUBSET Keys]
    BY <1>1, <1>2, <1>3
<1>5. \A p \in Platforms, k \in Keys :
         created'[p][k] = IF p \in ps /\ k \in New(p, keys) THEN created[p][k] + 1
                          ELSE created[p][k]
    BY DEF EmitTo
<1>6. \A p \in Platforms, k \in Keys :
         created'[p][k] = IF k \in seen'[p] THEN 1 ELSE 0
    <2> TAKE p \in Platforms, k \in Keys
    <2>1. created[p][k] = IF k \in seen[p] THEN 1 ELSE 0
        BY DEF IInv, CreatedOnce
    <2>2. CASE p \in ps /\ k \in New(p, keys)
        BY <1>2, <1>3, <1>5, <2>1, <2>2
    <2>3. CASE ~(p \in ps /\ k \in New(p, keys))
        BY <1>3, <1>5, <2>1, <2>3
    <2> QED BY <2>2, <2>3
<1>7. created' \in [Platforms -> [Keys -> 0..1]]
    <2>1. \A p \in Platforms : [k \in Keys |->
             IF p \in ps /\ k \in New(p, keys) THEN created[p][k] + 1 ELSE created[p][k]]
             \in [Keys -> 0..1]
        BY <1>5, <1>6 DEF EmitTo
    <2> QED BY <2>1 DEF EmitTo
<1> QED BY <1>4, <1>6, <1>7 DEF CreatedOnce

LEMMA InitIInv == Init => IInv
<1> SUFFICES ASSUME Init PROVE IInv
    OBVIOUS
<1>1. TypeOK
    <2>1. Cardinality({}) = 0
        BY FS_EmptySet
    <2>2. publishing \subseteq Instances
        BY DEF Init
    <2>3. created \in [Platforms -> [Keys -> 0..1]] /\ seen \in [Platforms -> SUBSET Keys]
        BY DEF Init
    <2>4. posted = {} /\ posted \subseteq SUBSET Keys
        BY DEF Init
    <2>5. Cardinality(posted) <= 1
        BY <2>1, <2>4
    <2>6. circuits \subseteq Branches /\ registered \subseteq Platforms /\ targets \subseteq Keys
          /\ schema \subseteq Keys /\ buffer \subseteq Keys /\ data \subseteq Keys
        BY DEF Init
    <2>7. labelsOver \in BOOLEAN /\ schemaSent \in BOOLEAN
          /\ handling \in {"idle", "targets", "readings"}
        BY DEF Init
    <2> QED BY <2>2, <2>3, <2>4, <2>5, <2>6, <2>7 DEF TypeOK
<1>2. CircuitsAreWhole /\ LabelsAwaited /\ SentOnce /\ LabelledTargets
    BY DEF Init, CircuitsAreWhole, LabelsAwaited, SentOnce, LabelledTargets
<1>3. SchemasAreFed
    BY KeysFromNone DEF Init, SchemasAreFed, Fed
<1>4. SeenFollows /\ CreatedOnce
    BY DEF Init, SeenFollows, CreatedOnce
<1> QED BY <1>1, <1>2, <1>3, <1>4 DEF IInv

LEMMA NextIInv == IInv /\ [Next]_vars => IInv'
<1> SUFFICES ASSUME IInv, [Next]_vars PROVE IInv'
    OBVIOUS
<1> USE DEF IInv
<1>1. CASE UNCHANGED vars
    BY <1>1 DEF vars, backend, coordinator, TypeOK, CircuitsAreWhole, LabelsAwaited, SentOnce,
                SchemasAreFed, Fed, LabelledTargets, SeenFollows, CreatedOnce
<1>2. CASE Snapshot
    <2>1. /\ circuits' \in {circuits, Branches} /\ labelsOver' = TRUE
          /\ unlabelled' = (unlabelled \/ circuits' = {})
          /\ UNCHANGED <<publishing, schemaSent, handling, targets, posted, schema, registered,
                         seen, created, data, buffer>>
        BY <1>2 DEF Snapshot, coordinator
    <2>2. TypeOK' /\ SeenFollows' /\ CreatedOnce'
        BY <2>1 DEF TypeOK, SeenFollows, CreatedOnce
    <2>3. CircuitsAreWhole' /\ LabelsAwaited'
        BY <2>1 DEF CircuitsAreWhole, LabelsAwaited
    <2>4. SentOnce'
        BY <2>1 DEF SentOnce
    <2>5. ~unlabelled' => \/ ~schemaSent /\ posted' = {} /\ schema' = {}
                          \/ UNCHANGED circuits /\ ~unlabelled
        BY <2>1 DEF SentOnce, CircuitsAreWhole
    <2>6. SchemasAreFed'
        BY <2>1, <2>5, KeysFromNone DEF SchemasAreFed, Fed
    <2>7. LabelledTargets'
        BY <2>1, <2>5 DEF LabelledTargets
    <2> QED BY <2>2, <2>3, <2>4, <2>6, <2>7
<1>3. CASE LabelWaitEnds
    <2>1. /\ ~labelsOver /\ labelsOver' = TRUE /\ unlabelled' = (circuits = {})
          /\ UNCHANGED <<publishing, circuits, schemaSent, handling, targets, posted, schema,
                         registered, seen, created, data, buffer>>
        BY <1>3 DEF LabelWaitEnds, coordinator
    <2>2. TypeOK' /\ SeenFollows' /\ CreatedOnce' /\ CircuitsAreWhole' /\ LabelsAwaited'
        BY <2>1 DEF TypeOK, SeenFollows, CreatedOnce, CircuitsAreWhole, LabelsAwaited
    <2>3. ~unlabelled
        BY <2>1 DEF LabelsAwaited
    <2>4. SentOnce' /\ SchemasAreFed' /\ LabelledTargets'
        BY <2>1, <2>3 DEF SentOnce, SchemasAreFed, Fed, LabelledTargets
    <2> QED BY <2>2, <2>4
<1>4. CASE FrameSchema
    <2>1. /\ handling' = "targets"
          /\ UNCHANGED <<publishing, circuits, labelsOver, unlabelled, targets, schema,
                         registered, seen, created, data, buffer>>
        BY <1>4 DEF FrameSchema, coordinator
    <2>2. CircuitsAreWhole' /\ LabelsAwaited' /\ LabelledTargets' /\ SeenFollows' /\ CreatedOnce'
        BY <2>1 DEF CircuitsAreWhole, LabelsAwaited, LabelledTargets, SeenFollows, CreatedOnce
    <2>3. CASE ~ReadyForSchema
        <3>1. UNCHANGED <<posted, schemaSent>>
            BY <1>4, <2>3 DEF FrameSchema
        <3> QED BY <2>1, <2>2, <3>1 DEF TypeOK, SentOnce, SchemasAreFed, Fed
    <2>4. CASE ReadyForSchema
        <3> DEFINE keys == KeysFrom(publishing, circuits)
        <3>1. ~schemaSent /\ posted = {} /\ schema = {} /\ (circuits # {} \/ labelsOver)
            BY <2>4 DEF ReadyForSchema, SentOnce
        <3>2. posted' = {keys} /\ schemaSent' = TRUE
            BY <1>4, <2>4, <3>1 DEF FrameSchema
        <3>3. keys \in SUBSET Keys
            BY KeysFromType DEF TypeOK
        <3>4. Cardinality({keys}) = 1
            BY FS_Singleton
        <3>5. TypeOK'
            BY <2>1, <3>2, <3>3, <3>4 DEF TypeOK
        <3>6. SentOnce'
            BY <2>1, <3>1, <3>2 DEF SentOnce, LabelsAwaited
        <3>7. SchemasAreFed'
            BY <2>1, <3>2 DEF SchemasAreFed, Fed
        <3> QED BY <2>2, <3>5, <3>6, <3>7
    <2> QED BY <2>3, <2>4
<1>5. CASE FrameTargets
    <2>1. /\ handling' = "readings" /\ targets' = TargetsFrom(publishing, circuits)
          /\ UNCHANGED <<publishing, circuits, labelsOver, unlabelled, schemaSent, posted, schema,
                         registered, seen, created, data, buffer>>
        BY <1>5 DEF FrameTargets, coordinator
    <2>2. targets' \in SUBSET Keys
        BY <2>1, TargetsFromType DEF TypeOK
    <2>3. ASSUME NEW keys \in posted \cup {schema}, ~unlabelled
          PROVE  {k \in keys : IsMetered(k)} \subseteq TargetsFrom(publishing, circuits)
        <3>1. PICK samples \in SUBSET publishing : keys = KeysFrom(samples, circuits)
            BY <2>3 DEF SchemasAreFed, Fed
        <3> QED BY <3>1, MeteredAreTargets, KeysFromGrows
    <2>4. LabelledTargets'
        BY <2>1, <2>3 DEF LabelledTargets
    <2> QED BY <2>1, <2>2, <2>4 DEF TypeOK, CircuitsAreWhole, LabelsAwaited, SentOnce,
                                    SchemasAreFed, Fed, SeenFollows, CreatedOnce
<1>6. CASE FrameReadings
    <2>1. /\ handling = "readings" /\ handling' = "idle"
          /\ buffer' = buffer \cup KeysFrom(publishing, circuits)
          /\ UNCHANGED <<publishing, circuits, labelsOver, unlabelled, schemaSent, targets, posted,
                         schema, registered, seen, created, data>>
        BY <1>6 DEF FrameReadings, coordinator
    <2>2. buffer' \in SUBSET Keys
        BY <2>1, KeysFromType DEF TypeOK
    <2> QED BY <2>1, <2>2 DEF TypeOK, CircuitsAreWhole, LabelsAwaited, SentOnce, SchemasAreFed,
                              Fed, LabelledTargets, SeenFollows, CreatedOnce
<1>7. CASE Appear
    <2>1. PICK i \in Instances : publishing' = publishing \cup {i}
        BY <1>7 DEF Appear
    <2>2. UNCHANGED <<circuits, labelsOver, unlabelled, schemaSent, handling, targets, posted,
                      schema, registered, seen, created, data, buffer>>
        BY <1>7 DEF Appear, backend, coordinator
    <2>3. TargetsFrom(publishing, circuits) \subseteq TargetsFrom(publishing', circuits)
        BY <2>1, KeysFromGrows
    <2>4. SchemasAreFed'
        BY <2>1, <2>2 DEF SchemasAreFed, Fed
    <2>5. LabelledTargets'
        BY <2>2, <2>3 DEF LabelledTargets
    <2> QED BY <2>1, <2>2, <2>4, <2>5 DEF TypeOK, CircuitsAreWhole, LabelsAwaited, SentOnce,
                                          SeenFollows, CreatedOnce
<1>8. CASE ApplySchema
    <2>1. PICK keys \in posted : posted' = posted \ {keys} /\ schema' = keys
                                 /\ EmitTo(registered, keys)
        BY <1>8 DEF ApplySchema
    <2>2. UNCHANGED <<publishing, circuits, labelsOver, schemaSent, handling, targets, unlabelled,
                      registered, data, buffer>>
        BY <1>8 DEF ApplySchema, backend
    <2>3. posted = {keys} /\ posted' = {} /\ schemaSent /\ schema = {}
        BY <2>1 DEF SentOnce, TypeOK
    <2>4. keys \in SUBSET Keys
        BY <2>1 DEF TypeOK
    <2>5. seen' \in [Platforms -> SUBSET Keys] /\ created' \in [Platforms -> [Keys -> 0..1]]
          /\ CreatedOnce'
        BY <2>1, <2>4, EmitToType
    <2>6. TypeOK'
        <3>1. Cardinality(posted') <= 1
            BY <2>3, FS_EmptySet
        <3>2. posted' \subseteq SUBSET Keys /\ schema' \subseteq Keys
            BY <2>1, <2>3, <2>4
        <3> QED BY <2>2, <2>5, <3>1, <3>2 DEF TypeOK
    <2>7. SchemasAreFed' /\ SentOnce'
        BY <2>1, <2>2, <2>3 DEF SchemasAreFed, Fed, SentOnce
    <2>8. LabelledTargets'
        BY <2>1, <2>2, <2>3 DEF LabelledTargets
    <2>9. SeenFollows'
        <3>1. \A p \in Platforms : seen[p] = {}
            BY <2>3 DEF SeenFollows
        <3> QED BY <2>1, <2>2, <3>1 DEF SeenFollows, EmitTo, New
    <2> QED BY <2>2, <2>5, <2>6, <2>7, <2>8, <2>9 DEF CircuitsAreWhole, LabelsAwaited
<1>9. ASSUME NEW p \in Platforms, Register(p)
      PROVE  IInv'
    <2>1. p \notin registered /\ registered' = registered \cup {p} /\ EmitTo({p}, schema)
          /\ UNCHANGED <<publishing, circuits, labelsOver, schemaSent, handling, targets,
                         unlabelled, posted, schema, data, buffer>>
        BY <1>9 DEF Register, backend
    <2>2. schema \in SUBSET Keys
        BY DEF TypeOK
    <2>3. seen' \in [Platforms -> SUBSET Keys] /\ created' \in [Platforms -> [Keys -> 0..1]]
          /\ CreatedOnce'
        BY <2>1, <2>2, EmitToType
    <2>4. SeenFollows'
        <3>1. seen[p] = {}
            BY <2>1 DEF SeenFollows
        <3> QED BY <2>1, <3>1 DEF SeenFollows, EmitTo, New
    <2> QED BY <2>1, <2>3, <2>4 DEF TypeOK, CircuitsAreWhole, LabelsAwaited, SentOnce,
                                    SchemasAreFed, Fed, LabelledTargets
<1>10. CASE Flush
    <2>1. data' = data \cup buffer /\ buffer' = {}
          /\ UNCHANGED <<publishing, circuits, labelsOver, schemaSent, handling, targets,
                         unlabelled, posted, schema, registered, seen, created>>
        BY <1>10 DEF Flush, backend
    <2> QED BY <2>1 DEF TypeOK, CircuitsAreWhole, LabelsAwaited, SentOnce, SchemasAreFed, Fed,
                        LabelledTargets, SeenFollows, CreatedOnce
<1> QED BY <1>1, <1>2, <1>3, <1>4, <1>5, <1>6, <1>7, <1>8, <1>9, <1>10 DEF Next

-----------------------------------------------------------------------------
LEMMA SchemaInvariant == Spec => []IInv
BY InitIInv, NextIInv, PTL DEF Spec

\* Every set of keys is one, no key gets two entities of a platform, and at most one
\* schema is under way, however frames, snapshots and platforms interleave.
THEOREM SchemaTyped == Spec => []TypeOK
BY SchemaInvariant, PTL DEF IInv

\* A schema that waited for its labels advertises only what frames feed
\* (schema_from_frame), for every set of circuits and everything that appears later.
THEOREM AdvertisedStaysFed == Spec => []AdvertisedIsFed
<1>1. ASSUME IInv, ~unlabelled PROVE schema \subseteq KeysFrom(publishing, circuits)
    <2>1. PICK samples \in SUBSET publishing : schema = KeysFrom(samples, circuits)
        BY <1>1 DEF IInv, SchemasAreFed, Fed
    <2> QED BY <2>1, KeysFromGrows
<1>2. IInv => AdvertisedIsFed
    BY <1>1 DEF AdvertisedIsFed
<1> QED BY <1>2, SchemaInvariant, PTL

\* Whatever the order in which the schema lands and the platforms register their
\* adders, the entities of a platform are at every moment those that the schema and its
\* `wants` give it, one for each key (_emit_to, register_entity_adder).
THEOREM EntitiesFollow == Spec => []EntitiesFollowSchema
<1>1. IInv => EntitiesFollowSchema
    BY DEF IInv, SeenFollows, CreatedOnce, EntitiesFollowSchema
<1> QED BY <1>1, SchemaInvariant, PTL

\* Once a schema that waited for its labels is made, every energy sensor of it is asked
\* about, and what is booked for an instance with an entity is booked under the key of
\* such a sensor, whatever is published, and by whatever snapshot it is named
\* (energy_targets).
THEOREM BookedWhereAdvertised == Spec => []BookedUnderSchema
<1>1. ASSUME IInv, schemaSent, handling # "targets", ~unlabelled,
             NEW t \in targets, NEW k \in schema, k.instance = t.instance
      PROVE  t \in schema /\ IsMetered(t)
    <2>1. t \in TargetsFrom(publishing, circuits)
        BY <1>1 DEF IInv, LabelledTargets
    <2>2. PICK samples \in SUBSET publishing : schema = KeysFrom(samples, circuits)
        BY <1>1 DEF IInv, SchemasAreFed, Fed
    <2> QED BY <1>1, <2>1, <2>2, TargetsAreMetered
<1>2. IInv => BookedUnderSchema
    BY <1>1 DEF BookedUnderSchema, IInv, LabelledTargets
<1> QED BY <1>2, SchemaInvariant, PTL

=============================================================================
