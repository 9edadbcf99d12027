----------------------------- MODULE LocalPanel -----------------------------
(***************************************************************************)
(* span_client/local: the client of the panel's own broker.  Registration  *)
(* and the certificate that anchors the broker's TLS (auth.py, tls.py),    *)
(* the cache of credentials, the Homie description as a schema (homie.py)  *)
(* and the broker's messages (ebus.py).                                    *)
(*                                                                         *)
(* Optional values are sets of one element or none.  A function that       *)
(* raises gives a record whose `raises' says so, or the empty set.         *)
(***************************************************************************)
EXTENDS Integers, Sequences, FiniteSets, SequencesExt

CONSTANTS CircuitIds    \* the ids of circuits: 32 hexadecimal digits each

One(opt, default) == IF opt = {} THEN default ELSE CHOOSE v \in opt : TRUE

(***************************************************************************)
(* Schema.                                                                 *)
(***************************************************************************)
_STATIC_NODES ==
  [node_id \in {"core", "lugs-upstream", "lugs-downstream", "power-flows", "pcs", "bess", "pv", "evse"} |->
     IF node_id \in {"lugs-upstream", "lugs-downstream"} THEN "lugs" ELSE node_id]

_UNIT_OVERRIDES == {<<"circuit", "active-power">>, <<"pv", "nameplate-capacity">>}

DataTypes == {"string", "integer", "float", "boolean", "enum", "color", "datetime", "duration", "json"}

classify_node(node_id) ==
  CASE node_id \in DOMAIN _STATIC_NODES -> _STATIC_NODES[node_id]
    [] node_id \in CircuitIds \ DOMAIN _STATIC_NODES -> "circuit"
    [] OTHER                            -> "unknown"

\* Mutant: the unit is the declared one.
DeclaredUnit(kind, property_id, declared) == declared

effective_unit(kind, property_id, declared) ==
  IF <<kind, property_id>> \in _UNIT_OVERRIDES THEN {"W"} ELSE declared

\* A description maps a node to its name and to its properties, which are
\* optional; a property has a name, a datatype, a unit and a format, all of
\* them optional, and may be settable.  format is the set of its values.
DataTypeOf(prop) ==
  LET named == One(prop.datatype, "string")
  IN  IF named \in DataTypes THEN named ELSE "string"

PropertySpec(node_id, node, property_id, prop) ==
  LET kind == classify_node(node_id)
  IN  [node_id     |-> node_id,
       node_kind   |-> kind,
       property_id |-> property_id,
       name        |-> One(prop.name \ {""}, property_id),
       datatype    |-> DataTypeOf(prop),
       unit        |-> effective_unit(kind, property_id, prop.unit),
       settable    |-> prop.settable,
       enum_values |-> IF DataTypeOf(prop) = "enum" THEN prop.format ELSE {},
       node_name   |-> node.name]

Key(spec) == <<spec.node_id, spec.property_id>>

parse_description(doc) ==
  LET properties(node_id) == One(doc[node_id].properties, <<>>)
      keys == UNION {{node_id} \X DOMAIN properties(node_id) : node_id \in DOMAIN doc}
  IN  [key \in keys |->
         PropertySpec(key[1], doc[key[1]], key[2], properties(key[1])[key[2]])]

\* A node is called what its `name' property says, once that has been read.
resolve_node_names(schema, readings) ==
  [key \in DOMAIN schema |->
     LET name == <<key[1], "name">>
     IN  IF name \in DOMAIN schema /\ name \in DOMAIN readings
           THEN [schema[key] EXCEPT !.node_name = {readings[name]}]
           ELSE schema[key]]

(***************************************************************************)
(* Topics, as the sequences of their parts.                                *)
(***************************************************************************)
DollarParts == {"$state", "$description", "$target"}

topic_for(serial, spec, command) ==
  IF command
    THEN <<"ebus", "5", serial, spec.node_id, spec.property_id, "set">>
    ELSE <<"ebus", "5", serial, spec.node_id, spec.property_id>>

\* Mutant: what comes after the property is not looked at.
TopicPrefix(topic) ==
  IF Len(topic) >= 5 /\ topic[1] = "ebus" /\ {topic[4], topic[5]} \cap DollarParts = {}
    THEN {[serial |-> topic[3], key |-> <<topic[4], topic[5]>>]}
    ELSE {}

parse_value_topic(topic) ==
  IF Len(topic) = 5 /\ topic[1] = "ebus" /\ {topic[4], topic[5]} \cap DollarParts = {}
    THEN {[serial |-> topic[3], key |-> <<topic[4], topic[5]>>]}
    ELSE {}

(***************************************************************************)
(* The backend: what it is subscribed to, what it published and what its   *)
(* callbacks were given.                                                   *)
(***************************************************************************)
Stopped(serial) ==
  [serial |-> serial, client |-> FALSE, subscribed |-> FALSE,
   published |-> <<>>, schemas |-> <<>>, readings |-> <<>>]

\* Without the certificate of the panel there is no connection.
start(s, ca_cert_exists) == IF ca_cert_exists THEN [s EXCEPT !.client = TRUE] ELSE s

stop(s) == [s EXCEPT !.client = FALSE, !.subscribed = FALSE]

_on_connect(s, reason_code) == IF reason_code = 0 THEN [s EXCEPT !.subscribed = TRUE] ELSE s

\* paho connects again while its loop is running.
_on_disconnect(s) == [s EXCEPT !.subscribed = FALSE]

send_command(s, key, value) ==
  IF s.client
    THEN [s EXCEPT !.published =
            Append(@, [topic |-> <<"ebus", "5", s.serial, key[1], key[2], "set">>, payload |-> value])]
    ELSE s

\* payload of a description is the document; one that is no JSON is NotJson.
NotJson == "not json"
_handle_description(s, payload) ==
  IF payload = <<NotJson>> THEN s ELSE [s EXCEPT !.schemas = Append(@, parse_description(payload[2]))]

_on_message(s, topic, payload) ==
  IF Last(topic) = "$description" THEN _handle_description(s, payload)
  ELSE IF Last(topic) = "$state" \/ parse_value_topic(topic) = {} THEN s
  ELSE [s EXCEPT !.readings =
          Append(@, [key |-> One(parse_value_topic(topic), s).key, value |-> payload])]

(***************************************************************************)
(* Registration.  A response has an HTTP status and, if that is 200, the   *)
(* body: serial, token, host and the optional broker host.                 *)
(***************************************************************************)
RequiredFields == {"serialNumber", "hostname", "accessToken", "ebusBrokerUsername", "ebusBrokerPassword"}

from_response(body) ==
  IF RequiredFields \subseteq DOMAIN body
    THEN {[serial |-> body["serialNumber"], hostname |-> body["hostname"],
           access_token |-> body["accessToken"],
           ebus_username |-> body["ebusBrokerUsername"], ebus_password |-> body["ebusBrokerPassword"],
           ebus_host |-> IF "ebusBrokerHost" \in DOMAIN body /\ body["ebusBrokerHost"] # ""
                           THEN body["ebusBrokerHost"] ELSE body["hostname"]]}
    ELSE {}

register(resp) == IF resp.status >= 400 THEN {} ELSE from_response(resp.body)

(***************************************************************************)
(* The cache: one record per panel, and which panel is the default.        *)
(***************************************************************************)
NoCache == [default_panel |-> {}, panels |-> <<>>]

\* Mutant: the latest panel is the only one.
SaveAlone(cache, creds) == [default_panel |-> {creds.serial}, panels |-> [panel \in {creds.serial} |-> creds]]

save_credentials(cache, creds) ==
  LET panels == [panel \in {creds.serial} \cup DOMAIN cache.panels |->
                   IF panel = creds.serial THEN creds ELSE cache.panels[panel]]
  IN  [panels        |-> panels,
       default_panel |-> IF cache.default_panel = {} \/ Cardinality(DOMAIN panels) = 1
                           THEN {creds.serial} ELSE cache.default_panel]

load_credentials(cache, serial) ==
  LET wanted == IF serial # {} THEN serial ELSE cache.default_panel
      target == IF wanted = {} /\ Cardinality(DOMAIN cache.panels) = 1 THEN DOMAIN cache.panels ELSE wanted
  IN  {cache.panels[t] : t \in target \cap DOMAIN cache.panels}

(***************************************************************************)
(* The certificate.  A broker presents a chain, or cannot be reached; of   *)
(* the certificates there are, those in `verifying' complete a verified    *)
(* handshake.  The result is the file at the panel's path, if the function *)
(* leaves one there, and whether it raised.                                *)
(***************************************************************************)
verifies_peer(broker, cert) == broker.reachable /\ cert \in broker.verifying

\* Mutant: the issuer is normally last.
LastInChain(broker, path) ==
  IF broker.reachable /\ broker.chain # <<>>
    THEN [raises |-> FALSE, path |-> {Last(broker.chain)}]
    ELSE [raises |-> TRUE, path |-> path]

fetch_ca_from_broker(broker, path) ==
  LET good == {i \in DOMAIN broker.chain : verifies_peer(broker, broker.chain[i])}
  IN  IF ~broker.reachable \/ good = {}
        THEN [raises |-> TRUE, path |-> path]
        ELSE [raises |-> FALSE, path |-> {broker.chain[Max(good)]}]

fetch_ca_certificate(rest, broker, path) ==
  IF rest.status = 0 \/ rest.status >= 500 THEN fetch_ca_from_broker(broker, path)
  ELSE IF rest.status >= 400 \/ rest.text \notin rest.certificates
    THEN [raises |-> TRUE, path |-> path]
    ELSE [raises |-> FALSE, path |-> {rest.text}]

=============================================================================
