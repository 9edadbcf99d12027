--------------------------- MODULE LocalPayloads ---------------------------
(***************************************************************************)
(* What the local client is given and what it makes of it: descriptions,   *)
(* sessions with the broker, registrations and certificates.               *)
(***************************************************************************)
EXTENDS Handling, Sequences, FiniteSets, SequencesExt

CONSTANTS
    CircuitIds,      \* the ids of circuits
    Descriptions,    \* the $description documents that panels publish
    NodeNames,       \* what a node's `name' property may say
    PanelDocs,       \* the descriptions that the panel of a session publishes
    Values,          \* what it publishes as values and is sent as commands
    Responses,       \* answers to a registration
    Certificates     \* the certificates there are

Local == INSTANCE LocalPanel

\* A node has a name and properties, or none; ids do not begin with $.
Properties(doc, node_id) == UNION {DOMAIN p : p \in doc[node_id].properties}
KeysOf(doc) == UNION {{n} \X Properties(doc, n) : n \in DOMAIN doc}

ASSUME DescriptionAssumption ==
  /\ CircuitIds \cap DOMAIN Local!_STATIC_NODES = {}
  /\ PanelDocs \subseteq Descriptions
  /\ \A doc \in Descriptions : \A n \in DOMAIN doc :
       /\ n \notin Local!DollarParts /\ Properties(doc, n) \cap Local!DollarParts = {}
       /\ \A p, q \in doc[n].properties : p = q

ASSUME ResponseAssumption ==
  \A r \in Responses :
    /\ r.status \in Nat
    /\ r.status < 400 /\ Local!RequiredFields \subseteq DOMAIN r.body => r.body["serialNumber"] # ""

OnDescription ==
  /\ Comes("description")
  /\ \E doc \in Descriptions : \E named \in SUBSET {<<n, "name">> : n \in DOMAIN doc} :
     \E names \in [named -> NodeNames] :
       Handled([doc |-> doc, names |-> names],
               Local!resolve_node_names(Local!parse_description(doc), names))

(***************************************************************************)
(* A session.  given remembers whether the client was started, and what    *)
(* the panel published to it and what it was told to send while it was.    *)
(***************************************************************************)
Topic(key) == <<"ebus", "5", "p1", key[1], key[2]>>
CommandTopic(key) == <<"ebus", "5", "p1", key[1], key[2], "set">>
PanelTopic(name) == <<"ebus", "5", "p1", name>>
PanelKeys == UNION {KeysOf(doc) : doc \in PanelDocs}

OnSession ==
  /\ Comes("session")
  /\ \E ca_cert_exists \in BOOLEAN :
       Handled([ca_cert_exists |-> ca_cert_exists, started |-> FALSE, steps |-> 0,
                documents |-> <<>>, values |-> <<>>, commands |-> <<>>],
               Local!Stopped("p1"))

InSession(input, output) == Follows([input EXCEPT !.steps = @ + 1], output)

\* It is not started twice.
OnStart ==
  /\ ~given.started
  /\ InSession([given EXCEPT !.started = given.ca_cert_exists], Local!start(got, given.ca_cert_exists))
OnStop == InSession([given EXCEPT !.started = FALSE], Local!stop(got))

\* paho connects and loses the connection while it runs.
OnConnect ==
  /\ given.started
  /\ \E reason_code \in {0, 5} : InSession(given, Local!_on_connect(got, reason_code))
OnDisconnect == given.started /\ InSession(given, Local!_on_disconnect(got))

\* The broker delivers what is published to a subscriber, to the one who
\* published it as well.
Delivered(s, topic, payload) == IF s.subscribed THEN Local!_on_message(s, topic, payload) ELSE s

OnPublishedDescription ==
  \E doc \in PanelDocs :
    InSession([given EXCEPT !.documents = IF got.subscribed THEN Append(@, doc) ELSE @],
              Delivered(got, PanelTopic("$description"), <<"json", doc>>))
OnPublishedGarbage == InSession(given, Delivered(got, PanelTopic("$description"), <<Local!NotJson>>))
OnPublishedState == InSession(given, Delivered(got, PanelTopic("$state"), "ready"))
OnPublishedValue ==
  \E key \in PanelKeys : \E value \in Values :
    InSession([given EXCEPT !.values = IF got.subscribed THEN Append(@, [key |-> key, value |-> value]) ELSE @],
              Delivered(got, Topic(key), value))

OnSendCommand ==
  \E key \in PanelKeys : \E value \in Values :
    LET sent == Local!send_command(got, key, value)
    IN  InSession([given EXCEPT !.commands =
                     IF given.started THEN Append(@, [key |-> key, value |-> value]) ELSE @],
                  IF got.client
                    THEN Delivered(sent, Last(sent.published).topic, Last(sent.published).payload)
                    ELSE sent)

SessionStep ==
  /\ GoesOn("session")
  /\ given.steps < MaxSteps
  /\ \/ OnStart \/ OnStop \/ OnConnect \/ OnDisconnect
     \/ OnPublishedDescription \/ OnPublishedGarbage \/ OnPublishedState \/ OnPublishedValue
     \/ OnSendCommand

(***************************************************************************)
(* Registrations one after the other, each saved if it succeeds.           *)
(***************************************************************************)
OnRegistration == Comes("registration") /\ Handled(<<>>, Local!NoCache)

OnResponse ==
  /\ GoesOn("registration")
  /\ Len(given) < MaxSteps
  /\ \E resp \in Responses :
       LET creds == Local!register(resp)
       IN  Follows(Append(given, resp),
                   IF creds = {} THEN got ELSE Local!save_credentials(got, CHOOSE c \in creds : TRUE))

(***************************************************************************)
(* Certificates.                                                           *)
(***************************************************************************)
OnCertificate ==
  /\ Comes("certificate")
  /\ \E status \in {0, 200, 404, 503} : \E text \in Certificates \cup {"page"} : \E reachable \in BOOLEAN :
     \E n \in 0 .. MaxSteps : \E chain \in [1 .. n -> Certificates] : \E verifying \in SUBSET Certificates :
     \E path \in {{}} \cup {{c} : c \in Certificates} :
       LET rest == [status |-> status, text |-> text, certificates |-> Certificates]
           broker == [reachable |-> reachable, chain |-> chain, verifying |-> verifying]
       IN  Handled([rest |-> rest, broker |-> broker, path |-> path],
                   Local!fetch_ca_certificate(rest, broker, path))

LocalKinds == {"description", "session", "registration", "certificate"}
LocalNext == OnDescription \/ OnSession \/ SessionStep \/ OnRegistration \/ OnResponse \/ OnCertificate

\* The local client's payloads, whatever else is handled in between.
LocalSpec == Init /\ [][LocalNext \/ Rest \/ Elsewhere(LocalKinds)]_vars

(***************************************************************************)
(* What must hold.                                                         *)
(***************************************************************************)

\* A schema has every property that was described and no other, a power that
\* the firmware declares in kW but sends in watts is in watts, and once a node's
\* name has been read all of its properties carry it (parse_description,
\* effective_unit, resolve_node_names).
SchemaIsDescribed ==
  kind = "description" =>
    /\ DOMAIN got = KeysOf(given.doc)
    /\ \A key \in DOMAIN got :
         /\ key[1] \in CircuitIds /\ key[2] = "active-power" => got[key].unit = {"W"}
         /\ key = <<"pv", "nameplate-capacity">> => got[key].unit = {"W"}
         /\ <<key[1], "name">> \in DOMAIN got \cap DOMAIN given.names =>
              got[key].node_name = {given.names[<<key[1], "name">>]}

\* A session hands on what the panel publishes, whole and in order: values as
\* readings and not the echo of a command, documents as schemas; a command goes
\* to the topic of the property it is for; none of it happens without the
\* panel's certificate (_on_message, send_command, parse_value_topic, topic_for).
SessionSpeaksSchema ==
  kind = "session" =>
    /\ got.readings = given.values
    /\ got.schemas = [i \in DOMAIN given.documents |-> Local!parse_description(given.documents[i])]
    /\ got.published = [i \in DOMAIN given.commands |->
         [topic |-> CommandTopic(given.commands[i].key), payload |-> given.commands[i].value]]
    /\ ~given.ca_cert_exists => got = Local!Stopped("p1")

Registered(resp) == resp.status < 400 /\ Local!RequiredFields \subseteq DOMAIN resp.body
Successes == {i \in DOMAIN given : Registered(given[i])}
SerialOf(i) == given[i].body["serialNumber"]
LastFor(serial) == {i \in Successes : SerialOf(i) = serial /\ \A k \in Successes : SerialOf(k) = serial => k <= i}
Serials == {r.body["serialNumber"] : r \in {q \in Responses : "serialNumber" \in DOMAIN q.body}}

\* The credentials loaded for a panel are those of its last registration that
\* succeeded, all from that one response, whatever was registered in between;
\* without a serial they are those of the panel registered first (register,
\* from_response, save_credentials, load_credentials).
CachedIsRegistered ==
  kind = "registration" =>
    LET first == {SerialOf(i) : i \in {k \in Successes : \A l \in Successes : k <= l}}
        AreOf(loaded, i) ==
          /\ loaded # {}
          /\ \A c \in loaded :
               /\ c.serial = SerialOf(i)
               /\ c.access_token = given[i].body["accessToken"]
               /\ c.ebus_username = given[i].body["ebusBrokerUsername"]
               /\ c.ebus_password = given[i].body["ebusBrokerPassword"]
               /\ c.hostname = given[i].body["hostname"]
    IN  \A serial \in {{}} \cup {{s} : s \in Serials} :
          LET loaded == Local!load_credentials(got, serial)
              wanted == UNION {LastFor(s) : s \in IF serial = {} THEN first ELSE serial}
          IN  /\ wanted = {} => loaded = {}
              /\ \A i \in wanted : AreOf(loaded, i)

\* A certificate taken from the broker's own chain becomes the panel's anchor
\* only if it verifies that broker, one is found if there is one, and a failure
\* leaves the anchor there was (fetch_ca_certificate, fetch_ca_from_broker).
AnchorSigns ==
  kind = "certificate" =>
    LET asked == given.rest.status \in {0, 503}
        good == {c \in given.broker.verifying : \E i \in DOMAIN given.broker.chain : given.broker.chain[i] = c}
    IN  /\ got.raises => got.path = given.path
        /\ asked /\ ~got.raises => got.path # {} /\ got.path \subseteq good
        /\ asked /\ given.broker.reachable /\ good # {} => ~got.raises
        /\ got.path \subseteq Certificates

=============================================================================
