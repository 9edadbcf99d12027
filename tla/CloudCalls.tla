----------------------------- MODULE CloudCalls -----------------------------
(***************************************************************************)
(* The single calls of the cloud backend: span_client/cloud_grpc.py's      *)
(* framing and status, and the requests and answers of bootstrap and       *)
(* subscribe in span_client/backend.py.                                    *)
(***************************************************************************)
EXTENDS ProtoMessage

(***************************************************************************)
(* gRPC.  A response is what httpx hands over: the HTTP status, the        *)
(* grpc-status of the header block if there is one, and a body of which    *)
(* the first `length' bytes arrived.  The body starts with a compression   *)
(* flag and the length its message has; HeaderBytes of it are no message.  *)
(***************************************************************************)
HeaderBytes == 5

Raised(status) == [raises |-> {status}, payload |-> {}]
Returned(payload) == [raises |-> {}, payload |-> {payload}]
NothingRead == [raises |-> {}, payload |-> {}]

frame_message(payload, size) ==
  [compressed |-> FALSE, declared |-> size, length |-> HeaderBytes + size, payload |-> payload]

\* Mutant: the declared length is not compared with what came.
UnframeShort(body) ==
  IF body.length < HeaderBytes THEN NothingRead
  ELSE IF body.compressed THEN Raised(2) ELSE Returned(body.payload)

unframe_message(body) ==
  IF body.length < HeaderBytes THEN NothingRead
  ELSE IF HeaderBytes + body.declared > body.length \/ body.compressed THEN Raised(2)
  ELSE Returned(body.payload)

\* A call without a message returns the same empty bytes as an empty message.
NoPayload == "nothing"

call(resp) ==
  LET message == unframe_message(resp.body)
  IN  IF resp.http = 0 THEN Raised(14)
      ELSE IF resp.header \ {0} # {} THEN Raised(OrElse(resp.header, 0))
      ELSE IF resp.http # 200 THEN Raised(2)
      ELSE IF message = NothingRead THEN Returned(NoPayload)
      ELSE message

(***************************************************************************)
(* GetSitesForUser.                                                        *)
(***************************************************************************)
\* The ids in the order of the message; an empty set is where the walk raises.
Steps(malformed, parts) == IF malformed THEN <<{}>> ELSE FlattenSeq(parts)

MemberStep(member) ==
  IF get_bytes_raises(member, 2) THEN <<{}>> ELSE <<{OrElse(get_str(member, 2), "")}>>

GroupSteps(group) ==
  LET members == get_msgs(group, 1)
  IN  Steps(get_msgs_raises(group, 1), [i \in DOMAIN members |-> MemberStep(members[i])])

SiteSteps(site) ==
  LET groups == get_msgs(site, 3)
  IN  Steps(get_msgs_raises(site, 3), [i \in DOMAIN groups |-> GroupSteps(groups[i])])

\* What was collected before a malformed part is kept.
parse_sites_hardware_ids(raw) ==
  LET sites == get_msgs(raw, 1)
      steps == Steps(get_msgs_raises(raw, 1), [i \in DOMAIN sites |-> SiteSteps(sites[i])])
      broken == SelectInSeq(steps, LAMBDA s : s = {})
      good == IF broken = 0 THEN steps ELSE SubSeq(steps, 1, broken - 1)
      new(out, s) == s # {""} /\ \A i \in DOMAIN out : {out[i]} # s
  IN  FoldLeft(LAMBDA out, s : IF new(out, s) THEN Append(out, OrElse(s, "")) ELSE out, <<>>, good)

SUBSCRIBE_TRAITS ==
  LET span == <<36, 17, 15, 16, 2, 33, 47, 28, 1, 13, 26, 21, 12, 14, 11, 31, 32, 35, 18, 38, 41,
                19, 39, 5, 6, 4, 40, 20>>
  IN  <<<<5, 1>>>> \o [i \in DOMAIN span |-> <<1, span[i]>>] \o <<<<5, 3>>, <<1, 42>>>>

build_subscribe_request(channel, hardware_ids) ==
  LET traits == field_messages(2, [i \in DOMAIN SUBSCRIBE_TRAITS |->
                                     field_varint(1, SUBSCRIBE_TRAITS[i][1])
                                       @@ field_varint(3, SUBSCRIBE_TRAITS[i][2])])
  IN  field_message(1, field_string(1, channel))
        @@ field_messages(2, [i \in DOMAIN hardware_ids |->
                                field_message(1, field_string(1, hardware_ids[i])) @@ traits])

(***************************************************************************)
(* AblyToken.  What json.loads makes of a string is in JsonOf: nothing for *)
(* one that is no JSON, the names of an object otherwise.                  *)
(***************************************************************************)
JsonOf ==
  [s \in {"{mac}", "{nonce}", "{token}", "{other}"} |->
     CASE s = "{mac}" -> {"mac"} [] s = "{nonce}" -> {"nonce"}
       [] s = "{token}" -> {"token"} [] s = "{other}" -> {"other"}]
Braced == DOMAIN JsonOf \cup {"{broken"}

Directive(token_request, token, channel) ==
  [token_request |-> token_request, token |-> token, channel |-> channel]

parse_ably_token(raw, fallback_channel) ==
  LET field1 == get_str(raw, 1) \ {""}
      said == get_str(raw, 2) \ {""}
      object == UNION {IF s \in DOMAIN JsonOf THEN {s} ELSE {} : s \in field1}
      signed == {s \in object : JsonOf[s] \cap {"mac", "nonce"} # {}}
      ready == {s \in object \ signed : "token" \in JsonOf[s]}
  IN  Directive(signed, {"issued" : s \in ready} \cup (field1 \ object),
                IF said # {} THEN said ELSE fallback_channel)

\* cloud_ably.py: Ably's answer to a signed TokenRequest is an HTTP status, 0
\* where none came, and the token of its body, if the body is JSON and has one.
\* Any 2xx will do; an empty token is none.  Nothing where it raises.
request_token(resp) == IF resp.http \in 200 .. 299 THEN resp.token \ {""} ELSE {}

\* Mutant: the channel is the user's own, whatever SPAN says.
BootstrapOnOwn(raw, fallback_channel, exchange) ==
  parse_ably_token(raw, fallback_channel).token \X fallback_channel

\* What bootstrap attaches with: the token, exchanged if need be, and the
\* channel; nothing if it raises.
bootstrap(raw, fallback_channel, exchange) ==
  LET directive == parse_ably_token(raw, fallback_channel)
      exchanged == UNION {request_token(exchange) : r \in directive.token_request}
  IN  (IF directive.token # {} THEN directive.token ELSE exchanged) \X directive.channel

\* Who a command says it is from: the token's own claim before the config's.
_requester_id(claim, user_id) == IF claim # {} THEN claim ELSE user_id

=============================================================================
