-------------------------- MODULE ChannelPayloads --------------------------
(***************************************************************************)
(* What comes over a connection and may be cut short: the answer to a gRPC *)
(* call, and the event stream, which is read line by line.                 *)
(***************************************************************************)
EXTENDS Handling, CloudCalls

CONSTANTS
    MessageBytes,    \* size of the message of an answer
    StreamLines      \* the fields and values that the lines of a stream have

ASSUME ChannelAssumption ==
  /\ MessageBytes \in Nat \ {0}
  /\ StreamLines \subseteq [field : STRING, value : STRING]

Events == INSTANCE EventStream

(***************************************************************************)
(* Calls.  The service answers with a status; of an answer with a message, *)
(* some of the bytes may be missing.                                       *)
(***************************************************************************)
Messages == {NoPayload, "message"}
SizeOf(message) == IF message = NoPayload THEN 0 ELSE MessageBytes

Arrived(body, lost, compressed) ==
  [compressed |-> compressed, declared |-> body.declared,
   length |-> IF lost >= body.length THEN 0 ELSE body.length - lost, payload |-> body.payload]

OnCall ==
  /\ Comes("call")
  /\ \E status \in {0, 7, 16} : \E message \in Messages : \E http \in {0, 200, 502} :
     \E lost \in 0 .. HeaderBytes + MessageBytes : \E compressed \in BOOLEAN :
       Handled([status |-> status, message |-> message, http |-> http, lost |-> lost, compressed |-> compressed],
               call([http   |-> http,
                     header |-> IF status = 0 THEN {} ELSE {status},
                     body   |-> Arrived(frame_message(message, SizeOf(message)), lost, compressed)]))

(***************************************************************************)
(* The stream.  Whether stop() is true is asked as a line comes.           *)
(***************************************************************************)
OnStream ==
  /\ Comes("stream")
  /\ \E status \in {200, 401} : Handled([status |-> status, lines |-> <<>>, stops |-> {}], Events!Fresh)

OnStreamLine ==
  /\ GoesOn("stream")
  /\ Len(given.lines) < MaxSteps
  /\ \E l \in StreamLines : \E stop \in BOOLEAN :
       LET at == Len(given.lines) + 1
           line == Events!Line(l.field, l.value, at)
       IN  Follows([given EXCEPT !.lines = Append(@, line), !.stops = IF stop THEN @ \cup {at} ELSE @],
                   Events!stream_frames(got, given.status, line, stop))

ChannelKinds == {"call", "stream"}
ChannelNext == OnCall \/ OnStream \/ OnStreamLine

\* Calls and streams, whatever else is handled in between.
ChannelSpec == Init /\ [][ChannelNext \/ Rest \/ Elsewhere(ChannelKinds)]_vars

(***************************************************************************)
(* What must hold.                                                         *)
(***************************************************************************)

\* A call never returns part of a message, nor a message of a failed call, and
\* returns every message that came whole and well (call, unframe_message).
NoPartialMessage ==
  kind = "call" =>
    /\ "message" \in got.payload =>
         given.message = "message" /\ given.lost = 0 /\ given.status = 0 /\ given.http = 200
    /\ given.status # 0 \/ given.http # 200 => got.raises # {}
    /\ given.lost = 0 /\ given.status = 0 /\ given.http = 200 /\ ~given.compressed =>
         got.payload = {given.message}
    /\ got.raises = {} <=> got.payload # {}

\* The lines that are read, what stands before line b and after the last blank
\* line before it, and the lines there that have a given field.
Read == {i \in DOMAIN given.lines : given.status = 200 /\ \A j \in given.stops : i < j}
IsBlank(line) == line.field = "blank"
BlockBefore(lines, b) == {i \in 1 .. b - 1 : \A j \in i .. b - 1 : ~IsBlank(lines[j])}
Fields(lines, b, field) == {i \in BlockBefore(lines, b) : lines[i].field = field}

Increasing(seq) == \A k, l \in DOMAIN seq : k < l => seq[k] < seq[l]

\* A name and data that are those of the block before line b.
NameOfBlock(lines, name, b) ==
  LET named == Fields(lines, b, "event")
  IN  /\ named = {} => name = "message"
      /\ \A i \in named : (\A j \in named : j <= i) => name = lines[i].value
DataOfBlock(lines, data, b) ==
  /\ {data[k].at : k \in DOMAIN data} = Fields(lines, b, "data")
  /\ Increasing([k \in DOMAIN data |-> data[k].at])
  /\ \A k \in DOMAIN data : data[k] = lines[data[k].at]

\* An event is what stands between two blank lines, named by the last name
\* given there and carrying all the data given there, in order; one that the
\* stop or the end cuts short is not delivered at all, and only message events
\* that carry a frame, on a stream that was opened, reach on_frame
\* (iter_sse_events, halt_when, stream_frames).
EventsAreBlocks ==
  kind = "stream" =>
    LET at(k) == got.events[k].at
        block(b) == IsBlank(given.lines[b]) /\ Fields(given.lines, b, "data") # {}
        framed(event) ==
          event.event = "message" /\ Len(event.data) = 1 /\ event.data[1].value \in {"frame", "undeclared"}
    IN  /\ {at(k) : k \in DOMAIN got.events} = {b \in Read : block(b)}
        /\ Increasing([k \in DOMAIN got.events |-> at(k)])
        /\ \A k \in DOMAIN got.events :
             /\ NameOfBlock(given.lines, got.events[k].event, at(k))
             /\ DataOfBlock(given.lines, got.events[k].data, at(k))
        /\ {got.frames[k] : k \in DOMAIN got.frames} = {at(k) : k \in {l \in DOMAIN got.events : framed(got.events[l])}}
        /\ Increasing(got.frames)

=============================================================================
