---------------------------- MODULE EventStream ----------------------------
(***************************************************************************)
(* span_client/cloud_ably.py's reading of the event stream, line by line:  *)
(* halt_when, iter_sse_events, decode_message_data and the loop of         *)
(* stream_frames over them.                                                *)
(*                                                                         *)
(* A line is a record of its field and value; the blank line and the       *)
(* comment are fields of their own.  Data is the sequence of its lines.    *)
(***************************************************************************)
EXTENDS Integers, Sequences

\* at is the line's number in the stream: no code reads it.
Line(field, value, at) == [field |-> field, value |-> value, at |-> at]
BLANK == "blank"
COMMENT == "comment"

(***************************************************************************)
(* The envelope.  A datum names what its text is: a frame in base64 with   *)
(* or without a declared encoding, or one of the shapes that carry none.   *)
(***************************************************************************)
Frames == {"frame", "undeclared"}
NoFrames == {"not json", "not an object", "no data", "other encoding", "not base64"}

\* A datum of several lines is no JSON object.
decode_message_data(sse_data) ==
  IF Len(sse_data) = 1 /\ sse_data[1].value \in Frames THEN {sse_data[1].value} ELSE {}

(***************************************************************************)
(* The generators' state: whether halt_when has ended the stream, and in   *)
(* iter_sse_events the event's name and its data so far; what was yielded  *)
(* to stream_frames, and which of it on_frame was called with.             *)
(***************************************************************************)
Fresh == [halted |-> FALSE, event |-> "message", data_lines |-> <<>>, events |-> <<>>, frames |-> <<>>]

\* The loop body of stream_frames.
on_event(s, event) ==
  IF event.event = "message" /\ decode_message_data(event.data) # {}
    THEN [s EXCEPT !.events = Append(@, event), !.frames = Append(@, event.at)]
    ELSE [s EXCEPT !.events = Append(@, event)]

Yielded(s, at) ==
  IF s.data_lines = <<>> THEN s ELSE on_event(s, [event |-> s.event, data |-> s.data_lines, at |-> at])

\* Mutant: the name of an event outlives it.
DispatchSameName(s, at) == [Yielded(s, at) EXCEPT !.data_lines = <<>>]

Dispatch(s, at) == [Yielded(s, at) EXCEPT !.event = "message", !.data_lines = <<>>]

iter_sse_events(s, line) ==
  CASE line.field = BLANK   -> Dispatch(s, line.at)
    [] line.field = "event" -> [s EXCEPT !.event = line.value]
    [] line.field = "data"  -> [s EXCEPT !.data_lines = Append(@, line)]
    [] OTHER                -> s

\* The test comes before the line is passed on: a line that comes when stop()
\* is true is not read, and none after it.
halt_when(s, line, stop) ==
  IF stop THEN [s EXCEPT !.halted = TRUE] ELSE iter_sse_events(s, line)

\* An answer that is not 200 raises before any line is read.  What is gathered
\* when the lines end is dropped.
stream_frames(s, status, line, stop) ==
  IF status # 200 \/ s.halted THEN s ELSE halt_when(s, line, stop)

=============================================================================
