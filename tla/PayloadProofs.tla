--------------------------- MODULE PayloadProofs ---------------------------
(***************************************************************************)
(* Proofs about ChannelPayloads, LocalPayloads, SignInPayloads and         *)
(* WirePayloads.                                                           *)
(***************************************************************************)
EXTENDS ChannelPayloads, LocalPayloads, SignInPayloads, WirePayloads, TLAPS, FiniteSetTheorems, NaturalsInduction, WellFoundedInduction, SequenceTheorems

(***************************************************************************)
(* Calls.                                                                  *)
(***************************************************************************)

\* A call's step makes the property true, whatever was before (call).
LEMMA CallWhole == OnCall => NoPartialMessage'
<1>. SUFFICES ASSUME OnCall PROVE NoPartialMessage'
  OBVIOUS
<1>. USE ChannelAssumption
<1>1. PICK status \in {0, 7, 16}, message \in Messages, http \in {0, 200, 502},
           lost \in 0 .. HeaderBytes + MessageBytes, compressed \in BOOLEAN :
        Handled([status |-> status, message |-> message, http |-> http, lost |-> lost, compressed |-> compressed],
                call([http   |-> http,
                      header |-> IF status = 0 THEN {} ELSE {status},
                      body   |-> Arrived(frame_message(message, SizeOf(message)), lost, compressed)]))
  BY DEF OnCall
<1>. DEFINE length == IF lost >= HeaderBytes + SizeOf(message) THEN 0 ELSE HeaderBytes + SizeOf(message) - lost
            sent == [compressed |-> compressed, declared |-> SizeOf(message), length |-> length, payload |-> message]
            answer == call([http |-> http, header |-> IF status = 0 THEN {} ELSE {status}, body |-> sent])
<1>3. SizeOf(message) \in Nat /\ (message = "message" => SizeOf(message) > 0)
  BY DEF SizeOf, Messages, NoPayload
<1>6. lost \in Nat /\ HeaderBytes = 5
  BY DEF HeaderBytes
<1>9. Arrived(frame_message(message, SizeOf(message)), lost, compressed) = sent
  BY <1>3, <1>6 DEF Arrived, frame_message
<1>2. given' = [status |-> status, message |-> message, http |-> http, lost |-> lost, compressed |-> compressed]
      /\ got' = answer
  BY <1>1, <1>9, Zenon DEF Handled
<1>4. unframe_message(sent) =
        IF length < HeaderBytes THEN NothingRead
        ELSE IF HeaderBytes + SizeOf(message) > length \/ compressed THEN Raised(2)
        ELSE Returned(message)
  BY DEF unframe_message
<1>5. answer = IF http = 0 THEN Raised(14) ELSE
               IF status # 0 THEN Raised(status) ELSE
               IF http # 200 THEN Raised(2) ELSE
               IF unframe_message(sent) = NothingRead THEN Returned(NoPayload) ELSE unframe_message(sent)
  <2>1. CASE status = 0
    BY <2>1 DEF call
  <2>2. CASE status # 0
    BY <2>2 DEF call, OrElse
  <2>. QED BY <2>1, <2>2
<1>10. /\ \A x : Raised(x).raises # {} /\ Raised(x).payload = {}
       /\ \A x : Returned(x).raises = {} /\ Returned(x).payload # {}
       /\ \A x : Raised(x) # NothingRead /\ Returned(x) # NothingRead
  <2>1. \A x : {x} # {}
    OBVIOUS
  <2>. QED BY <2>1 DEF Raised, Returned, NothingRead
<1>. HIDE DEF sent, answer
<1>7. CASE http = 200 /\ status = 0
  <2>1. HeaderBytes + SizeOf(message) > length <=> lost # 0
    BY <1>3, <1>6
  <2>2. length < HeaderBytes => lost # 0
    BY <1>3, <1>6
  <2>3. CASE length < HeaderBytes
    <3>1. answer = Returned(NoPayload)
      BY <1>4, <1>5, <1>7, <2>3
    <3>. QED BY <1>2, <1>7, <2>2, <2>3, <3>1 DEF NoPartialMessage, Returned, NoPayload
  <2>4. CASE ~(length < HeaderBytes) /\ (lost # 0 \/ compressed)
    <3>2. unframe_message(sent) = Raised(2)
      BY <1>4, <2>1, <2>4
    <3>1. answer = Raised(2)
      BY <1>5, <1>7, <1>10, <3>2
    <3>. QED BY <1>2, <1>7, <2>4, <3>1 DEF NoPartialMessage, Raised
  <2>5. CASE ~(length < HeaderBytes) /\ lost = 0 /\ ~compressed
    <3>2. unframe_message(sent) = Returned(message)
      BY <1>4, <2>1, <2>5
    <3>1. answer = Returned(message)
      BY <1>5, <1>7, <1>10, <3>2
    <3>. QED BY <1>2, <1>7, <2>5, <3>1 DEF NoPartialMessage, Returned
  <2>. QED BY <2>3, <2>4, <2>5
<1>8. CASE ~(http = 200 /\ status = 0)
  <2>1. \E x : answer = Raised(x)
    BY <1>5, <1>8
  <2>. QED BY <1>2, <1>8, <1>10, <2>1 DEF NoPartialMessage
<1>. QED BY <1>7, <1>8

(***************************************************************************)
(* The stream.                                                             *)
(***************************************************************************)
Words == {"message"} \cup UNION {{l.field, l.value} : l \in StreamLines}
LineRecords == [field : Words, value : Words, at : Nat]
EventRecords == [event : Words, data : Seq(LineRecords), at : Nat]
ReaderStates == [halted : BOOLEAN, event : Words, data_lines : Seq(LineRecords),
                 events : Seq(EventRecords), frames : Seq(Nat)]
Numbered(lines) == \A i \in DOMAIN lines : lines[i].at = i

\* What EventsAreBlocks says of the events and frames of the lines in read.
IsBlock(lines, b) == IsBlank(lines[b]) /\ Fields(lines, b, "data") # {}
Framed(event) == event.event = "message" /\ Len(event.data) = 1 /\ event.data[1].value \in {"frame", "undeclared"}
Blocks(lines, read, s) ==
  /\ {s.events[k].at : k \in DOMAIN s.events} = {b \in read : IsBlock(lines, b)}
  /\ Increasing([k \in DOMAIN s.events |-> s.events[k].at])
  /\ \A k \in DOMAIN s.events :
       /\ NameOfBlock(lines, s.events[k].event, s.events[k].at)
       /\ DataOfBlock(lines, s.events[k].data, s.events[k].at)
  /\ {s.frames[k] : k \in DOMAIN s.frames} = {s.events[k].at : k \in {l \in DOMAIN s.events : Framed(s.events[l])}}
  /\ Increasing(s.frames)

LEMMA BlocksStated == EventsAreBlocks <=> (kind = "stream" => Blocks(given.lines, Read, got))
BY DEF EventsAreBlocks, Blocks, IsBlock, Framed

\* A line that is appended changes nothing of the blocks that end before it.
LEMMA BlockKept ==
  ASSUME NEW lines \in Seq(LineRecords), NEW line \in LineRecords, NEW b \in 1 .. Len(lines) + 1
  PROVE  /\ \A field : Fields(Append(lines, line), b, field) = Fields(lines, b, field)
         /\ \A name : NameOfBlock(Append(lines, line), name, b) <=> NameOfBlock(lines, name, b)
         /\ \A data : DataOfBlock(lines, data, b) => DataOfBlock(Append(lines, line), data, b)
<1>. DEFINE grown == Append(lines, line)
<1>1. \A i \in 1 .. Len(lines) : grown[i] = lines[i]
  OBVIOUS
<1>. HIDE DEF grown
<1>2. BlockBefore(grown, b) = BlockBefore(lines, b)
  <2>1. \A i \in 1 .. b - 1 : \A j \in i .. b - 1 : IsBlank(grown[j]) <=> IsBlank(lines[j])
    BY <1>1 DEF IsBlank
  <2>. QED BY <2>1 DEF BlockBefore
<1>3. BlockBefore(lines, b) \subseteq 1 .. Len(lines)
  BY DEF BlockBefore
<1>4. \A field : Fields(grown, b, field) = Fields(lines, b, field)
  BY <1>1, <1>2, <1>3 DEF Fields
<1>5. \A field : Fields(lines, b, field) \subseteq 1 .. Len(lines)
  BY <1>3 DEF Fields
<1>6. \A name : NameOfBlock(grown, name, b) <=> NameOfBlock(lines, name, b)
  BY <1>1, <1>4, <1>5 DEF NameOfBlock
<1>7. ASSUME NEW data, DataOfBlock(lines, data, b) PROVE DataOfBlock(grown, data, b)
  <2>1. \A k \in DOMAIN data : data[k].at \in 1 .. Len(lines)
    BY <1>5, <1>7 DEF DataOfBlock
  <2>. QED BY <1>1, <1>4, <1>7, <2>1 DEF DataOfBlock
<1>. QED BY <1>4, <1>6, <1>7 DEF grown

\* What stands before the end grows by the line that comes, which ends it if it
\* is blank.
LEMMA BlockGrows ==
  ASSUME NEW lines \in Seq(LineRecords), NEW line \in LineRecords, NEW field
  PROVE  Fields(Append(lines, line), Len(lines) + 2, field) =
           IF IsBlank(line) THEN {}
           ELSE IF line.field = field THEN Fields(lines, Len(lines) + 1, field) \cup {Len(lines) + 1}
           ELSE Fields(lines, Len(lines) + 1, field)
<1>. DEFINE grown == Append(lines, line)
            n == Len(lines)
<1>1. (\A i \in 1 .. n : grown[i] = lines[i]) /\ grown[n + 1] = line /\ n \in Nat
  OBVIOUS
<1>. HIDE DEF grown, n
<1>2. CASE IsBlank(line)
  <2>1. BlockBefore(grown, n + 2) = {}
    BY <1>1, <1>2 DEF BlockBefore
  <2>. QED BY <1>2, <2>1 DEF Fields, grown, n
<1>3. CASE ~IsBlank(line)
  <2>1. ASSUME NEW i \in 1 .. n
        PROVE  (\A j \in i .. n + 1 : ~IsBlank(grown[j])) <=> (\A j \in i .. n : ~IsBlank(lines[j]))
    BY <1>1, <1>3 DEF IsBlank
  <2>2. \A j \in n + 1 .. n + 1 : ~IsBlank(grown[j])
    BY <1>1, <1>3
  <2>3. BlockBefore(grown, n + 2) = BlockBefore(lines, n + 1) \cup {n + 1}
    BY <1>1, <2>1, <2>2 DEF BlockBefore
  <2>4. BlockBefore(lines, n + 1) \subseteq 1 .. n
    BY <1>1 DEF BlockBefore
  <2>. QED BY <1>1, <1>3, <2>3, <2>4 DEF Fields, grown, n
<1>. QED BY <1>2, <1>3

\* So nothing changes in what has been delivered.
LEMMA BlocksKept ==
  ASSUME NEW lines \in Seq(LineRecords), NEW line \in LineRecords, NEW read \in SUBSET (1 .. Len(lines)),
         NEW s, Blocks(lines, read, s)
  PROVE  Blocks(Append(lines, line), read, s)
<1>. DEFINE grown == Append(lines, line)
<1>1. ASSUME NEW b \in read PROVE IsBlock(grown, b) <=> IsBlock(lines, b)
  BY BlockKept DEF IsBlock, IsBlank
<1>2. \A k \in DOMAIN s.events : s.events[k].at \in read
  BY DEF Blocks
<1>3. ASSUME NEW k \in DOMAIN s.events
      PROVE  /\ NameOfBlock(grown, s.events[k].event, s.events[k].at)
             /\ DataOfBlock(grown, s.events[k].data, s.events[k].at)
  <2>. DEFINE at == s.events[k].at
              name == s.events[k].event
              data == s.events[k].data
  <2>1. at \in 1 .. Len(lines) + 1
    <3>1. at \in read
      BY <1>2
    <3>. HIDE DEF at
    <3>. QED BY <3>1
  <2>2. NameOfBlock(lines, name, at) /\ DataOfBlock(lines, data, at)
    BY DEF Blocks
  <2>. HIDE DEF at, name, data
  <2>3. NameOfBlock(grown, name, at) /\ DataOfBlock(grown, data, at)
    BY <2>1, <2>2, BlockKept
  <2>. QED BY <2>3, Zenon DEF at, name, data
<1>4. {b \in read : IsBlock(grown, b)} = {b \in read : IsBlock(lines, b)}
  BY <1>1, Zenon
<1>. QED BY <1>3, <1>4, Zenon DEF Blocks

\* The fields of what on_event makes (on_event).
LEMMA OnEventStates ==
  ASSUME NEW s \in ReaderStates, NEW event \in EventRecords
  PROVE  LET next == Events!on_event(s, event)
         IN  /\ next \in ReaderStates
             /\ next.halted = s.halted /\ next.event = s.event /\ next.data_lines = s.data_lines
             /\ next.events = Append(s.events, event)
             /\ next.frames = IF event.event = "message" /\ Events!decode_message_data(event.data) # {}
                                THEN Append(s.frames, event.at) ELSE s.frames
<1>. DEFINE one == [s EXCEPT !.events = Append(s.events, event)]
            frames == Append(s.frames, event.at)
            next == Events!on_event(s, event)
            framed == event.event = "message" /\ Events!decode_message_data(event.data) # {}
<1>1. one \in ReaderStates /\ one.halted = s.halted /\ one.event = s.event /\ one.data_lines = s.data_lines
      /\ one.events = Append(s.events, event) /\ one.frames = s.frames
  <2>1. Append(s.events, event) \in Seq(EventRecords)
    BY DEF ReaderStates
  <2>. QED BY <2>1 DEF ReaderStates
<1>2. frames \in Seq(Nat)
  BY DEF ReaderStates, EventRecords
<1>3. next = IF framed THEN [one EXCEPT !.frames = frames] ELSE one
  BY Zenon DEF Events!on_event
<1>. HIDE DEF one, frames, framed
<1>4. CASE framed
  <2>1. next = [one EXCEPT !.frames = frames]
    BY <1>3, <1>4
  <2>. HIDE DEF next
  <2>2. /\ next \in ReaderStates
        /\ next.halted = one.halted /\ next.event = one.event /\ next.data_lines = one.data_lines
        /\ next.events = one.events /\ next.frames = frames
    BY <1>1, <1>2, <2>1 DEF ReaderStates
  <2>. QED BY <1>1, <1>4, <2>2, Zenon DEF next, framed, frames
<1>5. CASE ~framed
  <2>1. next = one
    BY <1>3, <1>5
  <2>. QED BY <1>1, <1>5, <2>1, Zenon DEF next, framed
<1>. QED BY <1>4, <1>5

\* A state that has gathered the name and data of what stands before the end.
Gathered(lines, s) ==
  /\ NameOfBlock(lines, s.event, Len(lines) + 1)
  /\ DataOfBlock(lines, s.data_lines, Len(lines) + 1)

\* The line is read: what it ends is delivered, and it is gathered otherwise
\* (iter_sse_events).
LEMMA LineGathered ==
  ASSUME NEW lines \in Seq(LineRecords), NEW line \in LineRecords, NEW s \in ReaderStates,
         Numbered(lines), line.at = Len(lines) + 1, Gathered(lines, s)
  PROVE  Gathered(Append(lines, line), Events!iter_sse_events(s, line))
<1>. DEFINE grown == Append(lines, line)
            n == Len(lines)
            next == Events!iter_sse_events(s, line)
<1>1. n \in Nat /\ Len(grown) = n + 1 /\ (\A i \in 1 .. n : grown[i] = lines[i]) /\ grown[n + 1] = line
  OBVIOUS
<1>2. \A field : Fields(lines, n + 1, field) \subseteq 1 .. n
  BY DEF Fields, BlockBefore
<1>3. \A field : Fields(grown, n + 2, field) =
           IF IsBlank(line) THEN {}
           ELSE IF line.field = field THEN Fields(lines, n + 1, field) \cup {n + 1}
           ELSE Fields(lines, n + 1, field)
  BY BlockGrows
<1>4. s.data_lines \in Seq(LineRecords)
  BY DEF ReaderStates
<1>5. CASE IsBlank(line)
  <2>1. next.event = "message" /\ next.data_lines = <<>>
    <3>1. next = Events!Dispatch(s, line.at)
      BY <1>5 DEF IsBlank, Events!iter_sse_events, Events!BLANK
    <3>2. Events!Yielded(s, line.at) \in ReaderStates
      <4>1. [event |-> s.event, data |-> s.data_lines, at |-> line.at] \in EventRecords
        BY DEF EventRecords, ReaderStates, LineRecords
      <4>. QED BY <4>1, OnEventStates DEF Events!Yielded
    <3>. QED BY <3>1, <3>2 DEF Events!Dispatch, ReaderStates
  <2>2. \A field : Fields(grown, n + 2, field) = {}
    BY <1>3, <1>5
  <2>3. NameOfBlock(grown, "message", n + 2)
    BY <2>2 DEF NameOfBlock
  <2>4. DataOfBlock(grown, <<>>, n + 2)
    BY <2>2 DEF DataOfBlock, Increasing
  <2>. QED BY <1>1, <2>1, <2>3, <2>4 DEF Gathered
<1>6. CASE line.field = "event"
  <2>0. ~IsBlank(line)
    BY <1>6 DEF IsBlank
  <2>1. next.event = line.value /\ next.data_lines = s.data_lines
    BY <1>6 DEF Events!iter_sse_events, Events!BLANK, ReaderStates
  <2>2. Fields(grown, n + 2, "event") = Fields(lines, n + 1, "event") \cup {n + 1}
    BY <1>3, <1>6, <2>0
  <2>3. Fields(grown, n + 2, "data") = Fields(lines, n + 1, "data")
    BY <1>3, <1>6, <2>0
  <2>4. NameOfBlock(grown, line.value, n + 2)
    <3>1. ASSUME NEW i \in Fields(lines, n + 1, "event") \cup {n + 1},
                 \A j \in Fields(lines, n + 1, "event") \cup {n + 1} : j <= i
          PROVE  i = n + 1
      BY <1>1, <1>2, <3>1
    <3>. QED BY <1>1, <2>2, <3>1 DEF NameOfBlock
  <2>5. DataOfBlock(grown, s.data_lines, n + 2)
    BY <1>1, <1>2, <2>3 DEF DataOfBlock, Gathered
  <2>. QED BY <1>1, <2>1, <2>4, <2>5 DEF Gathered
<1>7. CASE line.field = "data"
  <2>0. ~IsBlank(line)
    BY <1>7 DEF IsBlank
  <2>1. next.event = s.event /\ next.data_lines = Append(s.data_lines, line)
    BY <1>7 DEF Events!iter_sse_events, Events!BLANK, ReaderStates
  <2>2. Fields(grown, n + 2, "event") = Fields(lines, n + 1, "event")
    BY <1>3, <1>7, <2>0
  <2>3. Fields(grown, n + 2, "data") = Fields(lines, n + 1, "data") \cup {n + 1}
    BY <1>3, <1>7, <2>0
  <2>4. NameOfBlock(grown, s.event, n + 2)
    BY <1>1, <1>2, <2>2 DEF NameOfBlock, Gathered
  <2>5. DataOfBlock(grown, Append(s.data_lines, line), n + 2)
    <3>. DEFINE old == s.data_lines
                data == Append(old, line)
    <3>1. DOMAIN data = DOMAIN old \cup {Len(old) + 1} /\ Len(old) \in Nat /\ DOMAIN old = 1 .. Len(old)
      BY <1>4
    <3>2. (\A k \in DOMAIN old : data[k] = old[k]) /\ data[Len(old) + 1] = line
      BY <1>4
    <3>3. /\ {old[k].at : k \in DOMAIN old} = Fields(lines, n + 1, "data")
          /\ \A k, l \in DOMAIN old : k < l => old[k].at < old[l].at
          /\ \A k \in DOMAIN old : old[k] = lines[old[k].at]
      BY DEF Gathered, DataOfBlock, Increasing
    <3>. HIDE DEF old, data
    <3>4. \A k \in DOMAIN old : data[k].at \in 1 .. n
      BY <1>2, <3>2, <3>3
    <3>5. {data[k].at : k \in DOMAIN data} = Fields(grown, n + 2, "data")
      BY <2>3, <3>1, <3>2, <3>3
    <3>6. \A k, l \in DOMAIN data : k < l => data[k].at < data[l].at
      BY <1>1, <3>1, <3>2, <3>3, <3>4
    <3>7. \A k \in DOMAIN data : data[k] = grown[data[k].at]
      BY <1>1, <3>1, <3>2, <3>3, <3>4
    <3>. QED BY <3>5, <3>6, <3>7 DEF DataOfBlock, Increasing, old, data
  <2>. QED BY <1>1, <2>1, <2>4, <2>5 DEF Gathered
<1>8. CASE ~IsBlank(line) /\ line.field # "event" /\ line.field # "data"
  <2>1. next = s
    BY <1>8 DEF IsBlank, Events!iter_sse_events, Events!BLANK
  <2>2. \A field \in {"event", "data"} : Fields(grown, n + 2, field) = Fields(lines, n + 1, field)
    BY <1>3, <1>8
  <2>3. NameOfBlock(grown, s.event, n + 2)
    BY <1>1, <1>2, <2>2 DEF NameOfBlock, Gathered
  <2>4. DataOfBlock(grown, s.data_lines, n + 2)
    BY <1>1, <1>2, <2>2 DEF DataOfBlock, Gathered
  <2>. QED BY <1>1, <2>1, <2>3, <2>4 DEF Gathered
<1>. QED BY <1>5, <1>6, <1>7, <1>8 DEF IsBlank

\* What Dispatch clears, it clears alone (iter_sse_events).
LEMMA ClearedStates ==
  ASSUME NEW s \in ReaderStates
  PROVE  LET next == [s EXCEPT !.event = "message", !.data_lines = <<>>]
         IN  /\ next \in ReaderStates
             /\ next.halted = s.halted /\ next.event = "message" /\ next.data_lines = <<>>
             /\ next.events = s.events /\ next.frames = s.frames
<1>. DEFINE one == [s EXCEPT !.event = "message"]
            next == [s EXCEPT !.event = "message", !.data_lines = <<>>]
<1>1. one \in ReaderStates
  <2>1. "message" \in Words
    BY DEF Words
  <2>2. \A name \in Words : [s EXCEPT !.event = name] \in ReaderStates
    BY DEF ReaderStates
  <2>. QED BY <2>1, <2>2, Zenon
<1>2. one.halted = s.halted /\ one.event = "message" /\ one.events = s.events /\ one.frames = s.frames
  BY DEF ReaderStates
<1>3. next = [one EXCEPT !.data_lines = <<>>]
  BY Zenon
<1>. HIDE DEF one, next
<1>4. <<>> \in Seq(LineRecords)
  OBVIOUS
<1>5. next \in ReaderStates
  BY <1>1, <1>3, <1>4 DEF ReaderStates
<1>6. /\ next.halted = one.halted /\ next.event = one.event /\ next.data_lines = <<>>
      /\ next.events = one.events /\ next.frames = one.frames
  BY <1>1, <1>3 DEF ReaderStates
<1>. QED BY <1>2, <1>5, <1>6 DEF next

\* One more of a sequence of increasing numbers.
LEMMA IncreasingAppend ==
  ASSUME NEW seq \in Seq(Nat), NEW x \in Nat, Increasing(seq), \A k \in DOMAIN seq : seq[k] < x
  PROVE  /\ Increasing(Append(seq, x))
         /\ {Append(seq, x)[k] : k \in DOMAIN Append(seq, x)} = {seq[k] : k \in DOMAIN seq} \cup {x}
<1>. DEFINE longer == Append(seq, x)
            n == Len(seq)
<1>1. n \in Nat /\ DOMAIN seq = 1 .. n /\ DOMAIN longer = 1 .. n + 1 /\ longer[n + 1] = x
      /\ \A k \in 1 .. n : longer[k] = seq[k] /\ seq[k] \in Nat
  OBVIOUS
<1>. HIDE DEF longer, n
<1>2. \A k, l \in DOMAIN longer : k < l => longer[k] < longer[l]
  BY <1>1 DEF Increasing
<1>3. {longer[k] : k \in DOMAIN longer} = {seq[k] : k \in DOMAIN seq} \cup {x}
  <2>1. DOMAIN longer = DOMAIN seq \cup {n + 1}
    BY <1>1
  <2>2. \A k \in DOMAIN seq : longer[k] = seq[k]
    BY <1>1
  <2>. QED BY ONLY <1>1, <2>1, <2>2
<1>. QED BY <1>2, <1>3 DEF Increasing, longer

\* A frame is what decode_message_data finds in a datum (decode_message_data).
LEMMA FramedIsDecoded ==
  ASSUME NEW event \in EventRecords
  PROVE  Framed(event) <=> event.event = "message" /\ Events!decode_message_data(event.data) # {}
<1>1. \A x : {x} # {}
  OBVIOUS
<1>. QED BY <1>1 DEF Framed, Events!decode_message_data, Events!Frames

\* The line is read: a block that it ends is delivered, and its frame if it has
\* one (iter_sse_events, on_event).
LEMMA LineDelivered ==
  ASSUME NEW lines \in Seq(LineRecords), NEW line \in LineRecords, NEW s \in ReaderStates,
         Numbered(lines), line.at = Len(lines) + 1, Gathered(lines, s), Blocks(lines, 1 .. Len(lines), s)
  PROVE  LET next == Events!iter_sse_events(s, line)
         IN  /\ next \in ReaderStates /\ next.halted = s.halted
             /\ Blocks(Append(lines, line), 1 .. Len(lines) + 1, next)
<1>. DEFINE grown == Append(lines, line)
            n == Len(lines)
            next == Events!iter_sse_events(s, line)
            event == [event |-> s.event, data |-> s.data_lines, at |-> line.at]
<1>1. n \in Nat /\ Len(grown) = n + 1 /\ (\A i \in 1 .. n : grown[i] = lines[i]) /\ grown[n + 1] = line
  OBVIOUS
<1>2. Blocks(grown, 1 .. n, s)
  <2>1. 1 .. n \in SUBSET (1 .. Len(lines))
    OBVIOUS
  <2>. QED BY <2>1, BlocksKept
<1>3. Fields(grown, n + 1, "data") = Fields(lines, n + 1, "data")
  BY <1>1, BlockKept
<1>4. IsBlock(grown, n + 1) <=> IsBlank(line) /\ s.data_lines # <<>>
  <2>1. {s.data_lines[k].at : k \in DOMAIN s.data_lines} = Fields(lines, n + 1, "data")
    BY DEF Gathered, DataOfBlock
  <2>2. s.data_lines \in Seq(LineRecords)
    BY DEF ReaderStates
  <2>3. s.data_lines # <<>> <=> Fields(lines, n + 1, "data") # {}
    <3>1. CASE s.data_lines = <<>>
      BY <2>1, <3>1
    <3>2. CASE s.data_lines # <<>>
      <4>1. 1 \in DOMAIN s.data_lines
        BY <2>2, <3>2
      <4>2. s.data_lines[1].at \in Fields(lines, n + 1, "data")
        BY <2>1, <4>1
      <4>. QED BY <3>2, <4>2
    <3>. QED BY <3>1, <3>2
  <2>. QED BY <1>1, <1>3, <2>3 DEF IsBlock
<1>5. CASE ~(IsBlank(line) /\ s.data_lines # <<>>)
  <2>1. next \in ReaderStates /\ next.halted = s.halted /\ next.events = s.events /\ next.frames = s.frames
    <3>1. CASE IsBlank(line)
      <4>1. next = Events!Dispatch(s, line.at) /\ Events!Yielded(s, line.at) = s
        BY <1>5, <3>1 DEF IsBlank, Events!iter_sse_events, Events!BLANK, Events!Yielded
      <4>2. next = [s EXCEPT !.event = "message", !.data_lines = <<>>]
        BY <4>1, Zenon DEF Events!Dispatch
      <4>. QED BY <4>2, ClearedStates
    <3>2. CASE ~IsBlank(line) /\ line.field = "event"
      BY <3>2 DEF IsBlank, Events!iter_sse_events, Events!BLANK, ReaderStates, LineRecords
    <3>3. CASE ~IsBlank(line) /\ line.field = "data"
      <4>1. Append(s.data_lines, line) \in Seq(LineRecords)
        <5>1. s.data_lines \in Seq(LineRecords)
          BY DEF ReaderStates
        <5>. QED BY <5>1
      <4>2. next = [s EXCEPT !.data_lines = Append(s.data_lines, line)]
        BY <3>3 DEF IsBlank, Events!iter_sse_events, Events!BLANK
      <4>. HIDE DEF next
      <4>. QED BY <4>1, <4>2 DEF ReaderStates
    <3>4. CASE ~IsBlank(line) /\ line.field # "event" /\ line.field # "data"
      BY <3>4 DEF IsBlank, Events!iter_sse_events, Events!BLANK
    <3>. QED BY <3>1, <3>2, <3>3, <3>4
  <2>2. {b \in 1 .. n + 1 : IsBlock(grown, b)} = {b \in 1 .. n : IsBlock(grown, b)}
    BY <1>1, <1>4, <1>5
  <2>3. Blocks(grown, 1 .. n + 1, next)
    <3>. HIDE DEF grown, next, n
    <3>. QED BY <1>2, <2>1, <2>2, Zenon DEF Blocks
  <2>. QED BY <2>1, <2>3
<1>6. CASE IsBlank(line) /\ s.data_lines # <<>>
  <2>1. event \in EventRecords /\ event.at = n + 1
    BY DEF EventRecords, ReaderStates
  <2>. DEFINE yielded == Events!on_event(s, event)
  <2>2. /\ yielded \in ReaderStates /\ yielded.halted = s.halted
        /\ yielded.events = Append(s.events, event)
        /\ yielded.frames = IF Framed(event) THEN Append(s.frames, n + 1) ELSE s.frames
    <3>1. Framed(event) <=> event.event = "message" /\ Events!decode_message_data(event.data) # {}
      BY <2>1, FramedIsDecoded
    <3>. HIDE DEF event
    <3>. QED BY <2>1, <3>1, OnEventStates
  <2>3. next \in ReaderStates /\ next.halted = s.halted /\ next.events = yielded.events /\ next.frames = yielded.frames
    <3>1. next = Events!Dispatch(s, line.at) /\ Events!Yielded(s, line.at) = yielded
      BY <1>6 DEF IsBlank, Events!iter_sse_events, Events!BLANK, Events!Yielded
    <3>2. next = [yielded EXCEPT !.event = "message", !.data_lines = <<>>]
      BY <3>1, Zenon DEF Events!Dispatch
    <3>. HIDE DEF yielded, next
    <3>. QED BY <2>2, <3>2, ClearedStates
  <2>. DEFINE events == Append(s.events, event)
              m == Len(s.events)
  <2>4. m \in Nat /\ DOMAIN s.events = 1 .. m /\ DOMAIN events = 1 .. m + 1 /\ events[m + 1] = event
        /\ \A k \in 1 .. m : events[k] = s.events[k] /\ s.events[k] \in EventRecords
    BY <2>1 DEF ReaderStates
  <2>. HIDE DEF events, m
  <2>5. /\ {s.events[k].at : k \in 1 .. m} = {b \in 1 .. n : IsBlock(grown, b)}
        /\ \A k, l \in 1 .. m : k < l => s.events[k].at < s.events[l].at
        /\ {s.frames[k] : k \in DOMAIN s.frames} = {s.events[k].at : k \in {l \in 1 .. m : Framed(s.events[l])}}
        /\ Increasing(s.frames)
    BY <1>2, <2>4 DEF Blocks, Increasing
  <2>6. \A k \in 1 .. m : s.events[k].at \in 1 .. n
    BY <2>5
  <2>7. {events[k].at : k \in DOMAIN events} = {b \in 1 .. n + 1 : IsBlock(grown, b)}
    <3>1. {events[k].at : k \in DOMAIN events} = {s.events[k].at : k \in 1 .. m} \cup {n + 1}
      <4>1. DOMAIN events = (1 .. m) \cup {m + 1}
        BY <2>4
      <4>2. \A k \in 1 .. m : events[k].at = s.events[k].at
        BY <2>4
      <4>3. events[m + 1].at = n + 1
        BY <2>1, <2>4
      <4>. HIDE DEF n
      <4>. QED BY ONLY <4>1, <4>2, <4>3
    <3>2. {b \in 1 .. n + 1 : IsBlock(grown, b)} = {b \in 1 .. n : IsBlock(grown, b)} \cup {n + 1}
      BY <1>1, <1>4, <1>6
    <3>. QED BY <2>5, <3>1, <3>2
  <2>8. Increasing([k \in DOMAIN events |-> events[k].at])
    <3>1. ASSUME NEW k \in 1 .. m + 1, NEW l \in 1 .. m + 1, k < l PROVE events[k].at < events[l].at
      <4>1. CASE l \in 1 .. m
        BY <2>4, <2>5, <3>1, <4>1
      <4>2. CASE l = m + 1
        <5>1. k \in 1 .. m
          BY <2>4, <3>1, <4>2
        <5>2. events[k].at = s.events[k].at /\ events[l].at = n + 1
          BY <2>1, <2>4, <4>2, <5>1
        <5>3. s.events[k].at \in 1 .. n
          BY <2>6, <5>1
        <5>. QED BY <1>1, <5>2, <5>3
      <4>. QED BY <2>4, <4>1, <4>2
    <3>. QED BY <2>4, <3>1 DEF Increasing
  <2>9. ASSUME NEW k \in DOMAIN events
        PROVE  NameOfBlock(grown, events[k].event, events[k].at) /\ DataOfBlock(grown, events[k].data, events[k].at)
    <3>1. CASE k \in 1 .. m
      BY <1>2, <2>4, <3>1, Zenon DEF Blocks
    <3>2. CASE k = m + 1
      <4>1. NameOfBlock(grown, s.event, n + 1) /\ DataOfBlock(grown, s.data_lines, n + 1)
        BY <1>1, BlockKept DEF Gathered
      <4>. QED BY <2>1, <2>4, <3>2, <4>1
    <3>. QED BY <2>4, <3>1, <3>2
  <2>10. {l \in DOMAIN events : Framed(events[l])} =
           {l \in 1 .. m : Framed(s.events[l])} \cup (IF Framed(event) THEN {m + 1} ELSE {})
    BY <2>4
  <2>11. {events[k].at : k \in {l \in DOMAIN events : Framed(events[l])}} =
           {s.events[k].at : k \in {l \in 1 .. m : Framed(s.events[l])}} \cup (IF Framed(event) THEN {n + 1} ELSE {})
    BY <2>1, <2>4, <2>10
  <2>12. s.frames \in Seq(Nat) /\ \A k \in DOMAIN s.frames : s.frames[k] < n + 1
    <3>1. \A k \in DOMAIN s.frames : s.frames[k] \in 1 .. n
      BY <2>5, <2>6
    <3>. QED BY <1>1, <3>1 DEF ReaderStates
  <2>13. /\ {next.frames[k] : k \in DOMAIN next.frames} =
              {events[k].at : k \in {l \in DOMAIN events : Framed(events[l])}}
         /\ Increasing(next.frames)
    <3>1. CASE Framed(event)
      <4>1. n + 1 \in Nat
        BY <1>1
      <4>2. next.frames = Append(s.frames, n + 1)
        BY <2>2, <2>3, <3>1
      <4>. HIDE DEF next
      <4>3. {next.frames[k] : k \in DOMAIN next.frames} = {s.frames[k] : k \in DOMAIN s.frames} \cup {n + 1}
            /\ Increasing(next.frames)
        <5>1. \A seq \in Seq(Nat) : \A x \in Nat :
                Increasing(seq) /\ (\A k \in DOMAIN seq : seq[k] < x) =>
                  /\ Increasing(Append(seq, x))
                  /\ {Append(seq, x)[k] : k \in DOMAIN Append(seq, x)} = {seq[k] : k \in DOMAIN seq} \cup {x}
          BY IncreasingAppend, Zenon
        <5>2. /\ Increasing(Append(s.frames, n + 1))
              /\ {Append(s.frames, n + 1)[k] : k \in DOMAIN Append(s.frames, n + 1)} =
                   {s.frames[k] : k \in DOMAIN s.frames} \cup {n + 1}
          BY <2>5, <2>12, <4>1, <5>1, Zenon
        <5>. QED BY <4>2, <5>2, Zenon
      <4>. QED BY <2>5, <2>11, <3>1, <4>3
    <3>2. CASE ~Framed(event)
      <4>1. next.frames = s.frames
        BY <2>2, <2>3, <3>2
      <4>. HIDE DEF next
      <4>. QED BY <2>5, <2>11, <3>2, <4>1
    <3>. QED BY <3>1, <3>2
  <2>14. next.events = events
    BY <2>2, <2>3 DEF events
  <2>15. Blocks(grown, 1 .. n + 1, next)
    <3>. HIDE DEF grown, next, n
    <3>. QED BY <2>7, <2>8, <2>9, <2>13, <2>14, Zenon DEF Blocks
  <2>. QED BY <2>3, <2>15
<1>. QED BY <1>5, <1>6

\* The inductive invariant of a stream: its lines are numbered, what has not
\* been delivered is gathered as long as the stream runs, and what has been
\* delivered are the blocks that were read.
StreamInv ==
  kind = "stream" =>
    /\ given \in [status : {200, 401}, lines : Seq(LineRecords), stops : SUBSET Nat]
    /\ got \in ReaderStates
    /\ Numbered(given.lines) /\ given.stops \subseteq DOMAIN given.lines
    /\ given.status # 200 => got = Events!Fresh
    /\ given.status = 200 => (got.halted <=> given.stops # {})
    /\ given.status = 200 /\ given.stops = {} => Gathered(given.lines, got)
    /\ Blocks(given.lines, Read, got)

LEMMA StreamComes == OnStream => StreamInv'
<1>. SUFFICES ASSUME OnStream PROVE StreamInv'
  OBVIOUS
<1>1. PICK status \in {200, 401} : Handled([status |-> status, lines |-> <<>>, stops |-> {}], Events!Fresh)
  BY DEF OnStream
<1>2. given' = [status |-> status, lines |-> <<>>, stops |-> {}] /\ got' = Events!Fresh
  BY <1>1 DEF Handled
<1>3. given' \in [status : {200, 401}, lines : Seq(LineRecords), stops : SUBSET Nat]
  BY <1>2
<1>4. Events!Fresh \in ReaderStates /\ Events!Fresh.halted = FALSE
  BY DEF Events!Fresh, ReaderStates, Words
<1>5. Numbered(<<>>)
  BY DEF Numbered
<1>6. Gathered(<<>>, Events!Fresh)
  BY DEF Gathered, NameOfBlock, DataOfBlock, Fields, BlockBefore, Increasing, Events!Fresh
<1>7. Blocks(<<>>, {}, Events!Fresh)
  BY DEF Blocks, Increasing, Events!Fresh
<1>8. Read' = {}
  BY <1>2 DEF Read
<1>. QED BY <1>2, <1>3, <1>4, <1>5, <1>6, <1>7, <1>8 DEF StreamInv

LEMMA StreamGoesOn == StreamInv /\ OnStreamLine => StreamInv'
<1>. SUFFICES ASSUME StreamInv, OnStreamLine PROVE StreamInv'
  OBVIOUS
<1>1. PICK l \in StreamLines, stop \in BOOLEAN :
        Follows([given EXCEPT !.lines = Append(@, Events!Line(l.field, l.value, Len(given.lines) + 1)),
                              !.stops = IF stop THEN @ \cup {Len(given.lines) + 1} ELSE @],
                Events!stream_frames(got, given.status, Events!Line(l.field, l.value, Len(given.lines) + 1), stop))
  BY DEF OnStreamLine
<1>. DEFINE lines == given.lines
            n == Len(lines)
            line == Events!Line(l.field, l.value, n + 1)
            grown == Append(lines, line)
            stops == IF stop THEN given.stops \cup {n + 1} ELSE given.stops
<1>2. kind = "stream"
  BY DEF OnStreamLine, GoesOn
<1>3. /\ given \in [status : {200, 401}, lines : Seq(LineRecords), stops : SUBSET Nat]
      /\ got \in ReaderStates
      /\ Numbered(lines) /\ given.stops \subseteq 1 .. n
      /\ given.status # 200 => got = Events!Fresh
      /\ given.status = 200 => (got.halted <=> given.stops # {})
      /\ given.status = 200 /\ given.stops = {} => Gathered(lines, got)
      /\ Blocks(lines, Read, got)
  BY <1>2 DEF StreamInv
<1>4. given' = [given EXCEPT !.lines = grown, !.stops = stops]
      /\ got' = Events!stream_frames(got, given.status, line, stop)
  BY <1>1, Zenon DEF Follows
<1>5. lines \in Seq(LineRecords) /\ n \in Nat /\ given.stops \in SUBSET Nat /\ given.status \in {200, 401}
  BY <1>3
<1>6. line \in LineRecords /\ line.at = n + 1
  BY <1>5 DEF Events!Line, LineRecords, Words
<1>. HIDE DEF line
<1>7. grown \in Seq(LineRecords) /\ Len(grown) = n + 1 /\ (\A i \in 1 .. n : grown[i] = lines[i]) /\ grown[n + 1] = line
  BY <1>5, <1>6
<1>8. stops \in SUBSET Nat /\ stops \subseteq 1 .. n + 1
  BY <1>3, <1>5
<1>. HIDE DEF lines, n, grown, stops
<1>9. /\ given' \in [status : {200, 401}, lines : Seq(LineRecords), stops : SUBSET Nat]
      /\ given'.status = given.status /\ given'.lines = grown /\ given'.stops = stops
  <2>. DEFINE one == [given EXCEPT !.lines = grown]
              both == [given EXCEPT !.lines = grown, !.stops = stops]
  <2>1. one \in [status : {200, 401}, lines : Seq(LineRecords), stops : SUBSET Nat]
        /\ one.status = given.status /\ one.lines = grown
    BY <1>3, <1>7
  <2>2. both = [one EXCEPT !.stops = stops]
    BY Zenon
  <2>. HIDE DEF one, both
  <2>3. both \in [status : {200, 401}, lines : Seq(LineRecords), stops : SUBSET Nat]
        /\ both.status = one.status /\ both.lines = one.lines /\ both.stops = stops
    BY <1>8, <2>1, <2>2
  <2>4. given' = both
    BY <1>4 DEF both
  <2>. QED BY <2>1, <2>3, <2>4
<1>10. Numbered(grown)
  <2>1. \A i \in 1 .. n : grown[i].at = i
    BY <1>3, <1>5, <1>7 DEF Numbered, lines, n
  <2>. QED BY <1>5, <1>6, <1>7, <2>1 DEF Numbered
<1>11. Read = {i \in 1 .. n : given.status = 200 /\ \A j \in given.stops : i < j}
  BY <1>5 DEF Read, lines, n
<1>12. Read' = {i \in 1 .. n + 1 : given.status = 200 /\ \A j \in stops : i < j}
  <2>1. DOMAIN given'.lines = 1 .. n + 1
    BY <1>5, <1>7, <1>9
  <2>. QED BY <1>9, <2>1 DEF Read
<1>13. CASE given.status # 200
  <2>1. got' = got
    BY <1>4, <1>13 DEF Events!stream_frames
  <2>2. Read = {} /\ Read' = {}
    BY <1>11, <1>12, <1>13
  <2>3. Blocks(grown, {}, got)
    <3>1. {} \in SUBSET (1 .. Len(lines))
      OBVIOUS
    <3>. QED BY <1>3, <1>5, <1>6, <2>2, <3>1, BlocksKept DEF grown
  <2>. QED BY <1>3, <1>7, <1>8, <1>9, <1>10, <1>13, <2>1, <2>2, <2>3 DEF StreamInv
<1>14. CASE given.status = 200 /\ (given.stops # {} \/ stop)
  <2>1. stops # {} /\ Read' = Read
    <3>1. CASE given.stops # {}
      <4>1. PICK j \in given.stops : TRUE
        BY <3>1
      <4>2. j \in 1 .. n /\ given.stops \subseteq stops /\ stops \subseteq given.stops \cup {n + 1}
        BY <1>3, <4>1 DEF stops
      <4>. QED BY <1>5, <1>11, <1>12, <1>14, <3>1, <4>1, <4>2
    <3>2. CASE given.stops = {}
      <4>1. stops = {n + 1}
        BY <1>14, <3>2 DEF stops
      <4>. QED BY <1>5, <1>11, <1>12, <1>14, <3>2, <4>1
    <3>. QED BY <3>1, <3>2
  <2>2. /\ got' \in ReaderStates /\ got'.halted = TRUE
        /\ got'.events = got.events /\ got'.frames = got.frames
    <3>1. CASE given.stops # {}
      BY <1>3, <1>4, <1>14, <3>1 DEF Events!stream_frames, ReaderStates
    <3>2. CASE given.stops = {}
      <4>1. got' = [got EXCEPT !.halted = TRUE]
        BY <1>3, <1>4, <1>14, <3>2 DEF Events!stream_frames, Events!halt_when
      <4>. QED BY <1>3, <4>1 DEF ReaderStates
    <3>. QED BY <3>1, <3>2
  <2>3. Read \in SUBSET (1 .. Len(lines))
    BY <1>11 DEF n
  <2>4. Blocks(grown, Read, got)
    BY <1>3, <1>5, <1>6, <2>3, BlocksKept DEF grown
  <2>5. Blocks(grown, Read', got')
    BY <2>1, <2>2, <2>4 DEF Blocks
  <2>. QED BY <1>7, <1>8, <1>9, <1>10, <1>14, <2>1, <2>2, <2>5 DEF StreamInv
<1>15. CASE given.status = 200 /\ given.stops = {} /\ ~stop
  <2>1. got' = Events!iter_sse_events(got, line)
    BY <1>3, <1>4, <1>15 DEF Events!stream_frames, Events!halt_when
  <2>2. stops = {} /\ Read = 1 .. n /\ Read' = 1 .. n + 1
    BY <1>11, <1>12, <1>15 DEF stops
  <2>3. Gathered(grown, got')
    BY <1>3, <1>5, <1>6, <1>15, <2>1, LineGathered DEF grown, n
  <2>4. got' \in ReaderStates /\ got'.halted = got.halted /\ Blocks(grown, 1 .. n + 1, got')
    <3>1. Blocks(lines, 1 .. n, got)
      BY <1>3, <2>2
    <3>. QED BY <1>3, <1>5, <1>6, <1>15, <2>1, <3>1, LineDelivered DEF grown, n
  <2>. QED BY <1>3, <1>7, <1>8, <1>9, <1>10, <1>15, <2>2, <2>3, <2>4 DEF StreamInv
<1>. QED BY <1>13, <1>14, <1>15

ChannelInv == NoPartialMessage /\ StreamInv

LEMMA ChannelStep == ChannelInv /\ [ChannelNext \/ Rest \/ Elsewhere(ChannelKinds)]_vars => ChannelInv'
<1>. SUFFICES ASSUME ChannelInv, [ChannelNext \/ Rest \/ Elsewhere(ChannelKinds)]_vars PROVE ChannelInv'
  OBVIOUS
<1>1. CASE OnCall
  <2>1. kind' = "call"
    BY <1>1 DEF OnCall, Comes, Handled
  <2>. QED BY <1>1, <2>1, CallWhole DEF ChannelInv, StreamInv
<1>2. CASE OnStream
  <2>1. kind' = "stream"
    BY <1>2 DEF OnStream, Comes, Handled
  <2>. QED BY <1>2, <2>1, StreamComes DEF ChannelInv, NoPartialMessage
<1>3. CASE OnStreamLine
  <2>1. kind' = "stream"
    BY <1>3 DEF OnStreamLine, GoesOn, Follows
  <2>. QED BY <1>3, <2>1, StreamGoesOn DEF ChannelInv, NoPartialMessage
<1>4. CASE Rest
  BY <1>4 DEF Rest, ChannelInv, NoPartialMessage, StreamInv
<1>5. CASE Elsewhere(ChannelKinds)
  BY <1>5 DEF Elsewhere, ChannelKinds, ChannelInv, NoPartialMessage, StreamInv
<1>6. CASE UNCHANGED vars
  <2>1. UNCHANGED <<kind, given, got>>
    BY <1>6 DEF vars
  <2>2. Read' = Read
    BY <2>1 DEF Read
  <2>. QED BY <2>1, <2>2 DEF ChannelInv, NoPartialMessage, StreamInv
<1>. QED BY <1>1, <1>2, <1>3, <1>4, <1>5, <1>6 DEF ChannelNext

LEMMA ChannelCorrect == ChannelSpec => []ChannelInv
<1>1. Init => ChannelInv
  BY DEF Init, ChannelInv, NoPartialMessage, StreamInv
<1>. QED BY <1>1, ChannelStep, PTL DEF ChannelSpec

\* A call returns a message whole or not at all, and raises when it failed,
\* whatever bytes are lost and whatever the size of the message
\* (call, unframe_message).
THEOREM CallsAreWhole == ChannelSpec => []NoPartialMessage
<1>1. ChannelInv => NoPartialMessage
  BY DEF ChannelInv
<1>. QED BY <1>1, ChannelCorrect, PTL

\* The events of a stream are the blocks between its blank lines, however long
\* it is and whatever its lines are, and wherever it is stopped
\* (iter_sse_events, halt_when, stream_frames).
THEOREM StreamsAreBlocks == ChannelSpec => []EventsAreBlocks
<1>1. ChannelInv => EventsAreBlocks
  BY BlocksStated DEF ChannelInv, StreamInv
<1>. QED BY <1>1, ChannelCorrect, PTL

(***************************************************************************)
(* Descriptions.                                                           *)
(***************************************************************************)

\* The schema of a description has its keys, and each the spec of its property
\* (parse_description).
LEMMA DescriptionParsed ==
  ASSUME NEW doc \in Descriptions
  PROVE  LET schema == Local!parse_description(doc)
         IN  /\ DOMAIN schema = KeysOf(doc)
             /\ \A key \in KeysOf(doc) : \E prop :
                  schema[key] = Local!PropertySpec(key[1], doc[key[1]], key[2], prop)
<1>. DEFINE properties(n) == Local!One(doc[n].properties, <<>>)
            keys == UNION {{n} \X DOMAIN properties(n) : n \in DOMAIN doc}
<1>1. ASSUME NEW n \in DOMAIN doc PROVE DOMAIN properties(n) = Properties(doc, n)
  <2>1. \A p, q \in doc[n].properties : p = q
    BY DescriptionAssumption
  <2>2. CASE doc[n].properties = {}
    BY <2>2 DEF Local!One, Properties
  <2>3. CASE doc[n].properties # {}
    <3>1. properties(n) \in doc[n].properties
      BY <2>3 DEF Local!One
    <3>. QED BY <2>1, <3>1 DEF Properties
  <2>. QED BY <2>2, <2>3
<1>2. Local!parse_description(doc) =
        [key \in keys |-> Local!PropertySpec(key[1], doc[key[1]], key[2], properties(key[1])[key[2]])]
  BY Zenon DEF Local!parse_description
<1>. HIDE DEF properties
<1>3. keys = KeysOf(doc)
  BY <1>1 DEF KeysOf
<1>. QED BY <1>2, <1>3

LEMMA DescriptionSound == OnDescription => SchemaIsDescribed'
<1>. SUFFICES ASSUME OnDescription PROVE SchemaIsDescribed'
  OBVIOUS
<1>1. PICK doc, names :
        doc \in Descriptions /\ given' = [doc |-> doc, names |-> names]
        /\ got' = Local!resolve_node_names(Local!parse_description(doc), names)
  BY DEF OnDescription, Handled
<1>. DEFINE schema == Local!parse_description(doc)
<1>2. DOMAIN schema = KeysOf(doc)
  BY <1>1, DescriptionParsed
<1>3. DOMAIN got' = DOMAIN schema /\ \A key \in DOMAIN schema :
        got'[key] = IF <<key[1], "name">> \in DOMAIN schema /\ <<key[1], "name">> \in DOMAIN names
                      THEN [schema[key] EXCEPT !.node_name = {names[<<key[1], "name">>]}]
                      ELSE schema[key]
  BY <1>1, Zenon DEF Local!resolve_node_names
<1>4. given'.doc = doc /\ given'.names = names
  BY <1>1
<1>5. ASSUME NEW key \in KeysOf(doc)
      PROVE  /\ key[1] \in CircuitIds /\ key[2] = "active-power" => got'[key].unit = {"W"}
             /\ key = <<"pv", "nameplate-capacity">> => got'[key].unit = {"W"}
             /\ <<key[1], "name">> \in KeysOf(doc) \cap DOMAIN names =>
                  got'[key].node_name = {names[<<key[1], "name">>]}
  <2>1. PICK prop : schema[key] = Local!PropertySpec(key[1], doc[key[1]], key[2], prop)
    BY <1>1, DescriptionParsed
  <2>. DEFINE spec == Local!PropertySpec(key[1], doc[key[1]], key[2], prop)
              name == <<key[1], "name">>
  <2>2. spec.unit = Local!effective_unit(Local!classify_node(key[1]), key[2], prop.unit)
    BY DEF Local!PropertySpec
  <2>3. \A x : [spec EXCEPT !.node_name = x].unit = spec.unit /\ [spec EXCEPT !.node_name = x].node_name = x
    BY DEF Local!PropertySpec
  <2>. DEFINE renamed == [spec EXCEPT !.node_name = {names[name]}]
  <2>4. renamed.unit = spec.unit /\ renamed.node_name = {names[name]}
    BY <2>3, Zenon
  <2>10. got'[key] = IF name \in KeysOf(doc) /\ name \in DOMAIN names THEN renamed ELSE spec
    BY <1>2, <1>3, <2>1, Zenon
  <2>. HIDE DEF spec, renamed
  <2>11. got'[key].unit = spec.unit
    BY <2>4, <2>10
  <2>5. name \in KeysOf(doc) \cap DOMAIN names => got'[key].node_name = {names[name]}
    BY <2>4, <2>10
  <2>6. key[1] \in CircuitIds => Local!classify_node(key[1]) = "circuit"
    <3>1. key[1] \in CircuitIds => key[1] \notin DOMAIN Local!_STATIC_NODES
      BY DescriptionAssumption
    <3>. QED BY <3>1 DEF Local!classify_node
  <2>7. key[1] = "pv" => Local!classify_node(key[1]) = "pv"
    <3>1. "pv" \in DOMAIN Local!_STATIC_NODES /\ Local!_STATIC_NODES["pv"] = "pv"
      BY DEF Local!_STATIC_NODES
    <3>. QED BY <3>1 DEF Local!classify_node
  <2>8. \A unit : Local!effective_unit("circuit", "active-power", unit) = {"W"}
                  /\ Local!effective_unit("pv", "nameplate-capacity", unit) = {"W"}
    BY DEF Local!effective_unit, Local!_UNIT_OVERRIDES
  <2>9. key = <<"pv", "nameplate-capacity">> => key[1] = "pv" /\ key[2] = "nameplate-capacity"
    OBVIOUS
  <2>. QED BY <2>2, <2>5, <2>6, <2>7, <2>8, <2>9, <2>11, Zenon
<1>. QED BY <1>2, <1>3, <1>4, <1>5, Zenon DEF SchemaIsDescribed

(***************************************************************************)
(* Sessions.                                                               *)
(***************************************************************************)
Entries == [key : PanelKeys, value : Values]
SchemaOf(doc) == Local!parse_description(doc)
CommandOf(entry) == [topic |-> CommandTopic(entry.key), payload |-> entry.value]

Exchanges == [ca_cert_exists : BOOLEAN, started : BOOLEAN, steps : Nat,
              documents : Seq(PanelDocs), values : Seq(Entries), commands : Seq(Entries)]
Backends == [serial : {"p1"}, client : BOOLEAN, subscribed : BOOLEAN,
             published : Seq({CommandOf(entry) : entry \in Entries}),
             schemas : Seq({SchemaOf(doc) : doc \in PanelDocs}),
             readings : Seq(Entries)]

\* The backend's state s is what the session g makes of it.
SessionMade(g, s) ==
  /\ g \in Exchanges
  /\ s \in Backends
  /\ s.client = g.started
  /\ g.started => g.ca_cert_exists
  /\ s.subscribed => s.client
  /\ s.readings = g.values
  /\ s.schemas = [i \in DOMAIN g.documents |-> SchemaOf(g.documents[i])]
  /\ s.published = [i \in DOMAIN g.commands |-> CommandOf(g.commands[i])]
  /\ ~g.ca_cert_exists => s.published = <<>> /\ s.schemas = <<>> /\ s.readings = <<>>

LEMMA MadeIsStated ==
  ASSUME NEW g, NEW s, SessionMade(g, s)
  PROVE  /\ s.readings = g.values
         /\ s.schemas = [i \in DOMAIN g.documents |-> Local!parse_description(g.documents[i])]
         /\ s.published = [i \in DOMAIN g.commands |->
              [topic |-> CommandTopic(g.commands[i].key), payload |-> g.commands[i].value]]
         /\ ~g.ca_cert_exists => s = Local!Stopped("p1")
<1>1. ASSUME ~g.ca_cert_exists PROVE s = Local!Stopped("p1")
  <2>1. g.started = FALSE /\ s.client = FALSE /\ s.subscribed = FALSE /\ s.serial = "p1"
    BY <1>1 DEF SessionMade, Exchanges, Backends
  <2>2. s.published = <<>> /\ s.schemas = <<>> /\ s.readings = <<>>
    BY <1>1 DEF SessionMade
  <2>3. s = [serial |-> s.serial, client |-> s.client, subscribed |-> s.subscribed,
             published |-> s.published, schemas |-> s.schemas, readings |-> s.readings]
    BY DEF SessionMade, Backends
  <2>. QED BY <2>1, <2>2, <2>3 DEF Local!Stopped
<1>2. /\ s.readings = g.values
      /\ s.schemas = [i \in DOMAIN g.documents |-> SchemaOf(g.documents[i])]
      /\ s.published = [i \in DOMAIN g.commands |-> CommandOf(g.commands[i])]
  BY DEF SessionMade
<1>. QED BY <1>1, <1>2, Zenon DEF SchemaOf, CommandOf

\* A function applied to each of a sequence, and to one more.
LEMMA MapAppend ==
  ASSUME NEW S, NEW f, NEW seq \in Seq(S), NEW x \in S
  PROVE  [i \in DOMAIN Append(seq, x) |-> f[Append(seq, x)[i]]] = Append([i \in DOMAIN seq |-> f[seq[i]]], f[x])
<1>. DEFINE longer == Append(seq, x)
            mapped == [i \in DOMAIN seq |-> f[seq[i]]]
            T == {f[y] : y \in S}
<1>1. /\ Len(seq) \in Nat /\ DOMAIN seq = 1 .. Len(seq) /\ DOMAIN longer = 1 .. Len(seq) + 1
      /\ longer[Len(seq) + 1] = x /\ \A i \in 1 .. Len(seq) : longer[i] = seq[i] /\ seq[i] \in S
  OBVIOUS
<1>. HIDE DEF longer
<1>2. mapped \in Seq(T) /\ Len(mapped) = Len(seq) /\ \A i \in 1 .. Len(seq) : mapped[i] = f[seq[i]]
  <2>1. mapped \in [1 .. Len(seq) -> T]
    BY <1>1
  <2>. QED BY <1>1, <2>1
<1>3. f[x] \in T
  OBVIOUS
<1>. HIDE DEF mapped, T
<1>4. /\ DOMAIN Append(mapped, f[x]) = 1 .. Len(seq) + 1
      /\ Append(mapped, f[x])[Len(seq) + 1] = f[x]
      /\ \A i \in 1 .. Len(seq) : Append(mapped, f[x])[i] = f[seq[i]]
  BY <1>1, <1>2, <1>3
<1>. DEFINE both == [i \in DOMAIN longer |-> f[longer[i]]]
<1>5. DOMAIN both = 1 .. Len(seq) + 1 /\ \A i \in 1 .. Len(seq) + 1 : both[i] = Append(mapped, f[x])[i]
  BY <1>1, <1>4
<1>6. both = Append(mapped, f[x])
  <2>1. both = [i \in 1 .. Len(seq) + 1 |-> both[i]]
    BY <1>1
  <2>2. Append(mapped, f[x]) = [i \in 1 .. Len(seq) + 1 |-> Append(mapped, f[x])[i]]
    BY <1>1, <1>2, <1>3, <1>4
  <2>. QED BY <1>5, <2>1, <2>2
<1>. QED BY <1>6 DEF both, longer, mapped

\* Counting the steps changes nothing else.
LEMMA Counted ==
  ASSUME NEW g, NEW s, SessionMade(g, s)
  PROVE  SessionMade([g EXCEPT !.steps = @ + 1], s)
<1>. DEFINE next == [g EXCEPT !.steps = g.steps + 1]
<1>1. g \in Exchanges
  BY DEF SessionMade
<1>2. g.steps + 1 \in Nat
  BY <1>1 DEF Exchanges
<1>3. next \in Exchanges
  BY <1>1, <1>2 DEF Exchanges
<1>4. /\ next.ca_cert_exists = g.ca_cert_exists /\ next.started = g.started /\ next.documents = g.documents
      /\ next.values = g.values /\ next.commands = g.commands
  BY <1>1 DEF Exchanges
<1>. HIDE DEF next
<1>5. SessionMade(next, s)
  BY <1>3, <1>4 DEF SessionMade
<1>. QED BY <1>5, Zenon DEF next

\* The client is started, with a certificate (start).
LEMMA StartMade ==
  ASSUME NEW g, NEW s, SessionMade(g, s), ~g.started
  PROVE  SessionMade([g EXCEPT !.started = g.ca_cert_exists], Local!start(s, g.ca_cert_exists))
<1>. DEFINE input == [g EXCEPT !.started = g.ca_cert_exists]
            output == Local!start(s, g.ca_cert_exists)
<1>1. g \in Exchanges /\ s \in Backends /\ g.ca_cert_exists \in BOOLEAN /\ ~s.client /\ ~s.subscribed
  BY DEF SessionMade, Exchanges, Backends
<1>2. /\ input \in Exchanges
      /\ input.ca_cert_exists = g.ca_cert_exists /\ input.started = g.ca_cert_exists
      /\ input.documents = g.documents /\ input.values = g.values /\ input.commands = g.commands
  BY <1>1 DEF Exchanges
<1>3. /\ output \in Backends
      /\ output.client = g.ca_cert_exists /\ output.subscribed = s.subscribed
      /\ output.published = s.published /\ output.schemas = s.schemas /\ output.readings = s.readings
  <2>1. CASE g.ca_cert_exists
    BY <1>1, <2>1 DEF Local!start, Backends
  <2>2. CASE ~g.ca_cert_exists
    BY <1>1, <2>2 DEF Local!start, Backends
  <2>. QED BY <2>1, <2>2
<1>. HIDE DEF input, output
<1>. QED BY <1>1, <1>2, <1>3 DEF SessionMade, input, output

\* It is stopped (stop).
LEMMA StopMade ==
  ASSUME NEW g, NEW s, SessionMade(g, s)
  PROVE  SessionMade([g EXCEPT !.started = FALSE], Local!stop(s))
<1>. DEFINE input == [g EXCEPT !.started = FALSE]
            one == [s EXCEPT !.client = FALSE]
            output == Local!stop(s)
<1>1. g \in Exchanges /\ s \in Backends
  BY DEF SessionMade
<1>2. /\ input \in Exchanges
      /\ input.ca_cert_exists = g.ca_cert_exists /\ input.started = FALSE
      /\ input.documents = g.documents /\ input.values = g.values /\ input.commands = g.commands
  BY <1>1 DEF Exchanges
<1>3. /\ one \in Backends /\ one.client = FALSE
      /\ one.published = s.published /\ one.schemas = s.schemas /\ one.readings = s.readings
  BY <1>1 DEF Backends
<1>4. output = [one EXCEPT !.subscribed = FALSE]
  BY Zenon DEF Local!stop
<1>. HIDE DEF input, one, output
<1>5. /\ output \in Backends /\ output.client = one.client /\ output.subscribed = FALSE
      /\ output.published = one.published /\ output.schemas = one.schemas /\ output.readings = one.readings
  BY <1>3, <1>4 DEF Backends
<1>6. SessionMade(input, output)
  BY <1>2, <1>3, <1>5 DEF SessionMade
<1>. QED BY <1>6 DEF input, output

\* The connection comes and goes (_on_connect, _on_disconnect).
LEMMA ConnectMade ==
  ASSUME NEW g, NEW s, SessionMade(g, s), NEW subscribed \in BOOLEAN, subscribed => g.started
  PROVE  SessionMade(g, [s EXCEPT !.subscribed = subscribed])
<1>. DEFINE output == [s EXCEPT !.subscribed = subscribed]
<1>1. s \in Backends
  BY DEF SessionMade
<1>2. /\ output \in Backends /\ output.client = s.client /\ output.subscribed = subscribed
      /\ output.published = s.published /\ output.schemas = s.schemas /\ output.readings = s.readings
  BY <1>1 DEF Backends
<1>. HIDE DEF output
<1>3. SessionMade(g, output)
  BY <1>2 DEF SessionMade
<1>. QED BY <1>3 DEF output

\* A document that is delivered becomes a schema (_on_message, _handle_description).
LEMMA DocumentMade ==
  ASSUME NEW g, NEW s, SessionMade(g, s), NEW doc \in PanelDocs
  PROVE  SessionMade([g EXCEPT !.documents = IF s.subscribed THEN Append(@, doc) ELSE @],
                     Delivered(s, PanelTopic("$description"), <<"json", doc>>))
<1>. DEFINE documents == IF s.subscribed THEN Append(g.documents, doc) ELSE g.documents
            input == [g EXCEPT !.documents = documents]
            schemas == IF s.subscribed THEN Append(s.schemas, SchemaOf(doc)) ELSE s.schemas
            output == Delivered(s, PanelTopic("$description"), <<"json", doc>>)
<1>1. g \in Exchanges /\ s \in Backends
  BY DEF SessionMade
<1>2. documents \in Seq(PanelDocs)
  BY <1>1 DEF Exchanges
<1>3. /\ input \in Exchanges
      /\ input.ca_cert_exists = g.ca_cert_exists /\ input.started = g.started
      /\ input.documents = documents /\ input.values = g.values /\ input.commands = g.commands
  <2>. HIDE DEF documents
  <2>. QED BY <1>1, <1>2 DEF Exchanges
<1>4. schemas \in Seq({SchemaOf(d) : d \in PanelDocs})
  BY <1>1 DEF Backends
<1>5. Local!Last(PanelTopic("$description")) = "$description"
  BY DEF PanelTopic, Local!Last
<1>6. <<"json", doc>> # <<Local!NotJson>> /\ <<"json", doc>>[2] = doc
  OBVIOUS
<1>7. s.subscribed => output = [s EXCEPT !.schemas = Append(s.schemas, SchemaOf(doc))]
  <2>. DEFINE payload == <<"json", doc>>
  <2>1. s.subscribed => output = Local!_on_message(s, PanelTopic("$description"), payload)
    BY Zenon DEF Delivered
  <2>2. Local!_on_message(s, PanelTopic("$description"), payload) = Local!_handle_description(s, payload)
    BY <1>5, Zenon DEF Local!_on_message
  <2>. HIDE DEF payload
  <2>3. Local!_handle_description(s, payload) = [s EXCEPT !.schemas = Append(s.schemas, SchemaOf(doc))]
    <3>1. payload # <<Local!NotJson>> /\ payload[2] = doc
      BY <1>6 DEF payload
    <3>. QED BY <3>1, Zenon DEF Local!_handle_description, SchemaOf
  <2>. QED BY <2>1, <2>2, <2>3, Zenon
<1>8. ~s.subscribed => output = s
  BY DEF Delivered
<1>. HIDE DEF output, input
<1>9. /\ output \in Backends /\ output.client = s.client /\ output.subscribed = s.subscribed
      /\ output.published = s.published /\ output.schemas = schemas /\ output.readings = s.readings
  <2>1. CASE s.subscribed
    <3>1. output = [s EXCEPT !.schemas = schemas]
      BY <1>7, <2>1
    <3>. HIDE DEF schemas
    <3>. QED BY <1>1, <1>4, <3>1 DEF Backends
  <2>2. CASE ~s.subscribed
    BY <1>1, <1>8, <2>2 DEF Backends
  <2>. QED BY <2>1, <2>2
<1>10. schemas = [i \in DOMAIN documents |-> SchemaOf(documents[i])]
  <2>1. s.schemas = [i \in DOMAIN g.documents |-> SchemaOf(g.documents[i])]
    BY DEF SessionMade
  <2>2. CASE s.subscribed
    <3>. DEFINE f == [d \in PanelDocs |-> SchemaOf(d)]
    <3>1. /\ \A i \in DOMAIN g.documents : g.documents[i] \in PanelDocs
          /\ \A i \in DOMAIN documents : documents[i] \in PanelDocs
      BY <1>1, <1>2 DEF Exchanges
    <3>2. s.schemas = [i \in DOMAIN g.documents |-> f[g.documents[i]]]
      BY <2>1, <3>1
    <3>3. [i \in DOMAIN documents |-> SchemaOf(documents[i])] = [i \in DOMAIN documents |-> f[documents[i]]]
      BY <3>1
    <3>4. f[doc] = SchemaOf(doc)
      OBVIOUS
    <3>. HIDE DEF f
    <3>5. g.documents \in Seq(PanelDocs)
      BY <1>1 DEF Exchanges
    <3>6. [i \in DOMAIN documents |-> f[documents[i]]] = Append(s.schemas, f[doc])
      BY <2>2, <3>2, <3>5, MapAppend
    <3>. QED BY <2>2, <3>3, <3>4, <3>6
  <2>3. CASE ~s.subscribed
    BY <2>1, <2>3
  <2>. QED BY <2>2, <2>3
<1>. HIDE DEF documents, schemas
<1>11. ~g.ca_cert_exists => schemas = s.schemas
  BY <1>1 DEF SessionMade, schemas, Exchanges, Backends
<1>12. SessionMade(input, output)
  BY <1>3, <1>9, <1>10, <1>11 DEF SessionMade
<1>. QED BY <1>12, Zenon DEF input, output, documents

\* What is no JSON, and the panel's state, change nothing (_on_message).
LEMMA NothingMade ==
  ASSUME NEW s
  PROVE  /\ Delivered(s, PanelTopic("$description"), <<Local!NotJson>>) = s
         /\ Delivered(s, PanelTopic("$state"), "ready") = s
<1>1. /\ Local!Last(PanelTopic("$description")) = "$description"
      /\ Local!Last(PanelTopic("$state")) = "$state"
  BY DEF PanelTopic, Local!Last
<1>2. Local!_on_message(s, PanelTopic("$description"), <<Local!NotJson>>) = s
  BY <1>1, Zenon DEF Local!_on_message, Local!_handle_description
<1>3. Local!_on_message(s, PanelTopic("$state"), "ready") = s
  <2>1. "$state" # "$description"
    OBVIOUS
  <2>. QED BY <1>1, <2>1, Zenon DEF Local!_on_message
<1>. QED BY <1>2, <1>3, Zenon DEF Delivered

LEMMA PanelKeyParts ==
  ASSUME NEW key \in PanelKeys
  PROVE  key = <<key[1], key[2]>> /\ {key[1], key[2]} \cap Local!DollarParts = {}
<1>1. PICK doc \in PanelDocs : key \in KeysOf(doc)
  BY DEF PanelKeys
<1>2. PICK n \in DOMAIN doc : key \in {n} \X Properties(doc, n)
  BY <1>1 DEF KeysOf
<1>3. n \notin Local!DollarParts /\ Properties(doc, n) \cap Local!DollarParts = {}
  BY DescriptionAssumption
<1>. QED BY <1>2, <1>3

\* A value that is delivered becomes a reading of its property
\* (_on_message, parse_value_topic).
LEMMA ValueMade ==
  ASSUME NEW g, NEW s, SessionMade(g, s), NEW key \in PanelKeys, NEW value \in Values
  PROVE  SessionMade([g EXCEPT !.values = IF s.subscribed THEN Append(@, [key |-> key, value |-> value]) ELSE @],
                     Delivered(s, Topic(key), value))
<1>. DEFINE entry == [key |-> key, value |-> value]
            longer == IF s.subscribed THEN Append(g.values, entry) ELSE g.values
            input == [g EXCEPT !.values = longer]
            output == Delivered(s, Topic(key), value)
<1>1. g \in Exchanges /\ s \in Backends /\ entry \in Entries /\ s.readings = g.values
  BY DEF SessionMade, Entries
<1>2. longer \in Seq(Entries)
  <2>. HIDE DEF entry
  <2>. QED BY <1>1 DEF Exchanges
<1>3. /\ input \in Exchanges
      /\ input.ca_cert_exists = g.ca_cert_exists /\ input.started = g.started
      /\ input.documents = g.documents /\ input.values = longer /\ input.commands = g.commands
  <2>. HIDE DEF longer
  <2>. QED BY <1>1, <1>2 DEF Exchanges
<1>4. /\ Local!Last(Topic(key)) = key[2]
      /\ Len(Topic(key)) = 5 /\ Topic(key)[1] = "ebus" /\ Topic(key)[4] = key[1] /\ Topic(key)[5] = key[2]
  BY DEF Topic, Local!Last
<1>5. key = <<key[1], key[2]>> /\ {key[1], key[2]} \cap Local!DollarParts = {}
  BY PanelKeyParts
<1>6. key[2] # "$description" /\ key[2] # "$state"
  BY <1>5 DEF Local!DollarParts
<1>7. Local!parse_value_topic(Topic(key)) = {[serial |-> Topic(key)[3], key |-> key]}
  <2>1. Local!parse_value_topic(Topic(key)) = {[serial |-> Topic(key)[3], key |-> <<Topic(key)[4], Topic(key)[5]>>]}
    BY <1>4, <1>5, Zenon DEF Local!parse_value_topic
  <2>. QED BY <1>4, <1>5, <2>1, Zenon
<1>8. Local!One(Local!parse_value_topic(Topic(key)), s).key = key
  <2>. DEFINE parsed == [serial |-> Topic(key)[3], key |-> key]
  <2>1. parsed.key = key
    OBVIOUS
  <2>. HIDE DEF parsed
  <2>2. Local!One({parsed}, s) = parsed
    BY DEF Local!One
  <2>. QED BY <1>7, <2>1, <2>2, Zenon DEF parsed
<1>9. s.subscribed => output = [s EXCEPT !.readings = Append(s.readings, entry)]
  <2>1. s.subscribed => output = Local!_on_message(s, Topic(key), value)
    BY Zenon DEF Delivered
  <2>2. Local!parse_value_topic(Topic(key)) # {}
    BY <1>7
  <2>3. Local!_on_message(s, Topic(key), value) = [s EXCEPT !.readings = Append(s.readings, entry)]
    BY <1>4, <1>6, <1>8, <2>2, Zenon DEF Local!_on_message
  <2>. QED BY <2>1, <2>3, Zenon
<1>10. ~s.subscribed => output = s
  BY DEF Delivered
<1>. HIDE DEF output, input, entry
<1>11. /\ output \in Backends /\ output.client = s.client /\ output.subscribed = s.subscribed
       /\ output.published = s.published /\ output.schemas = s.schemas /\ output.readings = longer
  <2>1. CASE s.subscribed
    <3>1. output = [s EXCEPT !.readings = longer]
      BY <1>1, <1>9, <2>1
    <3>. HIDE DEF longer
    <3>. QED BY <1>1, <1>2, <3>1 DEF Backends
  <2>2. CASE ~s.subscribed
    BY <1>1, <1>10, <2>2 DEF Backends
  <2>. QED BY <2>1, <2>2
<1>. HIDE DEF longer
<1>12. ~g.ca_cert_exists => longer = <<>>
  BY <1>1 DEF SessionMade, longer, Exchanges, Backends
<1>13. SessionMade(input, output)
  BY <1>3, <1>11, <1>12 DEF SessionMade
<1>. QED BY <1>13, Zenon DEF input, output, longer, entry

\* A command is published to the topic of its property, and its echo is none of
\* the readings (send_command, _on_message).
LEMMA CommandMade ==
  ASSUME NEW g, NEW s, SessionMade(g, s), NEW key \in PanelKeys, NEW value \in Values
  PROVE  LET sent == Local!send_command(s, key, value)
         IN  SessionMade([g EXCEPT !.commands =
                            IF g.started THEN Append(@, [key |-> key, value |-> value]) ELSE @],
                         IF s.client
                           THEN Delivered(sent, Last(sent.published).topic, Last(sent.published).payload)
                           ELSE sent)
<1>. DEFINE entry == [key |-> key, value |-> value]
            commands == IF g.started THEN Append(g.commands, entry) ELSE g.commands
            input == [g EXCEPT !.commands = commands]
            sent == Local!send_command(s, key, value)
            published == IF s.client THEN Append(s.published, CommandOf(entry)) ELSE s.published
            output == IF s.client
                        THEN Delivered(sent, Last(sent.published).topic, Last(sent.published).payload)
                        ELSE sent
<1>1. g \in Exchanges /\ s \in Backends /\ entry \in Entries /\ s.client = g.started /\ s.client \in BOOLEAN
  BY DEF SessionMade, Entries, Backends
<1>2. commands \in Seq(Entries)
  <2>. HIDE DEF entry
  <2>. QED BY <1>1 DEF Exchanges
<1>3. /\ input \in Exchanges
      /\ input.ca_cert_exists = g.ca_cert_exists /\ input.started = g.started
      /\ input.documents = g.documents /\ input.values = g.values /\ input.commands = commands
  <2>. HIDE DEF commands
  <2>. QED BY <1>1, <1>2 DEF Exchanges
<1>4. CommandOf(entry) = [topic |-> <<"ebus", "5", s.serial, key[1], key[2], "set">>, payload |-> value]
  BY <1>1 DEF CommandOf, CommandTopic, Backends
<1>5. published \in Seq({CommandOf(e) : e \in Entries})
  <2>1. CommandOf(entry) \in {CommandOf(e) : e \in Entries}
    BY <1>1
  <2>. HIDE DEF entry
  <2>. QED BY <1>1, <2>1 DEF Backends
<1>6. sent = IF s.client THEN [s EXCEPT !.published = Append(s.published, CommandOf(entry))] ELSE s
  BY <1>4, Zenon DEF Local!send_command
<1>7. /\ sent \in Backends /\ sent.client = s.client /\ sent.subscribed = s.subscribed
      /\ sent.published = published /\ sent.schemas = s.schemas /\ sent.readings = s.readings
  <2>1. CASE s.client
    <3>1. sent = [s EXCEPT !.published = published]
      BY <1>6, <2>1
    <3>. HIDE DEF published, sent
    <3>. QED BY <1>1, <1>5, <3>1 DEF Backends
  <2>2. CASE ~s.client
    BY <1>1, <1>6, <2>2 DEF Backends
  <2>. QED BY <2>1, <2>2
<1>8. output = sent
  <2>1. CASE s.client
    <3>1. Last(sent.published) = CommandOf(entry)
      <4>1. sent.published = Append(s.published, CommandOf(entry)) /\ s.published \in Seq({CommandOf(e) : e \in Entries})
        BY <1>1, <1>7, <2>1 DEF Backends
      <4>. HIDE DEF sent, entry
      <4>. QED BY <4>1 DEF Last
    <3>. DEFINE topic == CommandOf(entry).topic
    <3>2. topic = <<"ebus", "5", "p1", key[1], key[2], "set">>
      BY DEF CommandOf, CommandTopic
    <3>3. Local!Last(topic) = "set" /\ Len(topic) = 6
      <4>1. \A a, b : /\ Local!Last(<<"ebus", "5", "p1", a, b, "set">>) = "set"
                     /\ Len(<<"ebus", "5", "p1", a, b, "set">>) = 6
        BY DEF Local!Last
      <4>. QED BY <3>2, <4>1, Zenon
    <3>. HIDE DEF topic
    <3>4. Local!parse_value_topic(topic) = {}
      BY <3>3 DEF Local!parse_value_topic
    <3>5. \A payload : Local!_on_message(sent, topic, payload) = sent
      <4>1. "set" # "$description"
        OBVIOUS
      <4>. QED BY <3>3, <3>4, <4>1, Zenon DEF Local!_on_message
    <3>6. \A payload : Delivered(sent, topic, payload) = sent
      BY <3>5, Zenon DEF Delivered
    <3>. QED BY <2>1, <3>1, <3>6, Zenon DEF topic
  <2>2. CASE ~s.client
    BY <2>2, Zenon
  <2>. QED BY <2>1, <2>2
<1>9. published = [i \in DOMAIN commands |-> CommandOf(commands[i])]
  <2>1. s.published = [i \in DOMAIN g.commands |-> CommandOf(g.commands[i])]
    BY DEF SessionMade
  <2>2. CASE s.client
    <3>. DEFINE f == [e \in Entries |-> CommandOf(e)]
    <3>1. /\ \A i \in DOMAIN g.commands : g.commands[i] \in Entries
          /\ \A i \in DOMAIN commands : commands[i] \in Entries
      <4>. HIDE DEF commands
      <4>. QED BY <1>1, <1>2 DEF Exchanges
    <3>2. s.published = [i \in DOMAIN g.commands |-> f[g.commands[i]]]
      BY <2>1, <3>1
    <3>3. [i \in DOMAIN commands |-> CommandOf(commands[i])] = [i \in DOMAIN commands |-> f[commands[i]]]
      <4>. HIDE DEF commands
      <4>. QED BY <3>1
    <3>4. f[entry] = CommandOf(entry)
      <4>. HIDE DEF entry
      <4>. QED BY <1>1
    <3>. HIDE DEF f, entry
    <3>5. g.commands \in Seq(Entries)
      BY <1>1 DEF Exchanges
    <3>6. [i \in DOMAIN commands |-> f[commands[i]]] = Append(s.published, f[entry])
      BY <1>1, <2>2, <3>2, <3>5, MapAppend
    <3>. QED BY <2>2, <3>3, <3>4, <3>6
  <2>3. CASE ~s.client
    BY <1>1, <2>1, <2>3
  <2>. QED BY <2>2, <2>3
<1>. HIDE DEF input, output, sent, commands, published
<1>10. ~g.ca_cert_exists => published = <<>>
  BY <1>1 DEF SessionMade, published
<1>11. SessionMade(input, sent)
  BY <1>3, <1>7, <1>9, <1>10 DEF SessionMade
<1>. QED BY <1>8, <1>11, Zenon DEF input, output, sent, commands, entry

SessionInv == kind = "session" => SessionMade(given, got)

LEMMA SessionComes == OnSession => SessionInv'
<1>. SUFFICES ASSUME OnSession PROVE SessionInv'
  OBVIOUS
<1>1. PICK ca_cert_exists \in BOOLEAN :
        /\ given' = [ca_cert_exists |-> ca_cert_exists, started |-> FALSE, steps |-> 0,
                     documents |-> <<>>, values |-> <<>>, commands |-> <<>>]
        /\ got' = Local!Stopped("p1")
  BY DEF OnSession, Handled
<1>2. given' \in Exchanges
  BY <1>1 DEF Exchanges
<1>3. got' \in Backends
  BY <1>1 DEF Backends, Local!Stopped
<1>4. SessionMade(given', got')
  BY <1>1, <1>2, <1>3 DEF SessionMade, Local!Stopped
<1>. QED BY <1>4 DEF SessionInv

LEMMA SessionGoesOn == SessionInv /\ SessionStep => SessionInv'
<1>. SUFFICES ASSUME SessionInv, SessionStep PROVE SessionMade(given', got')
  BY DEF SessionInv
<1>1. SessionMade(given, got)
  BY DEF SessionInv, SessionStep, GoesOn
<1>2. ASSUME NEW input, NEW output, InSession(input, output), SessionMade(input, output)
      PROVE  SessionMade(given', got')
  BY <1>2, Counted DEF InSession, Follows
<1>3. CASE OnStart
  BY <1>1, <1>2, <1>3, StartMade DEF OnStart
<1>4. CASE OnStop
  BY <1>1, <1>2, <1>4, StopMade DEF OnStop
<1>5. CASE OnConnect
  <2>1. PICK reason_code \in {0, 5} : InSession(given, Local!_on_connect(got, reason_code))
    BY <1>5 DEF OnConnect
  <2>2. SessionMade(given, [got EXCEPT !.subscribed = TRUE])
    <3>1. given.started
      BY <1>5 DEF OnConnect
    <3>. QED BY <1>1, <3>1, ConnectMade
  <2>3. SessionMade(given, Local!_on_connect(got, reason_code))
    BY <1>1, <2>2, Zenon DEF Local!_on_connect
  <2>. QED BY <1>2, <2>1, <2>3
<1>6. CASE OnDisconnect
  <2>1. SessionMade(given, [got EXCEPT !.subscribed = FALSE])
    BY <1>1, ConnectMade
  <2>. QED BY <1>2, <1>6, <2>1 DEF OnDisconnect, Local!_on_disconnect
<1>7. CASE OnPublishedDescription
  <2>1. PICK doc \in PanelDocs :
          InSession([given EXCEPT !.documents = IF got.subscribed THEN Append(@, doc) ELSE @],
                    Delivered(got, PanelTopic("$description"), <<"json", doc>>))
    BY <1>7 DEF OnPublishedDescription
  <2>. QED BY <1>1, <1>2, <2>1, DocumentMade
<1>8. CASE OnPublishedGarbage
  BY <1>1, <1>2, <1>8, NothingMade DEF OnPublishedGarbage
<1>9. CASE OnPublishedState
  BY <1>1, <1>2, <1>9, NothingMade DEF OnPublishedState
<1>10. CASE OnPublishedValue
  <2>1. PICK key \in PanelKeys, value \in Values :
          InSession([given EXCEPT !.values = IF got.subscribed THEN Append(@, [key |-> key, value |-> value]) ELSE @],
                    Delivered(got, Topic(key), value))
    BY <1>10 DEF OnPublishedValue
  <2>. QED BY <1>1, <1>2, <2>1, ValueMade
<1>11. CASE OnSendCommand
  <2>1. PICK key \in PanelKeys, value \in Values :
          LET sent == Local!send_command(got, key, value)
          IN  InSession([given EXCEPT !.commands =
                           IF given.started THEN Append(@, [key |-> key, value |-> value]) ELSE @],
                        IF got.client
                          THEN Delivered(sent, Last(sent.published).topic, Last(sent.published).payload)
                          ELSE sent)
    BY <1>11 DEF OnSendCommand
  <2>. QED BY <1>1, <1>2, <2>1, CommandMade
<1>. QED BY <1>3, <1>4, <1>5, <1>6, <1>7, <1>8, <1>9, <1>10, <1>11 DEF SessionStep

(***************************************************************************)
(* Registrations.                                                          *)
(***************************************************************************)

\* Numbers have a least one, and bounded ones a greatest.
LEMMA NatLeast ==
  ASSUME NEW T, T \subseteq Nat, T # {}
  PROVE  \E x \in T : \A y \in T : x <= y
<1>. DEFINE R == {ss \in Nat \X Nat : ss[1] < ss[2]}
<1>1. IsWellFoundedOn(R, Nat)
  BY NatLessThanWellFounded DEF OpToRel
<1>2. \A x, y \in Nat : <<y, x>> \in R <=> y < x
  OBVIOUS
<1>. HIDE DEF R
<1>3. PICK x \in T : \A y \in T : ~(<<y, x>> \in R)
  BY <1>1, WFMin, Zenon
<1>4. \A y \in T : ~(y < x)
  BY <1>2, <1>3
<1>5. \A a, b \in Nat : ~(b < a) => a <= b
  OBVIOUS
<1>. QED BY <1>3, <1>4, <1>5

\* What holds of zero and of the successor of all it holds of, holds of all numbers.
LEMMA NatAll ==
  ASSUME NEW T, T \subseteq Nat, 0 \in T, \A n \in T : n + 1 \in T
  PROVE  T = Nat
<1>1. ASSUME Nat \ T # {} PROVE FALSE
  <2>1. PICK x \in Nat \ T : \A y \in Nat \ T : x <= y
    BY <1>1, NatLeast
  <2>2. x # 0 /\ x - 1 \in Nat
    BY <2>1
  <2>3. x - 1 \in T
    BY <2>1, <2>2
  <2>4. (x - 1) + 1 = x
    BY <2>2
  <2>. QED BY <2>1, <2>3, <2>4
<1>. QED BY <1>1

LEMMA NatGreatest ==
  ASSUME NEW n \in Nat, NEW T, T \subseteq 0 .. n, T # {}
  PROVE  \E x \in T : \A y \in T : y <= x
<1>. DEFINE U == {n - y : y \in T}
<1>1. U \subseteq Nat /\ U # {}
  <2>1. ASSUME NEW y \in T PROVE n - y \in Nat
    <3>1. y \in 0 .. n
      OBVIOUS
    <3>. QED BY <3>1
  <2>2. \E y \in T : n - y \in U
    OBVIOUS
  <2>. QED BY <2>1, <2>2
<1>2. PICK u \in U : \A w \in U : u <= w
  <2>. HIDE DEF U
  <2>. QED BY <1>1, NatLeast
<1>3. PICK x \in T : u = n - x
  BY <1>2
<1>4. ASSUME NEW y \in T PROVE y <= x
  <2>1. n - y \in U
    OBVIOUS
  <2>2. n - x <= n - y
    BY <1>2, <1>3, <2>1
  <2>3. x \in 0 .. n /\ y \in 0 .. n
    OBVIOUS
  <2>. QED BY <2>2, <2>3
<1>. QED BY <1>4

CredentialsOf(resp) == CHOOSE c \in Local!register(resp) : TRUE

\* A response registers if it did not fail and has the fields, and its
\* credentials are its own (register, from_response).
LEMMA ResponseRead ==
  ASSUME NEW resp \in Responses
  PROVE  /\ Registered(resp) <=> Local!register(resp) # {}
         /\ Registered(resp) =>
              LET c == CredentialsOf(resp)
              IN  /\ c.serial = resp.body["serialNumber"]
                  /\ c.access_token = resp.body["accessToken"]
                  /\ c.ebus_username = resp.body["ebusBrokerUsername"]
                  /\ c.ebus_password = resp.body["ebusBrokerPassword"]
                  /\ c.hostname = resp.body["hostname"]
<1>1. resp.status \in Nat
  BY ResponseAssumption
<1>2. Registered(resp) =>
        LET c == [serial |-> resp.body["serialNumber"], hostname |-> resp.body["hostname"],
                  access_token |-> resp.body["accessToken"],
                  ebus_username |-> resp.body["ebusBrokerUsername"],
                  ebus_password |-> resp.body["ebusBrokerPassword"],
                  ebus_host |-> IF "ebusBrokerHost" \in DOMAIN resp.body /\ resp.body["ebusBrokerHost"] # ""
                                  THEN resp.body["ebusBrokerHost"] ELSE resp.body["hostname"]]
        IN  Local!register(resp) = {c}
  <2>1. ASSUME Registered(resp) PROVE Local!register(resp) = Local!from_response(resp.body)
    BY <1>1, <2>1 DEF Registered, Local!register
  <2>2. ASSUME Registered(resp) PROVE Local!RequiredFields \subseteq DOMAIN resp.body
    BY <2>2 DEF Registered
  <2>. QED BY <2>1, <2>2, Zenon DEF Local!from_response
<1>3. ~Registered(resp) => Local!register(resp) = {}
  <2>1. CASE resp.status >= 400
    BY <2>1 DEF Local!register
  <2>2. CASE resp.status < 400
    BY <1>1, <2>2 DEF Registered, Local!register, Local!from_response
  <2>. QED BY <1>1, <2>1, <2>2
<1>4. \A x : {x} # {} /\ (CHOOSE c \in {x} : TRUE) = x
  OBVIOUS
<1>5. Registered(resp) => Local!register(resp) # {}
  BY <1>2, <1>4, Zenon
<1>6. ASSUME Registered(resp)
      PROVE  LET c == CredentialsOf(resp)
             IN  /\ c.serial = resp.body["serialNumber"]
                 /\ c.access_token = resp.body["accessToken"]
                 /\ c.ebus_username = resp.body["ebusBrokerUsername"]
                 /\ c.ebus_password = resp.body["ebusBrokerPassword"]
                 /\ c.hostname = resp.body["hostname"]
  <2>. DEFINE c == [serial |-> resp.body["serialNumber"], hostname |-> resp.body["hostname"],
                    access_token |-> resp.body["accessToken"],
                    ebus_username |-> resp.body["ebusBrokerUsername"],
                    ebus_password |-> resp.body["ebusBrokerPassword"],
                    ebus_host |-> IF "ebusBrokerHost" \in DOMAIN resp.body /\ resp.body["ebusBrokerHost"] # ""
                                    THEN resp.body["ebusBrokerHost"] ELSE resp.body["hostname"]]
  <2>1. Local!register(resp) = {c}
    BY <1>2, <1>6, Zenon
  <2>2. CredentialsOf(resp) = c
    <3>. HIDE DEF c
    <3>. QED BY <1>4, <2>1, Zenon DEF CredentialsOf
  <2>3. /\ c.serial = resp.body["serialNumber"]
        /\ c.access_token = resp.body["accessToken"]
        /\ c.ebus_username = resp.body["ebusBrokerUsername"]
        /\ c.ebus_password = resp.body["ebusBrokerPassword"]
        /\ c.hostname = resp.body["hostname"]
    OBVIOUS
  <2>. QED BY <2>2, <2>3, Zenon
<1>. QED BY <1>3, <1>5, <1>6

\* LocalPanel's Cardinality is everyone's.
LEMMA CardinalityIsLocal == \A S : Local!Cardinality(S) = Cardinality(S)
BY DEF Cardinality, Local!Cardinality

SuccessesOf(rs) == {i \in DOMAIN rs : Registered(rs[i])}
SerialAt(rs, i) == rs[i].body["serialNumber"]
IsLast(rs, i) == \A k \in SuccessesOf(rs) : SerialAt(rs, k) = SerialAt(rs, i) => k <= i
IsFirst(rs, i) == \A k \in SuccessesOf(rs) : i <= k

\* The cache is what the responses rs, one after the other, make of it.
CacheMade(rs, cache) ==
  /\ rs \in Seq(Responses)
  /\ IsFiniteSet(DOMAIN cache.panels)
  /\ DOMAIN cache.panels = {SerialAt(rs, i) : i \in SuccessesOf(rs)}
  /\ \A i \in SuccessesOf(rs) : IsLast(rs, i) => cache.panels[SerialAt(rs, i)] = CredentialsOf(rs[i])
  /\ SuccessesOf(rs) = {} <=> cache.default_panel = {}
  /\ \A i \in SuccessesOf(rs) : IsFirst(rs, i) => cache.default_panel = {SerialAt(rs, i)}

LEMMA ResponsesGrow ==
  ASSUME NEW rs \in Seq(Responses), NEW resp \in Responses
  PROVE  LET grown == Append(rs, resp)
             n == Len(rs)
         IN  /\ grown \in Seq(Responses) /\ n \in Nat /\ SuccessesOf(rs) \subseteq 1 .. n
             /\ \A i \in 1 .. n : grown[i] = rs[i] /\ SerialAt(grown, i) = SerialAt(rs, i)
             /\ grown[n + 1] = resp /\ SerialAt(grown, n + 1) = resp.body["serialNumber"]
             /\ SuccessesOf(grown) = SuccessesOf(rs) \cup (IF Registered(resp) THEN {n + 1} ELSE {})
<1>. DEFINE grown == Append(rs, resp)
            n == Len(rs)
<1>1. /\ grown \in Seq(Responses) /\ n \in Nat /\ DOMAIN rs = 1 .. n /\ DOMAIN grown = (1 .. n) \cup {n + 1}
      /\ (\A i \in 1 .. n : grown[i] = rs[i]) /\ grown[n + 1] = resp
  OBVIOUS
<1>. HIDE DEF grown, n
<1>2. SuccessesOf(grown) = SuccessesOf(rs) \cup (IF Registered(resp) THEN {n + 1} ELSE {})
  BY <1>1 DEF SuccessesOf
<1>3. SuccessesOf(rs) \subseteq 1 .. n
  BY <1>1 DEF SuccessesOf
<1>4. (\A i \in 1 .. n : SerialAt(grown, i) = SerialAt(rs, i)) /\ SerialAt(grown, n + 1) = resp.body["serialNumber"]
  BY <1>1 DEF SerialAt
<1>. QED BY <1>1, <1>2, <1>3, <1>4, Zenon DEF grown, n

\* A response that fails leaves the cache as it is.
LEMMA FailureMade ==
  ASSUME NEW rs, NEW cache, CacheMade(rs, cache), NEW resp \in Responses, ~Registered(resp)
  PROVE  CacheMade(Append(rs, resp), cache)
<1>. DEFINE grown == Append(rs, resp)
            n == Len(rs)
<1>1. /\ grown \in Seq(Responses) /\ n \in Nat /\ SuccessesOf(rs) \subseteq 1 .. n
      /\ \A i \in 1 .. n : grown[i] = rs[i] /\ SerialAt(grown, i) = SerialAt(rs, i)
      /\ SuccessesOf(grown) = SuccessesOf(rs)
  <2>1. rs \in Seq(Responses)
    BY DEF CacheMade
  <2>2. SuccessesOf(grown) = SuccessesOf(rs) \cup {}
    BY <2>1, ResponsesGrow
  <2>3. SuccessesOf(grown) = SuccessesOf(rs)
    <3>. HIDE DEF grown
    <3>. QED BY <2>2
  <2>4. /\ grown \in Seq(Responses) /\ n \in Nat /\ SuccessesOf(rs) \subseteq 1 .. n
        /\ \A i \in 1 .. n : grown[i] = rs[i] /\ SerialAt(grown, i) = SerialAt(rs, i)
    BY <2>1, ResponsesGrow
  <2>. QED BY <2>3, <2>4
<1>. HIDE DEF grown, n
<1>2. /\ \A i \in SuccessesOf(rs) : grown[i] = rs[i] /\ SerialAt(grown, i) = SerialAt(rs, i)
      /\ {SerialAt(grown, i) : i \in SuccessesOf(rs)} = {SerialAt(rs, i) : i \in SuccessesOf(rs)}
  BY <1>1
<1>3. \A i \in SuccessesOf(rs) : (IsLast(grown, i) <=> IsLast(rs, i)) /\ (IsFirst(grown, i) <=> IsFirst(rs, i))
  BY <1>1, <1>2 DEF IsLast, IsFirst
<1>4. CacheMade(grown, cache)
  BY <1>1, <1>2, <1>3 DEF CacheMade
<1>. QED BY <1>4 DEF grown

\* One that succeeds is saved: its credentials are the panel's from then on, and
\* the panel is the default one if none was registered before
\* (save_credentials).
LEMMA SuccessMade ==
  ASSUME NEW rs, NEW cache, CacheMade(rs, cache), NEW resp \in Responses, Registered(resp)
  PROVE  CacheMade(Append(rs, resp), Local!save_credentials(cache, CredentialsOf(resp)))
<1>. DEFINE grown == Append(rs, resp)
            n == Len(rs)
            creds == CredentialsOf(resp)
            serial == resp.body["serialNumber"]
            panels == [panel \in {creds.serial} \cup DOMAIN cache.panels |->
                         IF panel = creds.serial THEN creds ELSE cache.panels[panel]]
            saved == Local!save_credentials(cache, creds)
<1>1. /\ grown \in Seq(Responses) /\ n \in Nat /\ SuccessesOf(rs) \subseteq 1 .. n
      /\ \A i \in 1 .. n : grown[i] = rs[i] /\ SerialAt(grown, i) = SerialAt(rs, i)
      /\ grown[n + 1] = resp /\ SerialAt(grown, n + 1) = serial
      /\ SuccessesOf(grown) = SuccessesOf(rs) \cup {n + 1}
  BY ResponsesGrow DEF CacheMade
<1>2. creds.serial = serial
  BY ResponseRead
<1>3. saved.panels = panels
      /\ saved.default_panel = IF cache.default_panel = {} \/ Cardinality(DOMAIN panels) = 1
                                 THEN {creds.serial} ELSE cache.default_panel
  <2>. DEFINE default == IF cache.default_panel = {} \/ Local!Cardinality(DOMAIN panels) = 1
                           THEN {creds.serial} ELSE cache.default_panel
  <2>1. saved = [panels |-> panels, default_panel |-> default]
    BY Zenon DEF Local!save_credentials
  <2>. HIDE DEF saved, panels, default
  <2>2. saved.panels = panels /\ saved.default_panel = default
    BY <2>1
  <2>. QED BY <2>2, CardinalityIsLocal, Zenon DEF default
<1>4. DOMAIN panels = DOMAIN cache.panels \cup {serial}
      /\ \A panel \in DOMAIN panels : panels[panel] = IF panel = serial THEN creds ELSE cache.panels[panel]
  BY <1>2
<1>. HIDE DEF grown, n, panels, saved, serial
<1>5. IsFiniteSet(DOMAIN panels)
  <2>1. IsFiniteSet(DOMAIN cache.panels)
    BY DEF CacheMade
  <2>2. IsFiniteSet(DOMAIN cache.panels \cup {serial})
    BY <2>1, FS_AddElement
  <2>. QED BY <1>4, <2>2
<1>6. /\ DOMAIN cache.panels = {SerialAt(rs, i) : i \in SuccessesOf(rs)}
      /\ \A i \in SuccessesOf(rs) : IsLast(rs, i) => cache.panels[SerialAt(rs, i)] = CredentialsOf(rs[i])
      /\ SuccessesOf(rs) = {} <=> cache.default_panel = {}
      /\ \A i \in SuccessesOf(rs) : IsFirst(rs, i) => cache.default_panel = {SerialAt(rs, i)}
  BY DEF CacheMade
<1>7. /\ \A i \in SuccessesOf(rs) : grown[i] = rs[i] /\ SerialAt(grown, i) = SerialAt(rs, i) /\ i <= n
      /\ n + 1 \in SuccessesOf(grown)
  BY <1>1
<1>8. DOMAIN panels = {SerialAt(grown, i) : i \in SuccessesOf(grown)}
  BY <1>1, <1>4, <1>6, <1>7
<1>9. ASSUME NEW i \in SuccessesOf(grown), IsLast(grown, i)
      PROVE  panels[SerialAt(grown, i)] = CredentialsOf(grown[i])
  <2>1. CASE i = n + 1
    BY <1>1, <1>4, <2>1 DEF creds
  <2>2. CASE i \in SuccessesOf(rs)
    <3>1. SerialAt(rs, i) # serial
      BY <1>1, <1>7, <1>9, <2>2 DEF IsLast
    <3>2. IsLast(rs, i)
      BY <1>1, <1>7, <1>9, <2>2 DEF IsLast
    <3>3. SerialAt(rs, i) \in DOMAIN cache.panels
      BY <1>6, <2>2
    <3>. QED BY <1>4, <1>6, <1>7, <2>2, <3>1, <3>2, <3>3
  <2>. QED BY <1>1, <2>1, <2>2
<1>10. saved.default_panel # {}
  <2>1. {creds.serial} # {}
    OBVIOUS
  <2>. QED BY <1>3, <2>1
<1>11. ASSUME NEW i \in SuccessesOf(grown), IsFirst(grown, i)
       PROVE  saved.default_panel = {SerialAt(grown, i)}
  <2>1. CASE SuccessesOf(rs) = {}
    <3>1. i = n + 1 /\ cache.default_panel = {}
      BY <1>1, <1>6, <2>1
    <3>. QED BY <1>1, <1>2, <1>3, <3>1
  <2>2. CASE SuccessesOf(rs) # {}
    <3>1. i \in SuccessesOf(rs)
      <4>1. PICK k \in SuccessesOf(rs) : TRUE
        BY <2>2
      <4>2. i <= k /\ k <= n
        BY <1>1, <1>7, <1>11, <4>1 DEF IsFirst
      <4>. QED BY <1>1, <4>1, <4>2
    <3>2. IsFirst(rs, i)
      BY <1>1, <1>11, <3>1 DEF IsFirst
    <3>3. cache.default_panel = {SerialAt(grown, i)}
      BY <1>6, <1>7, <3>1, <3>2
    <3>4. cache.default_panel # {}
      BY <1>6, <2>2
    <3>5. ASSUME Cardinality(DOMAIN panels) = 1 PROVE serial = SerialAt(grown, i)
      <4>1. PICK x : DOMAIN panels = {x}
        BY <1>5, <3>5, FS_Singleton
      <4>2. serial \in DOMAIN panels /\ SerialAt(grown, i) \in DOMAIN panels
        BY <1>4, <1>8
      <4>. QED BY <4>1, <4>2
    <3>. QED BY <1>2, <1>3, <3>3, <3>4, <3>5
  <2>. QED BY <2>1, <2>2
<1>12. CacheMade(grown, saved)
  <2>1. SuccessesOf(grown) # {}
    BY <1>7
  <2>. QED BY <1>1, <1>3, <1>5, <1>8, <1>9, <1>10, <1>11, <2>1 DEF CacheMade
<1>. QED BY <1>12 DEF grown, saved

RegistrationInv == kind = "registration" => CacheMade(given, got)

LEMMA RegistrationComes == OnRegistration => RegistrationInv'
<1>. SUFFICES ASSUME OnRegistration PROVE CacheMade(given', got')
  BY DEF RegistrationInv
<1>1. given' = <<>> /\ got' = Local!NoCache
  BY DEF OnRegistration, Handled
<1>2. SuccessesOf(<<>>) = {}
  BY DEF SuccessesOf
<1>3. IsFiniteSet({})
  BY FS_EmptySet
<1>4. /\ <<>> \in Seq(Responses)
      /\ DOMAIN Local!NoCache.panels = {}
      /\ Local!NoCache.default_panel = {}
  BY DEF Local!NoCache
<1>. QED BY <1>1, <1>2, <1>3, <1>4 DEF CacheMade

LEMMA RegistrationGoesOn == RegistrationInv /\ OnResponse => RegistrationInv'
<1>. SUFFICES ASSUME RegistrationInv, OnResponse PROVE CacheMade(given', got')
  BY DEF RegistrationInv
<1>1. CacheMade(given, got)
  BY DEF RegistrationInv, OnResponse, GoesOn
<1>2. PICK resp \in Responses :
        /\ given' = Append(given, resp)
        /\ got' = IF Local!register(resp) = {} THEN got
                  ELSE Local!save_credentials(got, CredentialsOf(resp))
  BY Zenon DEF OnResponse, Follows, CredentialsOf
<1>3. CASE Registered(resp)
  <2>1. got' = Local!save_credentials(got, CredentialsOf(resp))
    BY <1>2, <1>3, ResponseRead
  <2>. QED BY <1>1, <1>2, <1>3, <2>1, SuccessMade
<1>4. CASE ~Registered(resp)
  <2>1. got' = got
    BY <1>2, <1>4, ResponseRead
  <2>. QED BY <1>1, <1>2, <1>4, <2>1, FailureMade
<1>. QED BY <1>3, <1>4

\* What is loaded from the cache is what was registered (load_credentials).
LEMMA CacheIsStated == RegistrationInv => CachedIsRegistered
<1>. SUFFICES ASSUME RegistrationInv, kind = "registration" PROVE CachedIsRegistered
  BY DEF CachedIsRegistered
<1>. DEFINE rs == given
            first == {SerialOf(i) : i \in {k \in Successes : \A l \in Successes : k <= l}}
            AreOf(loaded, i) ==
              /\ loaded # {}
              /\ \A c \in loaded :
                   /\ c.serial = SerialOf(i)
                   /\ c.access_token = given[i].body["accessToken"]
                   /\ c.ebus_username = given[i].body["ebusBrokerUsername"]
                   /\ c.ebus_password = given[i].body["ebusBrokerPassword"]
                   /\ c.hostname = given[i].body["hostname"]
<1>1. CacheMade(given, got)
  BY DEF RegistrationInv
<1>2. /\ given \in Seq(Responses) /\ Len(given) \in Nat /\ Successes = SuccessesOf(given)
      /\ Successes \subseteq 1 .. Len(given)
      /\ \A i \in Successes : given[i] \in Responses /\ Registered(given[i])
      /\ \A i : SerialOf(i) = SerialAt(given, i)
  BY <1>1 DEF CacheMade, SuccessesOf, Successes, SerialOf, SerialAt
<1>3. /\ DOMAIN got.panels = {SerialOf(i) : i \in Successes}
      /\ \A i \in Successes : IsLast(given, i) => got.panels[SerialOf(i)] = CredentialsOf(given[i])
      /\ Successes = {} <=> got.default_panel = {}
      /\ \A i \in Successes : IsFirst(given, i) => got.default_panel = {SerialOf(i)}
  BY <1>1, <1>2 DEF CacheMade
<1>4. \A serial : \A i : i \in LastFor(serial) <=> i \in Successes /\ SerialOf(i) = serial /\ IsLast(given, i)
  BY <1>2 DEF LastFor, IsLast
<1>5. ASSUME NEW serial, serial \in DOMAIN got.panels PROVE \E i : i \in LastFor(serial)
  <2>. DEFINE T == {i \in Successes : SerialOf(i) = serial}
  <2>1. T \subseteq 0 .. Len(given) /\ T # {}
    BY <1>2, <1>3, <1>5
  <2>2. PICK i \in T : \A k \in T : k <= i
    <3>. HIDE DEF T
    <3>. QED BY <1>2, <2>1, NatGreatest
  <2>. QED BY <2>2 DEF LastFor
<1>6. ASSUME NEW serial, NEW i \in LastFor(serial) PROVE AreOf({got.panels[serial]}, i)
  <2>1. i \in Successes /\ SerialOf(i) = serial /\ got.panels[serial] = CredentialsOf(given[i])
    BY <1>3, <1>4, <1>6
  <2>2. given[i] \in Responses /\ Registered(given[i])
    BY <1>2, <2>1
  <2>. DEFINE c == got.panels[serial]
  <2>3. /\ c.serial = SerialOf(i)
        /\ c.access_token = given[i].body["accessToken"]
        /\ c.ebus_username = given[i].body["ebusBrokerUsername"]
        /\ c.ebus_password = given[i].body["ebusBrokerPassword"]
        /\ c.hostname = given[i].body["hostname"]
    BY <2>1, <2>2, ResponseRead DEF SerialOf
  <2>4. {c} # {} /\ \A x \in {c} : x = c
    OBVIOUS
  <2>. HIDE DEF c
  <2>. QED BY <2>3, <2>4, Zenon DEF c
<1>7. first = got.default_panel
  <2>1. CASE Successes = {}
    BY <1>3, <2>1
  <2>2. CASE Successes # {}
    <3>1. PICK i \in Successes : \A l \in Successes : i <= l
      <4>1. Successes \subseteq Nat
        BY <1>2
      <4>. QED BY <2>2, <4>1, NatLeast
    <3>2. IsFirst(given, i)
      BY <1>2, <3>1 DEF IsFirst
    <3>3. {k \in Successes : \A l \in Successes : k <= l} = {i}
      <4>1. \A k \in Successes : k \in Nat
        BY <1>2
      <4>2. \A a, b \in Nat : a <= b /\ b <= a => a = b
        OBVIOUS
      <4>. QED BY <3>1, <4>1, <4>2
    <3>4. first = {SerialOf(i)}
      BY <3>3
    <3>. QED BY <1>3, <3>1, <3>2, <3>4
  <2>. QED BY <2>1, <2>2
<1>8. ASSUME NEW serial, NEW wanted, serial = {} \/ \E s : serial = {s},
             wanted = UNION {LastFor(s) : s \in IF serial = {} THEN first ELSE serial}
      PROVE  /\ wanted = {} => Local!load_credentials(got, serial) = {}
             /\ \A i \in wanted : AreOf(Local!load_credentials(got, serial), i)
  <2>. DEFINE loaded == Local!load_credentials(got, serial)
              asked == IF serial = {} THEN got.default_panel ELSE serial
  <2>1. asked = {} \/ \E s : asked = {s}
    <3>1. got.default_panel = {} \/ \E s : got.default_panel = {s}
      <4>1. CASE Successes = {}
        BY <1>3, <4>1
      <4>2. CASE Successes # {}
        <5>1. PICK i \in Successes : \A l \in Successes : i <= l
          <6>1. Successes \subseteq Nat
            BY <1>2
          <6>. QED BY <4>2, <6>1, NatLeast
        <5>2. IsFirst(given, i)
          BY <1>2, <5>1 DEF IsFirst
        <5>. QED BY <1>3, <5>1, <5>2
      <4>. QED BY <4>1, <4>2
    <3>. QED BY <1>8, <3>1
  <2>2. loaded = {got.panels[t] : t \in asked \cap DOMAIN got.panels}
    <3>1. asked = {} => DOMAIN got.panels = {}
      <4>1. asked = {} => Successes = {}
        BY <1>3
      <4>. QED BY <1>3, <4>1
    <3>. QED BY <3>1 DEF Local!load_credentials
  <2>3. wanted = UNION {LastFor(s) : s \in asked}
    BY <1>7, <1>8
  <2>. HIDE DEF loaded, asked, first, AreOf
  <2>4. ASSUME asked = {} PROVE wanted = {} /\ loaded = {}
    BY <2>2, <2>3, <2>4
  <2>5. ASSUME NEW s, asked = {s} PROVE (wanted = {} => loaded = {}) /\ (\A i \in wanted : AreOf(loaded, i))
    <3>1. wanted = LastFor(s)
      BY <2>3, <2>5
    <3>2. s \in DOMAIN got.panels => loaded = {got.panels[s]}
      BY <2>2, <2>5
    <3>3. s \notin DOMAIN got.panels => loaded = {}
      BY <2>2, <2>5
    <3>4. \A i \in LastFor(s) : s \in DOMAIN got.panels
      BY <1>3, <1>4
    <3>5. wanted = {} => loaded = {}
      BY <1>5, <3>1, <3>3
    <3>6. ASSUME NEW i \in wanted PROVE AreOf(loaded, i)
      <4>1. i \in LastFor(s) /\ loaded = {got.panels[s]}
        BY <3>1, <3>2, <3>4, <3>6
      <4>. QED BY <1>6, <4>1
    <3>. QED BY <3>5, <3>6
  <2>6. (wanted = {} => loaded = {}) /\ (\A i \in wanted : AreOf(loaded, i))
    BY <2>1, <2>4, <2>5
  <2>. QED BY <2>6, Zenon DEF loaded
<1>9. ASSUME NEW serial \in {{}} \cup {{s} : s \in Serials}
      PROVE  LET loaded == Local!load_credentials(got, serial)
                 wanted == UNION {LastFor(s) : s \in IF serial = {} THEN first ELSE serial}
             IN  (wanted = {} => loaded = {}) /\ (\A i \in wanted : AreOf(loaded, i))
  <2>. HIDE DEF first, AreOf
  <2>1. serial = {} \/ \E s : serial = {s}
    OBVIOUS
  <2>. QED BY <1>8, <2>1, Zenon
<1>. QED BY <1>9, Zenon DEF CachedIsRegistered

(***************************************************************************)
(* Certificates.                                                           *)
(***************************************************************************)

Broker(reachable, chain, verifying) == [reachable |-> reachable, chain |-> chain, verifying |-> verifying]
GoodOf(chain, verifying) == {c \in verifying : \E i \in DOMAIN chain : chain[i] = c}

\* The broker is searched for the last of its chain that verifies it
\* (fetch_ca_from_broker).
LEMMA BrokerSearched ==
  ASSUME NEW n \in Nat, NEW chain \in [1 .. n -> Certificates], NEW verifying, NEW reachable \in BOOLEAN, NEW path,
         NEW found, found = Local!fetch_ca_from_broker(Broker(reachable, chain, verifying), path)
  PROVE  IF reachable /\ GoodOf(chain, verifying) # {}
           THEN ~found.raises /\ \E c \in GoodOf(chain, verifying) \cap Certificates : found.path = {c}
           ELSE found.raises /\ found.path = path
<1>. DEFINE broker == Broker(reachable, chain, verifying)
            good == GoodOf(chain, verifying)
            hits == {i \in DOMAIN chain : Local!verifies_peer(broker, chain[i])}
<1>1. hits = {i \in 1 .. n : reachable /\ chain[i] \in verifying}
  BY DEF Local!verifies_peer, Broker
<1>2. found = IF ~reachable \/ hits = {}
                THEN [raises |-> TRUE, path |-> path]
                ELSE [raises |-> FALSE, path |-> {chain[Local!Max(hits)]}]
  BY DEF Local!fetch_ca_from_broker, Broker
<1>. HIDE DEF hits, good
<1>3. reachable => (hits = {} <=> good = {})
  BY <1>1 DEF good, GoodOf
<1>4. CASE ~reachable \/ hits = {}
  <2>1. found.raises /\ found.path = path
    BY <1>2, <1>4
  <2>. QED BY <1>3, <1>4, <2>1 DEF good
<1>5. CASE reachable /\ hits # {}
  <2>1. Local!Max(hits) \in hits
    <3>1. hits \subseteq 0 .. n
      BY <1>1
    <3>2. \E x \in hits : \A y \in hits : y <= x
      BY <1>5, <3>1, NatGreatest
    <3>3. \E x \in hits : \A y \in hits : x >= y
      BY <3>1, <3>2
    <3>. QED BY <3>3 DEF Local!Max
  <2>. DEFINE c == chain[Local!Max(hits)]
  <2>2. c \in good /\ c \in Certificates
    BY <1>1, <2>1 DEF good, GoodOf
  <2>. HIDE DEF c
  <2>3. ~found.raises /\ found.path = {c}
    BY <1>2, <1>5 DEF c
  <2>4. \E x \in good \cap Certificates : found.path = {x}
    BY <2>2, <2>3
  <2>. QED BY <1>3, <1>5, <2>3, <2>4 DEF good
<1>. QED BY <1>4, <1>5

LEMMA CertificateSound == OnCertificate => AnchorSigns'
<1>. SUFFICES ASSUME OnCertificate PROVE AnchorSigns'
  OBVIOUS
<1>1. PICK status \in {0, 200, 404, 503}, text \in Certificates \cup {"page"}, reachable \in BOOLEAN,
           n \in 0 .. MaxSteps :
        \E chain \in [1 .. n -> Certificates] : \E verifying \in SUBSET Certificates :
        \E path \in {{}} \cup {{c} : c \in Certificates} :
          Handled([rest |-> [status |-> status, text |-> text, certificates |-> Certificates],
                   broker |-> [reachable |-> reachable, chain |-> chain, verifying |-> verifying],
                   path |-> path],
                  Local!fetch_ca_certificate([status |-> status, text |-> text, certificates |-> Certificates],
                                             [reachable |-> reachable, chain |-> chain, verifying |-> verifying],
                                             path))
  BY Zenon DEF OnCertificate
<1>2. PICK chain \in [1 .. n -> Certificates], verifying \in SUBSET Certificates,
           path \in {{}} \cup {{c} : c \in Certificates} :
          Handled([rest |-> [status |-> status, text |-> text, certificates |-> Certificates],
                   broker |-> [reachable |-> reachable, chain |-> chain, verifying |-> verifying],
                   path |-> path],
                  Local!fetch_ca_certificate([status |-> status, text |-> text, certificates |-> Certificates],
                                             [reachable |-> reachable, chain |-> chain, verifying |-> verifying],
                                             path))
  BY <1>1, Zenon
<1>. DEFINE rest == [status |-> status, text |-> text, certificates |-> Certificates]
            broker == Broker(reachable, chain, verifying)
            found == Local!fetch_ca_from_broker(broker, path)
            good == GoodOf(chain, verifying)
<1>3. given' = [rest |-> rest, broker |-> broker, path |-> path]
      /\ got' = Local!fetch_ca_certificate(rest, broker, path)
  BY <1>2, Zenon DEF Handled, Broker
<1>4. IF reachable /\ good # {}
        THEN ~found.raises /\ \E c \in good \cap Certificates : found.path = {c}
        ELSE found.raises /\ found.path = path
  <2>1. n \in Nat
    OBVIOUS
  <2>. QED BY <2>1, BrokerSearched
<1>5. /\ given'.rest.status = status /\ given'.broker.verifying = verifying /\ given'.broker.chain = chain
      /\ given'.broker.reachable = reachable /\ given'.path = path
  BY <1>3 DEF Broker
<1>6. got' = IF status \in {0, 503} THEN found
             ELSE IF status >= 400 \/ text \notin Certificates
               THEN [raises |-> TRUE, path |-> path]
               ELSE [raises |-> FALSE, path |-> {text}]
  BY <1>3 DEF Local!fetch_ca_certificate
<1>. HIDE DEF found, good
<1>7. path \subseteq Certificates
  OBVIOUS
<1>8. CASE status \in {0, 503}
  <2>1. got' = found
    BY <1>6, <1>8
  <2>2. found.path \subseteq Certificates
    BY <1>4, <1>7
  <2>3. (found.raises => found.path = path) /\ (~found.raises => found.path # {} /\ found.path \subseteq good)
        /\ (reachable /\ good # {} => ~found.raises)
    BY <1>4
  <2>. QED BY <1>5, <1>8, <2>1, <2>2, <2>3 DEF AnchorSigns, good, GoodOf
<1>9. CASE status \notin {0, 503}
  <2>1. /\ got'.raises => got'.path = path
        /\ got'.path \subseteq Certificates
    BY <1>6, <1>7, <1>9
  <2>. QED BY <1>5, <1>9, <2>1 DEF AnchorSigns
<1>. QED BY <1>8, <1>9

(***************************************************************************)
(* The local client.                                                       *)
(***************************************************************************)
LocalInv == SchemaIsDescribed /\ SessionInv /\ RegistrationInv /\ AnchorSigns

LEMMA LocalStep == LocalInv /\ [LocalNext \/ Rest \/ Elsewhere(LocalKinds)]_vars => LocalInv'
<1>. SUFFICES ASSUME LocalInv, [LocalNext \/ Rest \/ Elsewhere(LocalKinds)]_vars PROVE LocalInv'
  OBVIOUS
<1>1. CASE OnDescription
  <2>1. kind' = "description"
    BY <1>1 DEF OnDescription, Comes, Handled
  <2>. QED BY <1>1, <2>1, DescriptionSound DEF LocalInv, SessionInv, RegistrationInv, AnchorSigns
<1>2. CASE OnSession
  <2>1. kind' = "session"
    BY <1>2 DEF OnSession, Comes, Handled
  <2>. QED BY <1>2, <2>1, SessionComes DEF LocalInv, SchemaIsDescribed, RegistrationInv, AnchorSigns
<1>3. CASE SessionStep
  <2>1. kind' = "session"
    BY <1>3 DEF SessionStep, GoesOn, OnStart, OnStop, OnConnect, OnDisconnect, OnPublishedDescription,
                OnPublishedGarbage, OnPublishedState, OnPublishedValue, OnSendCommand, InSession, Follows
  <2>. QED BY <1>3, <2>1, SessionGoesOn DEF LocalInv, SchemaIsDescribed, RegistrationInv, AnchorSigns
<1>4. CASE OnRegistration
  <2>1. kind' = "registration"
    BY <1>4 DEF OnRegistration, Comes, Handled
  <2>. QED BY <1>4, <2>1, RegistrationComes DEF LocalInv, SchemaIsDescribed, SessionInv, AnchorSigns
<1>5. CASE OnResponse
  <2>1. kind' = "registration"
    BY <1>5, Zenon DEF OnResponse, GoesOn, Follows
  <2>. QED BY <1>5, <2>1, RegistrationGoesOn DEF LocalInv, SchemaIsDescribed, SessionInv, AnchorSigns
<1>6. CASE OnCertificate
  <2>1. kind' = "certificate"
    BY <1>6 DEF OnCertificate, Comes, Handled
  <2>. QED BY <1>6, <2>1, CertificateSound DEF LocalInv, SchemaIsDescribed, SessionInv, RegistrationInv
<1>7. CASE Rest
  BY <1>7 DEF Rest, LocalInv, SchemaIsDescribed, SessionInv, RegistrationInv, AnchorSigns
<1>8. CASE Elsewhere(LocalKinds)
  BY <1>8 DEF Elsewhere, LocalKinds, LocalInv, SchemaIsDescribed, SessionInv, RegistrationInv, AnchorSigns
<1>9. CASE UNCHANGED vars
  BY <1>9 DEF vars, LocalInv, SchemaIsDescribed, SessionInv, RegistrationInv, AnchorSigns
<1>. QED BY <1>1, <1>2, <1>3, <1>4, <1>5, <1>6, <1>7, <1>8, <1>9 DEF LocalNext

LEMMA LocalCorrect == LocalSpec => []LocalInv
<1>1. Init => LocalInv
  BY DEF Init, LocalInv, SchemaIsDescribed, SessionInv, RegistrationInv, AnchorSigns
<1>. QED BY <1>1, LocalStep, PTL DEF LocalSpec

\* A schema has the properties described and no other, with the units the panel
\* sends and the names that have been read, whatever the description
\* (parse_description, effective_unit, resolve_node_names).
THEOREM SchemasAreDescribed == LocalSpec => []SchemaIsDescribed
<1>1. LocalInv => SchemaIsDescribed
  BY DEF LocalInv
<1>. QED BY <1>1, LocalCorrect, PTL

\* A session hands on the panel's values and documents whole and in order, sends
\* its commands to their properties, hears no echo, and does nothing without a
\* certificate, however long it is and however often the connection is lost
\* (start, stop, _on_message, send_command).
THEOREM SessionsSpeakSchema == LocalSpec => []SessionSpeaksSchema
<1>1. LocalInv => SessionSpeaksSchema
  BY MadeIsStated DEF LocalInv, SessionInv, SessionSpeaksSchema
<1>. QED BY <1>1, LocalCorrect, PTL

\* The credentials loaded for a panel are those of its last registration that
\* succeeded, and without a serial those of the panel registered first, after
\* any number of registrations of any panels
\* (register, save_credentials, load_credentials).
THEOREM CachesAreRegistered == LocalSpec => []CachedIsRegistered
<1>1. LocalInv => CachedIsRegistered
  BY CacheIsStated DEF LocalInv
<1>. QED BY <1>1, LocalCorrect, PTL

\* The anchor verifies the broker it was taken from, one is found if there is
\* one, and a failure leaves the anchor there was, for any chain
\* (fetch_ca_certificate, fetch_ca_from_broker).
THEOREM AnchorsSign == LocalSpec => []AnchorSigns
<1>1. LocalInv => AnchorSigns
  BY DEF LocalInv
<1>. QED BY <1>1, LocalCorrect, PTL

(***************************************************************************)
(* Recursion over numbers.  A recursive function is one that satisfies its *)
(* equation, if there is one: there is, as there is a table of it up to    *)
(* every number, and any two tables agree.                                 *)
(***************************************************************************)
Tables(S, first, step, n) ==
  {g \in [0 .. n -> S] : g[0] = first /\ \A i \in 0 .. n - 1 : g[i + 1] = step[<<i, g[i]>>]}

LEMMA TableThere ==
  ASSUME NEW S, NEW first \in S, NEW step \in [Nat \X S -> S], NEW n \in Nat
  PROVE  Tables(S, first, step, n) # {}
<1>. DEFINE T == {m \in Nat : Tables(S, first, step, m) # {}}
<1>1. 0 \in T
  <2>1. [i \in 0 .. 0 |-> first] \in Tables(S, first, step, 0)
    BY DEF Tables
  <2>. QED BY <2>1
<1>2. ASSUME NEW m \in T PROVE m + 1 \in T
  <2>1. PICK g : g \in Tables(S, first, step, m)
    BY DEF T
  <2>. DEFINE h == [i \in 0 .. m + 1 |-> IF i <= m THEN g[i] ELSE step[<<m, g[m]>>]]
  <2>2. m \in Nat /\ g \in [0 .. m -> S] /\ g[0] = first
        /\ \A i \in 0 .. m - 1 : g[i + 1] = step[<<i, g[i]>>]
    BY <2>1 DEF T, Tables
  <2>3. step[<<m, g[m]>>] \in S
    BY <2>2
  <2>4. h \in [0 .. m + 1 -> S]
    BY <2>2, <2>3
  <2>5. h[0] = first
    BY <2>2
  <2>6. ASSUME NEW i \in 0 .. (m + 1) - 1 PROVE h[i + 1] = step[<<i, h[i]>>]
    <3>1. CASE i = m
      <4>1. h[m] = g[m] /\ h[m + 1] = step[<<m, g[m]>>]
        BY <2>2
      <4>. QED BY <3>1, <4>1
    <3>2. CASE i # m
      <4>1. i \in 0 .. m - 1 /\ i + 1 <= m /\ i <= m /\ i + 1 \in 0 .. m + 1 /\ i \in 0 .. m + 1
        BY <2>2, <3>2
      <4>. QED BY <2>2, <4>1
    <3>. QED BY <3>1, <3>2
  <2>7. h \in Tables(S, first, step, m + 1)
    <3>. HIDE DEF h
    <3>. QED BY <2>4, <2>5, <2>6 DEF Tables
  <2>. QED BY <2>2, <2>7
<1>3. T = Nat
  <2>. HIDE DEF T
  <2>1. T \subseteq Nat
    BY DEF T
  <2>. QED BY <1>1, <1>2, <2>1, NatAll
<1>. QED BY <1>3

LEMMA TablesAgree ==
  ASSUME NEW S, NEW first \in S, NEW step \in [Nat \X S -> S], NEW n \in Nat, NEW m \in 0 .. n,
         NEW g \in Tables(S, first, step, m), NEW h \in Tables(S, first, step, n)
  PROVE  g[m] = h[m]
<1>. DEFINE T == {i \in Nat : i <= m => g[i] = h[i]}
<1>1. 0 \in T
  BY DEF Tables
<1>2. ASSUME NEW i \in T PROVE i + 1 \in T
  <2>1. i \in Nat
    OBVIOUS
  <2>2. CASE i + 1 <= m
    <3>1. g[i] = h[i] /\ i \in 0 .. m - 1 /\ i \in 0 .. n - 1
      BY <2>1, <2>2
    <3>2. g[i + 1] = step[<<i, g[i]>>] /\ h[i + 1] = step[<<i, h[i]>>]
      BY <3>1 DEF Tables
    <3>. QED BY <2>1, <3>1, <3>2
  <2>. QED BY <2>1, <2>2
<1>3. T = Nat
  <2>. HIDE DEF T
  <2>1. T \subseteq Nat
    BY DEF T
  <2>. QED BY <1>1, <1>2, <2>1, NatAll
<1>. QED BY <1>3

Solvable(S, first, step) ==
  \E f \in [Nat -> S] : f[0] = first /\ \A n \in Nat : f[n + 1] = step[<<n, f[n]>>]

LEMMA Recursion ==
  ASSUME NEW S, NEW first \in S, NEW step \in [Nat \X S -> S]
  PROVE  Solvable(S, first, step)
<1>. DEFINE last(n) == CHOOSE g : g \in Tables(S, first, step, n)
            f == [n \in Nat |-> last(n)[n]]
<1>1. \A n \in Nat : last(n) \in Tables(S, first, step, n)
  BY TableThere
<1>. HIDE DEF last
<1>2. ASSUME NEW n \in Nat PROVE f[n] \in S /\ f[n + 1] = step[<<n, f[n]>>]
  <2>1. last(n)[n] \in S
    <3>1. last(n) \in [0 .. n -> S]
      BY <1>1 DEF Tables
    <3>. QED BY <3>1
  <2>2. last(n)[n] = last(n + 1)[n]
    BY <1>1, TablesAgree
  <2>3. last(n + 1)[n + 1] = step[<<n, last(n + 1)[n]>>]
    <3>1. last(n + 1) \in Tables(S, first, step, n + 1) /\ n \in 0 .. (n + 1) - 1
      BY <1>1
    <3>. QED BY <3>1 DEF Tables
  <2>. QED BY <2>1, <2>2, <2>3
<1>3. f[0] = first
  BY <1>1 DEF Tables
<1>4. f \in [Nat -> S]
  BY <1>2
<1>. HIDE DEF f
<1>. QED BY <1>2, <1>3, <1>4 DEF Solvable

(***************************************************************************)
(* Digits.                                                                 *)
(***************************************************************************)

LEMMA SeqElements ==
  ASSUME NEW S, NEW s \in Seq(S)
  PROVE  Len(s) \in Nat /\ \A i \in 1 .. Len(s) : s[i] \in S
  OBVIOUS

\* A number is a multiple of the base and its last digit, which is the only one.
LEMMA Quotients ==
  ASSUME NEW base \in Nat, base > 1
  PROVE  /\ \A x \in Nat : x \div base \in Nat /\ x % base \in 0 .. base - 1
                           /\ x = (x % base) + base * (x \div base)
         /\ \A x \in Nat : x > 0 => x \div base < x
         /\ \A d \in 0 .. base - 1 : \A y \in Nat :
              d + base * y \in Nat /\ (d + base * y) \div base = y /\ (d + base * y) % base = d
<1>1. ASSUME NEW x \in Nat
      PROVE  /\ x \div base \in Nat /\ x % base \in 0 .. base - 1
             /\ x = (x % base) + base * (x \div base)
  OBVIOUS
<1>2. ASSUME NEW x \in Nat, x > 0 PROVE x \div base < x
  <2>. DEFINE q == x \div base
              r == x % base
  <2>1. q \in Nat /\ r \in Nat /\ x = r + base * q
    BY <1>1
  <2>. HIDE DEF q, r
  <2>2. CASE q = 0
    BY <1>2, <2>2 DEF q
  <2>3. CASE q > 0
    <3>1. base * q >= 2 * q
      BY <2>1
    <3>2. base * q \in Nat
      BY <2>1
    <3>. QED BY <2>1, <2>3, <3>1, <3>2 DEF q
  <2>. QED BY <2>1, <2>2, <2>3
<1>3. ASSUME NEW d \in 0 .. base - 1, NEW y \in Nat
      PROVE  d + base * y \in Nat /\ (d + base * y) \div base = y /\ (d + base * y) % base = d
  <2>1. d + base * y \in Nat
    <3>1. base * y \in Nat
      OBVIOUS
    <3>. QED BY <3>1
  <2>2. (d + base * y) \div base = y
    OBVIOUS
  <2>3. (d + base * y) % base = d
    OBVIOUS
  <2>. QED BY <2>1, <2>2, <2>3
<1>. QED BY <1>1, <1>2, <1>3

LEMMA MultipleAndMore == \A d, b, y \in Nat : b * y \in Nat /\ d + b * y \in Nat
  OBVIOUS

LeftsOf(value, base) ==
  CHOOSE left : left = [i \in Nat |-> IF i = 0 THEN value ELSE left[i - 1] \div base]

\* Taking digits off is dividing.
LEMMA LeftStep ==
  ASSUME NEW value \in Nat, NEW base \in Nat, base > 1
  PROVE  /\ Left(value, base, 0) = value
         /\ \A n \in Nat : Left(value, base, n) \in Nat
                           /\ Left(value, base, n + 1) = Left(value, base, n) \div base
<1>. DEFINE step == [x \in Nat \X Nat |-> x[2] \div base]
            equation(g) == g = [n \in Nat |-> IF n = 0 THEN value ELSE g[n - 1] \div base]
            f == LeftsOf(value, base)
<1>1. step \in [Nat \X Nat -> Nat]
  BY Quotients
<1>2. Solvable(Nat, value, step)
  <2>. HIDE DEF step
  <2>. QED BY <1>1, Recursion
<1>3. PICK w \in [Nat -> Nat] : w[0] = value /\ \A n \in Nat : w[n + 1] = w[n] \div base
  BY <1>2 DEF Solvable
<1>4. equation(w)
  <2>1. ASSUME NEW n \in Nat PROVE w[n] = IF n = 0 THEN value ELSE w[n - 1] \div base
    <3>1. CASE n = 0
      BY <1>3, <3>1
    <3>2. CASE n # 0
      <4>1. n - 1 \in Nat /\ (n - 1) + 1 = n
        BY <3>2
      <4>. QED BY <1>3, <3>2, <4>1
    <3>. QED BY <3>1, <3>2
  <2>. QED BY <2>1
<1>5. equation(f)
  BY <1>4 DEF LeftsOf
<1>6. f = [n \in Nat |-> IF n = 0 THEN value ELSE f[n - 1] \div base]
  BY <1>5
<1>. HIDE DEF f
<1>7. f[0] = value
  BY <1>6
<1>8. ASSUME NEW n \in Nat PROVE f[n + 1] = f[n] \div base
  <2>1. n + 1 \in Nat /\ n + 1 # 0 /\ (n + 1) - 1 = n
    OBVIOUS
  <2>. QED BY <1>6, <2>1
<1>9. \A n \in Nat : f[n] \in Nat
  <2>. DEFINE T == {m \in Nat : f[m] \in Nat}
  <2>1. 0 \in T
    BY <1>7
  <2>2. ASSUME NEW m \in T PROVE m + 1 \in T
    <3>1. m \in Nat /\ f[m] \in Nat
      OBVIOUS
    <3>2. f[m] \div base \in Nat
      BY <3>1, Quotients
    <3>3. f[m + 1] \in Nat /\ m + 1 \in Nat
      BY <1>8, <3>1, <3>2
    <3>. QED BY <3>3
  <2>3. T = Nat
    <3>. HIDE DEF T
    <3>1. T \subseteq Nat
      BY DEF T
    <3>. QED BY <2>1, <2>2, <3>1, NatAll
  <2>. QED BY <2>3
<1>10. \A n : Left(value, base, n) = f[n]
  BY DEF Left, LeftsOf, f
<1>. QED BY <1>7, <1>8, <1>9, <1>10

\* In the end no digit is left.
LEMMA LeftEnds ==
  ASSUME NEW value \in Nat, NEW base \in Nat, base > 1
  PROVE  /\ Left(value, base, value + 1) = 0
         /\ \A n \in Nat : Left(value, base, n) = 0 => Left(value, base, n + 1) = 0
<1>1. ASSUME NEW n \in Nat, Left(value, base, n) = 0 PROVE Left(value, base, n + 1) = 0
  BY <1>1, LeftStep
<1>. DEFINE T == {n \in Nat : Left(value, base, n) = 0 \/ Left(value, base, n) + n <= value}
<1>2. 0 \in T
  BY LeftStep
<1>3. ASSUME NEW n \in T PROVE n + 1 \in T
  <2>1. n \in Nat /\ Left(value, base, n) \in Nat /\ Left(value, base, n + 1) \in Nat
    BY LeftStep
  <2>2. CASE Left(value, base, n) = 0
    BY <1>1, <2>1, <2>2
  <2>3. CASE Left(value, base, n) > 0
    <3>1. Left(value, base, n + 1) = Left(value, base, n) \div base
      BY <2>1, LeftStep
    <3>2. Left(value, base, n) \div base < Left(value, base, n)
      BY <2>1, <2>3, Quotients
    <3>3. Left(value, base, n) + n <= value
      BY <2>1, <2>3
    <3>4. Left(value, base, n + 1) + (n + 1) <= value
      BY <2>1, <3>1, <3>2, <3>3
    <3>. QED BY <2>1, <3>4
  <2>. QED BY <2>1, <2>2, <2>3
<1>4. T = Nat
  <2>. HIDE DEF T
  <2>1. T \subseteq Nat
    BY DEF T
  <2>. QED BY <1>2, <1>3, <2>1, NatAll
<1>5. value + 1 \in T /\ Left(value, base, value + 1) \in Nat
  BY <1>4, LeftStep
<1>. QED BY <1>1, <1>5

LEMMA LeftStays ==
  ASSUME NEW value \in Nat, NEW base \in Nat, base > 1, NEW k \in Nat, Left(value, base, k) = 0,
         NEW n \in Nat, n >= k
  PROVE  Left(value, base, n) = 0
<1>. DEFINE T == {m \in Nat : Left(value, base, k + m) = 0}
<1>1. 0 \in T
  OBVIOUS
<1>2. ASSUME NEW m \in T PROVE m + 1 \in T
  <2>1. m \in Nat /\ k + m \in Nat /\ (k + m) + 1 = k + (m + 1)
    OBVIOUS
  <2>2. Left(value, base, k + m) = 0
    OBVIOUS
  <2>3. Left(value, base, (k + m) + 1) = 0
    BY <2>1, <2>2, LeftEnds
  <2>4. Left(value, base, k + (m + 1)) = 0 /\ m + 1 \in Nat
    BY <2>1, <2>3
  <2>. QED BY <2>4
<1>3. T = Nat
  <2>. HIDE DEF T
  <2>1. T \subseteq Nat
    BY DEF T
  <2>. QED BY <1>1, <1>2, <2>1, NatAll
<1>. DEFINE m == n - k
<1>4. m \in Nat /\ k + m = n
  OBVIOUS
<1>. HIDE DEF m
<1>5. Left(value, base, k + m) = 0
  BY <1>3, <1>4
<1>. QED BY <1>4, <1>5

\* How many digits a number takes: as few as leave nothing.
LEMMA DigitsCounted ==
  ASSUME NEW value \in Nat, NEW base \in Nat, base > 1
  PROVE  /\ DigitCount(value, base) \in Nat \ {0}
         /\ Left(value, base, DigitCount(value, base)) = 0
         /\ \A k \in Nat \ {0} : Left(value, base, k) = 0 => DigitCount(value, base) <= k
<1>. DEFINE fits(k) == Left(value, base, k) = 0 /\ \A i \in 1 .. k - 1 : Left(value, base, i) # 0
            T == {k \in Nat \ {0} : Left(value, base, k) = 0}
<1>1. value + 1 \in T
  BY LeftEnds
<1>2. PICK k \in T : \A i \in T : k <= i
  <2>. HIDE DEF T
  <2>1. T \subseteq Nat /\ T # {}
    BY <1>1 DEF T
  <2>. QED BY <2>1, NatLeast
<1>3. k \in 1 .. value + 1 /\ fits(k)
  <2>1. k \in Nat \ {0} /\ k <= value + 1 /\ Left(value, base, k) = 0
    BY <1>1, <1>2
  <2>2. ASSUME NEW i \in 1 .. k - 1, Left(value, base, i) = 0 PROVE FALSE
    <3>1. i \in T
      BY <2>1, <2>2
    <3>. QED BY <1>2, <2>1, <3>1
  <2>. QED BY <2>1, <2>2
<1>. DEFINE n == DigitCount(value, base)
<1>4. n \in 1 .. value + 1 /\ fits(n)
  BY <1>3 DEF DigitCount
<1>. HIDE DEF n
<1>5. ASSUME NEW i \in Nat \ {0}, Left(value, base, i) = 0 PROVE n <= i
  BY <1>4, <1>5
<1>. QED BY <1>4, <1>5 DEF n

\* The number of the last k digits, as the recursion has it.
AboveOf(digits, base) ==
  CHOOSE above : above = [k \in 0 .. Len(digits) |->
                            IF k = 0 THEN 0 ELSE digits[Len(digits) + 1 - k] + base * above[k - 1]]

LEMMA NumberStep ==
  ASSUME NEW digits \in Seq(Nat), NEW base \in Nat, base > 1
  PROVE  LET n == Len(digits)
             f == AboveOf(digits, base)
         IN  /\ f \in [0 .. n -> Nat] /\ f[0] = 0 /\ f[n] = NumberOf(digits, base)
             /\ \A k \in 0 .. n - 1 : f[k + 1] = digits[n - k] + base * f[k]
<1>. DEFINE n == Len(digits)
            step == [x \in Nat \X Nat |-> IF x[1] < n THEN digits[n - x[1]] + base * x[2] ELSE 0]
            equation(g) == g = [k \in 0 .. n |-> IF k = 0 THEN 0 ELSE digits[n + 1 - k] + base * g[k - 1]]
            f == AboveOf(digits, base)
<1>1. n \in Nat /\ \A i \in 1 .. n : digits[i] \in Nat
  OBVIOUS
<1>2. ASSUME NEW k \in Nat, NEW y \in Nat PROVE step[<<k, y>>] \in Nat
  <2>1. base * y \in Nat
    OBVIOUS
  <2>2. k < n => n - k \in 1 .. n
    BY <1>1
  <2>. HIDE DEF n
  <2>3. step[<<k, y>>] = IF k < n THEN digits[n - k] + base * y ELSE 0
    OBVIOUS
  <2>. HIDE DEF step
  <2>4. CASE k < n
    <3>1. digits[n - k] \in Nat
      BY <1>1, <2>2, <2>4
    <3>2. digits[n - k] + base * y \in Nat
      BY <2>1, <3>1
    <3>. QED BY <2>3, <2>4, <3>2
  <2>5. CASE ~(k < n)
    BY <2>3, <2>5
  <2>. QED BY <2>4, <2>5
<1>3. Solvable(Nat, 0, step)
  <2>1. step \in [Nat \X Nat -> Nat]
    <3>1. step = [x \in Nat \X Nat |-> step[x]]
      OBVIOUS
    <3>2. ASSUME NEW x \in Nat \X Nat PROVE step[x] \in Nat
      <4>. HIDE DEF step
      <4>1. x = <<x[1], x[2]>> /\ x[1] \in Nat /\ x[2] \in Nat
        OBVIOUS
      <4>. QED BY <1>2, <4>1
    <3>. HIDE DEF step
    <3>. QED BY <3>1, <3>2
  <2>. HIDE DEF step
  <2>. QED BY <2>1, Recursion
<1>. HIDE DEF n
<1>4. PICK w \in [Nat -> Nat] : w[0] = 0 /\ \A k \in Nat : k < n => w[k + 1] = digits[n - k] + base * w[k]
  BY <1>3 DEF Solvable
<1>. DEFINE v == [k \in 0 .. n |-> w[k]]
<1>5. equation(v)
  <2>1. ASSUME NEW k \in 0 .. n PROVE v[k] = IF k = 0 THEN 0 ELSE digits[n + 1 - k] + base * v[k - 1]
    <3>1. CASE k = 0
      BY <1>1, <1>4, <3>1
    <3>2. CASE k # 0
      <4>1. k - 1 \in Nat /\ (k - 1) + 1 = k /\ k - 1 < n /\ k - 1 \in 0 .. n /\ n - (k - 1) = n + 1 - k
        BY <1>1, <3>2
      <4>2. w[(k - 1) + 1] = digits[n - (k - 1)] + base * w[k - 1]
        BY <1>4, <4>1
      <4>. QED BY <3>2, <4>1, <4>2
    <3>. QED BY <3>1, <3>2
  <2>. QED BY <2>1
<1>6. equation(f)
  BY <1>5 DEF AboveOf, n
<1>7. f = [k \in 0 .. n |-> IF k = 0 THEN 0 ELSE digits[n + 1 - k] + base * f[k - 1]]
  BY <1>6
<1>8. f[n] = NumberOf(digits, base)
  BY DEF NumberOf, AboveOf, f, n
<1>. HIDE DEF f
<1>9. f[0] = 0
  BY <1>1, <1>7
<1>10. ASSUME NEW k \in 0 .. n - 1 PROVE f[k + 1] = digits[n - k] + base * f[k]
  <2>1. k + 1 \in 0 .. n /\ k + 1 # 0 /\ (k + 1) - 1 = k /\ n + 1 - (k + 1) = n - k
    BY <1>1
  <2>2. f[k + 1] = digits[n + 1 - (k + 1)] + base * f[(k + 1) - 1]
    BY <1>7, <2>1
  <2>. QED BY <2>1, <2>2
<1>11. \A k \in 0 .. n : f[k] \in Nat
  <2>. DEFINE T == {k \in Nat : k <= n => f[k] \in Nat}
  <2>1. 0 \in T
    BY <1>9
  <2>2. ASSUME NEW k \in T PROVE k + 1 \in T
    <3>1. k \in Nat /\ k + 1 \in Nat
      OBVIOUS
    <3>2. CASE k < n
      <4>1. f[k] \in Nat /\ k \in 0 .. n - 1 /\ n - k \in 1 .. n
        BY <1>1, <3>1, <3>2
      <4>. HIDE DEF step, equation, T, v
      <4>3. digits[n - k] \in Nat
        BY <1>1, <4>1
      <4>2. digits[n - k] + base * f[k] \in Nat
        BY <4>1, <4>3, MultipleAndMore
      <4>5. f[k + 1] = digits[n - k] + base * f[k]
        BY <1>10, <4>1
      <4>4. f[k + 1] \in Nat
        BY <4>2, <4>5
      <4>. USE DEF T
      <4>. QED BY <3>1, <4>4
    <3>. QED BY <1>1, <3>1, <3>2
  <2>3. T = Nat
    <3>. HIDE DEF T
    <3>1. T \subseteq Nat
      BY DEF T
    <3>. QED BY <2>1, <2>2, <3>1, NatAll
  <2>4. ASSUME NEW k \in 0 .. n PROVE f[k] \in Nat
    <3>1. k \in Nat /\ k <= n
      BY <1>1
    <3>2. k \in T
      BY <2>3, <3>1
    <3>. QED BY <3>1, <3>2
  <2>. QED BY <2>4
<1>12. f \in [0 .. n -> Nat]
  <2>1. f = [k \in 0 .. n |-> f[k]]
    BY <1>7
  <2>. QED BY <1>11, <2>1
<1>. QED BY <1>8, <1>9, <1>10, <1>12 DEF f, n

\* The digits of a number make the number, however many more zeros there are.
LEMMA NumberOfDigits ==
  ASSUME NEW value \in Nat, NEW base \in Nat, base > 1, NEW n \in Nat, Left(value, base, n) = 0
  PROVE  NumberOf([i \in 1 .. n |-> Digit(value, base, i)], base) = value
<1>. DEFINE digits == [i \in 1 .. n |-> Digit(value, base, i)]
            f == AboveOf(digits, base)
<1>1. digits \in Seq(Nat) /\ Len(digits) = n
  <2>1. \A i \in 1 .. n : Digit(value, base, i) \in Nat
    <3>1. ASSUME NEW i \in 1 .. n PROVE Digit(value, base, i) \in Nat
      <4>1. i - 1 \in Nat
        OBVIOUS
      <4>2. Left(value, base, i - 1) \in Nat
        BY <4>1, LeftStep
      <4>3. Left(value, base, i - 1) % base \in Nat
        BY <4>2, Quotients
      <4>. QED BY <4>3 DEF Digit
    <3>. QED BY <3>1
  <2>. QED BY <2>1
<1>2. /\ f \in [0 .. n -> Nat] /\ f[0] = 0 /\ f[n] = NumberOf(digits, base)
      /\ \A k \in 0 .. n - 1 : f[k + 1] = digits[n - k] + base * f[k]
  <2>. HIDE DEF digits
  <2>. QED BY <1>1, NumberStep
<1>. HIDE DEF f
<1>. DEFINE T == {k \in Nat : k <= n => f[k] = Left(value, base, n - k)}
<1>3. 0 \in T
  BY <1>2
<1>4. ASSUME NEW k \in T PROVE k + 1 \in T
  <2>1. k \in Nat /\ k + 1 \in Nat
    OBVIOUS
  <2>2. CASE k < n
    <3>. DEFINE m == n - (k + 1)
    <3>1. m \in Nat /\ m + 1 = n - k /\ n - k \in 1 .. n /\ (n - k) - 1 = m /\ k \in 0 .. n - 1 /\ k <= n
      BY <2>1, <2>2
    <3>2. f[k] = Left(value, base, m + 1)
      BY <2>1, <3>1
    <3>. HIDE DEF m
    <3>3. Left(value, base, m) \in Nat /\ Left(value, base, m + 1) = Left(value, base, m) \div base
      <4>1. m \in Nat
        BY <3>1
      <4>. HIDE DEF T, digits
      <4>. QED BY <4>1, LeftStep
    <3>4. digits[n - k] = Left(value, base, m) % base
      BY <3>1 DEF Digit
    <3>5. Left(value, base, m) = (Left(value, base, m) % base) + base * (Left(value, base, m) \div base)
      BY <3>3, Quotients
    <3>6. f[k + 1] = Left(value, base, m)
      BY <1>2, <3>1, <3>2, <3>3, <3>4, <3>5
    <3>. QED BY <2>1, <3>6 DEF m
  <2>. QED BY <2>1, <2>2
<1>5. T = Nat
  <2>. HIDE DEF T
  <2>1. T \subseteq Nat
    BY DEF T
  <2>. QED BY <1>3, <1>4, <2>1, NatAll
<1>6. f[n] = Left(value, base, n - n)
  BY <1>5
<1>. QED BY <1>2, <1>6, LeftStep

\* A number takes at most as many digits as it was made from.
LEMMA LeftOfNumber ==
  ASSUME NEW base \in Nat, base > 1, NEW digits \in Seq(0 .. base - 1)
  PROVE  NumberOf(digits, base) \in Nat /\ Left(NumberOf(digits, base), base, Len(digits)) = 0
<1>. DEFINE n == Len(digits)
            f == AboveOf(digits, base)
            value == NumberOf(digits, base)
<1>1. digits \in Seq(Nat) /\ n \in Nat /\ \A i \in 1 .. n : digits[i] \in 0 .. base - 1
  OBVIOUS
<1>2. /\ f \in [0 .. n -> Nat] /\ f[0] = 0 /\ f[n] = value
      /\ \A k \in 0 .. n - 1 : f[k + 1] = digits[n - k] + base * f[k]
  BY <1>1, NumberStep
<1>. HIDE DEF f, n, value
<1>3. value \in Nat
  BY <1>1, <1>2
<1>. DEFINE T == {k \in Nat : k <= n => Left(value, base, k) = f[n - k]}
<1>4. 0 \in T
  BY <1>1, <1>2, <1>3, LeftStep
<1>5. ASSUME NEW k \in T PROVE k + 1 \in T
  <2>1. k \in Nat /\ k + 1 \in Nat
    OBVIOUS
  <2>2. CASE k < n
    <3>. DEFINE m == n - (k + 1)
    <3>1. m \in 0 .. n - 1 /\ m + 1 = n - k /\ n - m \in 1 .. n
      BY <1>1, <2>1, <2>2
    <3>2. Left(value, base, k) = f[m + 1]
      <4>1. k <= n /\ n - k = m + 1
        BY <1>1, <2>1, <2>2
      <4>2. Left(value, base, k) = f[n - k]
        BY <4>1
      <4>. HIDE DEF m
      <4>. QED BY <4>1, <4>2
    <3>. HIDE DEF m
    <3>3. f[m + 1] = digits[n - m] + base * f[m] /\ f[m] \in Nat /\ digits[n - m] \in 0 .. base - 1
      BY <1>1, <1>2, <3>1
    <3>4. (digits[n - m] + base * f[m]) \div base = f[m]
      BY <3>3, Quotients
    <3>5. Left(value, base, k + 1) = Left(value, base, k) \div base
      BY <1>3, <2>1, LeftStep
    <3>6. Left(value, base, k + 1) = f[m]
      BY <3>2, <3>3, <3>4, <3>5
    <3>. QED BY <2>1, <3>6 DEF m
  <2>. QED BY <1>1, <2>1, <2>2
<1>6. T = Nat
  <2>. HIDE DEF T
  <2>1. T \subseteq Nat
    BY DEF T
  <2>. QED BY <1>4, <1>5, <2>1, NatAll
<1>7. Left(value, base, n) = f[n - n]
  BY <1>1, <1>6
<1>8. n - n = 0
  BY <1>1
<1>. QED BY <1>2, <1>3, <1>7, <1>8 DEF value, n

(***************************************************************************)
(* The sign-in.  A power in the group is what the recursion makes of it    *)
(* (that there is such a function is Recursion), and obeys the laws of     *)
(* powers, so that the two sides of the exchange arrive at one secret.     *)
(***************************************************************************)

\* A number is a multiple of N and its remainder, which is the only one.
LEMMA Remainders ==
  /\ \A x \in Int : x % N \in 0 .. N - 1 /\ x \div N \in Int /\ x = (N * (x \div N)) + (x % N)
  /\ \A x, q \in Int : \A r \in 0 .. N - 1 : x = N * q + r => x % N = r
  /\ \A r \in 0 .. N - 1 : r % N = r
<1>1. \A x \in Int : x % N \in 0 .. N - 1 /\ x \div N \in Int
  BY GroupAssumption
<1>2. \A x \in Int : x = (N * (x \div N)) + (x % N)
  BY GroupAssumption
<1>3. ASSUME NEW x \in Int, NEW q \in Int, NEW r \in 0 .. N - 1, x = N * q + r PROVE x % N = r
  BY <1>3, GroupAssumption
<1>4. \A r \in 0 .. N - 1 : r % N = r
  BY GroupAssumption
<1>. QED BY <1>1, <1>2, <1>3, <1>4

\* Reducing a part of a number that is reduced changes nothing.
LEMMA ReducedTwice ==
  ASSUME NEW x \in Int, NEW y \in Int
  PROVE  /\ ((x % N) * y) % N = (x * y) % N
         /\ ((x % N) + y) % N = (x + y) % N
         /\ (x % N) % N = x % N
<1>. USE GroupAssumption
<1>. DEFINE q == x \div N
            r == x % N
<1>1. q \in Int /\ r \in 0 .. N - 1 /\ x = N * q + r
  BY Remainders
<1>. HIDE DEF q, r
<1>2. ASSUME NEW z \in Int, NEW k \in Int PROVE (N * k + z) % N = z % N
  <2>. DEFINE p == z \div N
              t == z % N
  <2>1. p \in Int /\ t \in 0 .. N - 1 /\ z = N * p + t
    BY Remainders
  <2>. HIDE DEF p, t
  <2>2. N * k + z = N * (k + p) + t
    BY <2>1
  <2>3. N * k + z \in Int /\ k + p \in Int
    BY <2>1
  <2>4. (N * k + z) % N = t
    BY <2>1, <2>2, <2>3, Remainders
  <2>. QED BY <2>4 DEF t
<1>3. x * y = N * (q * y) + r * y
  BY <1>1
<1>4. (x * y) % N = (r * y) % N
  <2>1. q * y \in Int /\ r * y \in Int
    BY <1>1
  <2>. QED BY <1>2, <1>3, <2>1
<1>5. (x + y) % N = (r + y) % N
  <2>1. x + y = N * q + (r + y) /\ r + y \in Int
    BY <1>1
  <2>. QED BY <1>1, <1>2, <2>1
<1>6. r % N = x % N
  <2>1. r \in Int
    BY <1>1
  <2>. QED BY <1>1, <1>2, <2>1
<1>. QED BY <1>4, <1>5, <1>6 DEF r

PowersOf(b) == CHOOSE pow : pow = [n \in Nat |-> IF n = 0 THEN 1 % N ELSE (b * pow[n - 1]) % N]

LEMMA PowersStep ==
  ASSUME NEW b \in Int
  PROVE  /\ PowersOf(b) \in [Nat -> 0 .. N - 1]
         /\ PowersOf(b)[0] = 1 % N
         /\ \A n \in Nat : PowersOf(b)[n + 1] = (b * PowersOf(b)[n]) % N
<1>. USE GroupAssumption
<1>. DEFINE S == 0 .. N - 1
            step == [x \in Nat \X S |-> (b * x[2]) % N]
            equation(p) == p = [n \in Nat |-> IF n = 0 THEN 1 % N ELSE (b * p[n - 1]) % N]
<1>1. 1 % N \in S /\ step \in [Nat \X S -> S]
  <2>1. ASSUME NEW y \in S PROVE (b * y) % N \in S
    <3>1. b * y \in Int
      OBVIOUS
    <3>. QED BY <3>1, Remainders
  <2>2. 1 % N \in S
    BY Remainders
  <2>. HIDE DEF S
  <2>3. step \in [Nat \X S -> S]
    BY <2>1
  <2>. QED BY <2>2, <2>3
<1>2. \A n \in Nat : \A y \in S : step[<<n, y>>] = (b * y) % N
  OBVIOUS
<1>3. PICK pow \in [Nat -> S] : pow[0] = 1 % N /\ \A n \in Nat : pow[n + 1] = (b * pow[n]) % N
  <2>. HIDE DEF step, S
  <2>1. Solvable(S, 1 % N, step)
    BY <1>1, Recursion
  <2>. QED BY <1>2, <2>1 DEF Solvable
<1>5. equation(pow)
  <2>1. ASSUME NEW n \in Nat PROVE pow[n] = IF n = 0 THEN 1 % N ELSE (b * pow[n - 1]) % N
    <3>1. CASE n = 0
      BY <1>3, <3>1
    <3>2. CASE n # 0
      <4>1. n - 1 \in Nat /\ (n - 1) + 1 = n
        BY <3>2
      <4>. QED BY <1>3, <3>2, <4>1
    <3>. QED BY <3>1, <3>2
  <2>2. pow = [n \in Nat |-> pow[n]]
    OBVIOUS
  <2>. QED BY <2>1, <2>2
<1>6. equation(PowersOf(b))
  BY <1>5 DEF PowersOf
<1>. DEFINE p == PowersOf(b)
<1>7. p = [n \in Nat |-> IF n = 0 THEN 1 % N ELSE (b * p[n - 1]) % N]
  BY <1>6
<1>. HIDE DEF p
<1>8. p[0] = 1 % N
  BY <1>7
<1>9. ASSUME NEW n \in Nat PROVE p[n + 1] = (b * p[n]) % N
  <2>1. n + 1 \in Nat /\ n + 1 # 0 /\ (n + 1) - 1 = n
    OBVIOUS
  <2>. QED BY <1>7, <2>1
<1>10. ASSUME NEW n \in Nat PROVE p[n] \in 0 .. N - 1
  <2>. DEFINE T == {m \in Nat : p[m] \in 0 .. N - 1}
  <2>1. 0 \in T
    BY <1>8, Remainders
  <2>2. ASSUME NEW m \in T PROVE m + 1 \in T
    <3>1. b * p[m] \in Int /\ m \in Nat
      BY <2>2, GroupAssumption
    <3>2. (b * p[m]) % N \in 0 .. N - 1
      BY <3>1, Remainders
    <3>. QED BY <1>9, <3>1, <3>2
  <2>3. T = Nat
    <3>. HIDE DEF T
    <3>1. T \subseteq Nat
      BY DEF T
    <3>. QED BY <2>1, <2>2, <3>1, NatAll
  <2>. QED BY <2>3
<1>11. p = [n \in Nat |-> p[n]]
  BY <1>7
<1>12. p \in [Nat -> 0 .. N - 1]
  BY <1>10, <1>11
<1>. QED BY <1>8, <1>9, <1>12 DEF p

(***************************************************************************)
(* The laws of powers that the exchange relies on.                         *)
(***************************************************************************)
LEMMA PowersAdd ==
  ASSUME NEW b \in Int, NEW m \in Nat, NEW n \in Nat
  PROVE  PowersOf(b)[m + n] = (PowersOf(b)[m] * PowersOf(b)[n]) % N
<1>. USE GroupAssumption
<1>. DEFINE p == PowersOf(b)
            T == {k \in Nat : p[m + k] = (p[m] * p[k]) % N}
<1>1. p[0] = 1 % N /\ (\A k \in Nat : p[k] \in 0 .. N - 1 /\ p[k + 1] = (b * p[k]) % N)
  BY PowersStep
<1>. HIDE DEF p
<1>2. 0 \in T
  <2>1. (p[m] * p[0]) % N = ((1 % N) * p[m]) % N
    BY <1>1
  <2>2. ((1 % N) * p[m]) % N = (1 * p[m]) % N
    <3>1. p[m] \in Int /\ 1 \in Int
      BY <1>1
    <3>2. \A x, y \in Int : ((x % N) * y) % N = (x * y) % N
      BY ReducedTwice
    <3>. QED BY <3>1, <3>2, Zenon
  <2>3. p[m] % N = p[m]
    BY <1>1, Remainders
  <2>4. 1 * p[m] = p[m] /\ m + 0 = m
    BY <1>1
  <2>. QED BY <2>1, <2>2, <2>3, <2>4
<1>3. ASSUME NEW k \in T PROVE k + 1 \in T
  <2>1. k \in Nat /\ p[m + k] = (p[m] * p[k]) % N
    OBVIOUS
  <2>2. p[m] \in Int /\ p[k] \in Int /\ p[m] * p[k] \in Int /\ b * p[k] \in Int
    BY <1>1, <2>1
  <2>3. p[m + (k + 1)] = (b * p[m + k]) % N
    <3>1. m + k \in Nat /\ m + (k + 1) = (m + k) + 1
      BY <2>1
    <3>. QED BY <1>1, <3>1
  <2>4. (b * p[m + k]) % N = (((p[m] * p[k]) % N) * b) % N
    <3>1. p[m + k] \in Int
      BY <1>1, <2>1
    <3>. QED BY <2>1, <3>1
  <2>5. (((p[m] * p[k]) % N) * b) % N = ((p[m] * p[k]) * b) % N
    BY <2>2, ReducedTwice
  <2>6. (p[m] * p[k]) * b = (b * p[k]) * p[m]
    BY <2>2
  <2>7. ((b * p[k]) * p[m]) % N = (((b * p[k]) % N) * p[m]) % N
    BY <2>2, ReducedTwice
  <2>8. (((b * p[k]) % N) * p[m]) % N = (p[m] * p[k + 1]) % N
    <3>1. p[k + 1] = (b * p[k]) % N /\ p[k + 1] \in Int
      BY <1>1, <2>1
    <3>. QED BY <2>2, <3>1
  <2>. QED BY <2>1, <2>3, <2>4, <2>5, <2>6, <2>7, <2>8
<1>4. T = Nat
  <2>. HIDE DEF T
  <2>1. T \subseteq Nat
    BY DEF T
  <2>. QED BY <1>2, <1>3, <2>1, NatAll
<1>. QED BY <1>4 DEF p

LEMMA PowersMultiply ==
  ASSUME NEW b \in Int, NEW m \in Nat, NEW n \in Nat
  PROVE  PowersOf(PowersOf(b)[m])[n] = PowersOf(b)[m * n]
<1>. USE GroupAssumption
<1>. DEFINE p == PowersOf(b)
            q == PowersOf(p[m])
            T == {k \in Nat : q[k] = p[m * k]}
<1>1. p[0] = 1 % N /\ (\A k \in Nat : p[k] \in 0 .. N - 1)
  BY PowersStep
<1>2. p[m] \in Int
  BY <1>1
<1>3. q[0] = 1 % N /\ (\A k \in Nat : q[k + 1] = (p[m] * q[k]) % N)
  <2>. HIDE DEF p
  <2>. QED BY <1>2, PowersStep
<1>4. \A k, l \in Nat : p[k + l] = (p[k] * p[l]) % N
  BY PowersAdd
<1>. HIDE DEF p, q
<1>5. 0 \in T
  BY <1>1, <1>3
<1>6. ASSUME NEW k \in T PROVE k + 1 \in T
  <2>1. k \in Nat /\ q[k] = p[m * k] /\ m * k \in Nat
    OBVIOUS
  <2>2. q[k + 1] = (p[m] * p[m * k]) % N
    BY <1>3, <2>1
  <2>3. p[m + m * k] = (p[m] * p[m * k]) % N
    BY <1>4, <2>1
  <2>4. m + m * k = m * (k + 1)
    BY <2>1
  <2>. QED BY <2>1, <2>2, <2>3, <2>4
<1>7. T = Nat
  <2>. HIDE DEF T
  <2>1. T \subseteq Nat
    BY DEF T
  <2>. QED BY <1>5, <1>6, <2>1, NatAll
<1>. QED BY <1>7 DEF p, q

\* A power of a number is that of its remainder.
LEMMA PowersReduced ==
  ASSUME NEW b \in Int, NEW n \in Nat
  PROVE  PowersOf(b % N)[n] = PowersOf(b)[n]
<1>. USE GroupAssumption
<1>. DEFINE p == PowersOf(b)
            q == PowersOf(b % N)
            T == {k \in Nat : q[k] = p[k]}
<1>1. b % N \in Int
  BY Remainders
<1>2. p[0] = 1 % N /\ (\A k \in Nat : p[k] \in 0 .. N - 1 /\ p[k + 1] = (b * p[k]) % N)
  BY PowersStep
<1>3. q[0] = 1 % N /\ (\A k \in Nat : q[k + 1] = ((b % N) * q[k]) % N)
  BY <1>1, PowersStep
<1>. HIDE DEF p, q
<1>4. 0 \in T
  BY <1>2, <1>3
<1>5. ASSUME NEW k \in T PROVE k + 1 \in T
  <2>1. k \in Nat /\ q[k] = p[k] /\ p[k] \in Int
    BY <1>2
  <2>2. ((b % N) * p[k]) % N = (b * p[k]) % N
    BY <2>1, ReducedTwice
  <2>. QED BY <1>2, <1>3, <2>1, <2>2
<1>6. T = Nat
  <2>. HIDE DEF T
  <2>1. T \subseteq Nat
    BY DEF T
  <2>. QED BY <1>4, <1>5, <2>1, NatAll
<1>. QED BY <1>6 DEF p, q

\* The model's powers are these.
LEMMA PowModIsPower == \A b, e : Proof!PowMod(b, e) = PowersOf(b)[e]
BY DEF Proof!PowMod, PowersOf

Agree(k, x, u, a, b) ==
  PowersOf((((k * PowersOf(G)[x] + PowersOf(G)[b]) % N) - k * PowersOf(G)[x]) % N)[a + u * x]
    = PowersOf((PowersOf(G)[a] * PowersOf(PowersOf(G)[x])[u]) % N)[b]

\* The client and Cognito, who know the same password, arrive at the same secret,
\* whatever the two have drawn (_process_challenge).
LEMMA SecretsAgree ==
  ASSUME NEW k \in Nat, NEW x \in Nat, NEW u \in Nat, NEW a \in Nat, NEW b \in Nat
  PROVE  Agree(k, x, u, a, b)
<1>. USE GroupAssumption
<1>. DEFINE p == PowersOf(G)
            v == p[x]
            big_b == (k * v + p[b]) % N
<1>1. \A n \in Nat : p[n] \in 0 .. N - 1
  <2>1. G \in Int
    OBVIOUS
  <2>2. p \in [Nat -> 0 .. N - 1]
    BY <2>1, PowersStep
  <2>. HIDE DEF p
  <2>. QED BY <2>2
<1>2. \A m, n \in Nat : p[m + n] = (p[m] * p[n]) % N /\ PowersOf(p[m])[n] = p[m * n]
  BY PowersAdd, PowersMultiply
<1>. HIDE DEF p
<1>3. (big_b - k * v) % N = p[b]
  <2>1. k * v \in Int /\ p[b] \in Int /\ k * v + p[b] \in Int /\ -(k * v) \in Int
    BY <1>1
  <2>2. (big_b + (-(k * v))) % N = ((k * v + p[b]) + (-(k * v))) % N
    <3>. HIDE DEF v
    <3>. QED BY <2>1, ReducedTwice
  <2>3. big_b \in Int
    BY <2>1, Remainders
  <2>4. big_b + (-(k * v)) = big_b - k * v /\ (k * v + p[b]) + (-(k * v)) = p[b]
    <3>. HIDE DEF big_b
    <3>. QED BY <2>1, <2>3
  <2>5. p[b] % N = p[b]
    BY <1>1, Remainders
  <2>. QED BY <2>2, <2>4, <2>5
<1>4. a + u * x \in Nat /\ x * u \in Nat /\ a + x * u \in Nat /\ u * x = x * u
  OBVIOUS
<1>5. PowersOf(p[b])[a + u * x] = p[b * (a + u * x)]
  BY <1>2, <1>4
<1>6. (p[a] * PowersOf(v)[u]) % N = p[a + x * u]
  BY <1>2, <1>4
<1>7. PowersOf(p[a + x * u])[b] = p[(a + x * u) * b]
  BY <1>2, <1>4
<1>8. b * (a + u * x) = (a + x * u) * b
  BY <1>4
<1>9. PowersOf((big_b - k * v) % N)[a + u * x] = PowersOf((p[a] * PowersOf(v)[u]) % N)[b]
  BY <1>3, <1>5, <1>6, <1>7, <1>8
<1>. QED BY <1>9 DEF p, Agree

(***************************************************************************)
(* How calls end, and the sign-in with them.                               *)
(***************************************************************************)

\* An error's name is the last part of its type, however it is spelt
\* (_error_type).
LEMMA ErrorNamed ==
  ASSUME NEW prefix \in Namespaces, NEW name
  PROVE  Proof!_error_type(Append(prefix, name)) = {name}
<1>. DEFINE type == Append(prefix, name)
<1>1. prefix \in Seq({"com.amazon.coral.service"})
  <2>1. CASE prefix = <<>>
    BY <2>1
  <2>2. CASE prefix = <<"com.amazon.coral.service">>
    BY <2>2
  <2>. QED BY <2>1, <2>2 DEF Namespaces
<1>2. type[Len(type)] = name /\ type # <<>>
  BY <1>1
<1>. QED BY <1>2 DEF Proof!_error_type, Proof!Last

\* Only an error of the user's fails a call for good (_cognito_call).
LEMMA CallsEnd ==
  /\ \A challenge, result, salt, big_b : Proof!_cognito_call(Answers(challenge, result, salt, big_b)) = {}
  /\ \A prefix \in Namespaces :
       /\ Proof!_cognito_call(Error(400, Append(prefix, "UserNotFoundException"))) = {"rejected"}
       /\ Proof!_cognito_call(Error(400, Append(prefix, "NotAuthorizedException"))) = {"rejected"}
       /\ Proof!_cognito_call(Error(400, Append(prefix, "TooManyRequestsException"))) = {"failed"}
       /\ Proof!_cognito_call(Error(500, Append(prefix, "InternalErrorException"))) = {"failed"}
  /\ Proof!_cognito_call(Error(502, <<>>)) = {"failed"}
<1>1. \A challenge, result, salt, big_b : Proof!_cognito_call(Answers(challenge, result, salt, big_b)) = {}
  BY DEF Proof!_cognito_call, Answers
<1>2. ASSUME NEW prefix \in Namespaces, NEW status \in {400, 500}, NEW name
      PROVE  Proof!_cognito_call(Error(status, Append(prefix, name)))
               = IF name \in Proof!TERMINAL_COGNITO_ERRORS THEN {"rejected"} ELSE {"failed"}
  <2>. DEFINE resp == Error(status, Append(prefix, name))
  <2>1. resp.status # 200 /\ resp.type = Append(prefix, name)
    BY DEF Error
  <2>. HIDE DEF resp
  <2>2. Proof!_error_type(resp.type) = {name}
    <3>1. Proof!_error_type(Append(prefix, name)) = {name}
      BY ErrorNamed
    <3>. QED BY <2>1, <3>1, Zenon
  <2>3. ({name} \cap Proof!TERMINAL_COGNITO_ERRORS # {}) <=> name \in Proof!TERMINAL_COGNITO_ERRORS
    OBVIOUS
  <2>4. Proof!_cognito_call(resp) = IF name \in Proof!TERMINAL_COGNITO_ERRORS THEN {"rejected"} ELSE {"failed"}
    BY <2>1, <2>2, <2>3 DEF Proof!_cognito_call
  <2>. QED BY <2>4 DEF resp
<1>3. /\ {"UserNotFoundException", "NotAuthorizedException"} \subseteq Proof!TERMINAL_COGNITO_ERRORS
      /\ "TooManyRequestsException" \notin Proof!TERMINAL_COGNITO_ERRORS
      /\ "InternalErrorException" \notin Proof!TERMINAL_COGNITO_ERRORS
  BY DEF Proof!TERMINAL_COGNITO_ERRORS
<1>4. Proof!_cognito_call(Error(502, <<>>)) = {"failed"}
  BY DEF Proof!_cognito_call, Error, Proof!_error_type
<1>. QED BY <1>1, <1>2, <1>3, <1>4

\* The only element of a set is the one that is chosen of it.
LEMMA OnlyOne == \A x : (CHOOSE y \in {x} : TRUE) = x
OBVIOUS

\* A challenge that is answered has one answer, with Cognito's secret if the
\* password is Cognito's too (_process_challenge).
LEMMA ChallengeAnswered ==
  ASSUME NEW a \in 0 .. N - 1, NEW b \in 0 .. N - 1, NEW salt \in Salts, NEW registered \in Passwords,
         NEW typed \in Passwords
  PROVE  LET verifier == Verifier(salt, registered)
             big_b == BigB(verifier, b)
             u == Scrambler(a, big_b)
             proof == Proof!_process_challenge(typed, salt, big_b, a)
             cognito == [secret |-> CognitoSecret(verifier, a, u, b), scrambler |-> u]
         IN  /\ big_b = 0 \/ u = 0 => proof = {}
             /\ big_b # 0 /\ u # 0 => \E p \in [secret : 0 .. N - 1, scrambler : Nat] :
                                        /\ proof = {p}
                                        /\ typed = registered => p = cognito
<1>. USE GroupAssumption
<1>. DEFINE v == Verifier(salt, registered)
            big_b == BigB(v, b)
            u == Scrambler(a, big_b)
            proof == Proof!_process_challenge(typed, salt, big_b, a)
            secret == CognitoSecret(v, a, u, b)
            k == Hash(N, G)
            x == Hash(salt, typed)
            base == (big_b - k * Proof!PowMod(G, x)) % N
            p == [secret |-> Proof!PowMod(base, a + u * x), scrambler |-> u]
<1>1. G \in Int /\ (\A n \in Nat : PowersOf(G)[n] \in 0 .. N - 1)
  <2>1. G \in Int
    OBVIOUS
  <2>. QED BY <2>1, PowersStep
<1>2. k \in Nat /\ x \in Nat /\ Hash(salt, registered) \in Nat
  <2>1. <<N, G>> \in Hashed /\ <<salt, typed>> \in Hashed /\ <<salt, registered>> \in Hashed
    BY DEF Hashed
  <2>. QED BY <2>1
<1>3. v = PowersOf(G)[Hash(salt, registered)]
  BY PowModIsPower DEF Verifier
<1>4. big_b = (k * v + PowersOf(G)[b]) % N
  BY PowModIsPower DEF BigB
<1>. HIDE DEF x, k
<1>5. big_b \in 0 .. N - 1
  <2>1. v \in Int /\ PowersOf(G)[b] \in Int /\ k * v + PowersOf(G)[b] \in Int
    <3>1. v \in Int /\ PowersOf(G)[b] \in Int
      BY <1>1, <1>2, <1>3
    <3>. HIDE DEF v
    <3>. QED BY <1>2, <3>1
  <2>. QED BY <1>4, <2>1, Remainders
<1>6. u \in Nat
  <2>1. Proof!PowMod(G, a) \in 0 .. N - 1
    BY <1>1, PowModIsPower
  <2>2. <<Proof!PowMod(G, a), big_b>> \in Hashed
    <3>. HIDE DEF big_b
    <3>. QED BY <1>5, <2>1 DEF Hashed
  <2>. HIDE DEF big_b
  <2>3. \A pair \in Hashed : Hash(pair[1], pair[2]) \in Nat
    OBVIOUS
  <2>. QED BY <2>2, <2>3 DEF Scrambler
<1>7. big_b % N = big_b
  BY <1>5, Remainders
<1>8. proof = IF big_b % N = 0 \/ u = 0 THEN {} ELSE {p}
  BY DEF Proof!_process_challenge, Proof!_k, Scrambler, k, x
<1>. HIDE DEF proof, u, big_b, v, secret
<1>9. base \in Int /\ a + u * x \in Nat
  <2>1. Proof!PowMod(G, x) \in Int
    BY <1>1, <1>2, PowModIsPower
  <2>2. big_b - k * Proof!PowMod(G, x) \in Int
    BY <1>2, <1>5, <2>1
  <2>3. base \in Int
    BY <2>2, Remainders
  <2>. QED BY <1>2, <1>6, <2>3
<1>10. p \in [secret : 0 .. N - 1, scrambler : Nat]
  <2>. HIDE DEF base
  <2>1. Proof!PowMod(base, a + u * x) \in 0 .. N - 1
    BY <1>9, PowModIsPower, PowersStep
  <2>. QED BY <1>6, <2>1
<1>11. ASSUME typed = registered PROVE p = [secret |-> secret, scrambler |-> u]
  <2>1. v = PowersOf(G)[x]
    BY <1>3, <1>11 DEF x
  <2>2. /\ Proof!PowMod(base, a + u * x) = PowersOf((big_b - k * PowersOf(G)[x]) % N)[a + u * x]
        /\ secret = PowersOf((PowersOf(G)[a] * PowersOf(v)[u]) % N)[b]
    BY PowModIsPower DEF secret, CognitoSecret
  <2>3. PowersOf((((k * PowersOf(G)[x] + PowersOf(G)[b]) % N) - k * PowersOf(G)[x]) % N)[a + u * x]
          = PowersOf((PowersOf(G)[a] * PowersOf(PowersOf(G)[x])[u]) % N)[b]
    <3>1. a \in Nat /\ b \in Nat
      OBVIOUS
    <3>2. k \in Nat /\ x \in Nat /\ u \in Nat
      BY <1>2, <1>6
    <3>3. Agree(k, x, u, a, b)
      BY <3>1, <3>2, SecretsAgree
    <3>. QED BY <3>3 DEF Agree
  <2>4. Proof!PowMod(base, a + u * x) = secret
    BY <1>4, <2>1, <2>2, <2>3
  <2>. QED BY <2>4
<1>. HIDE DEF p
<1>12. (big_b = 0 \/ u = 0) => proof = {}
  BY <1>7, <1>8
<1>13. (big_b # 0 /\ u # 0) => proof = {p}
  BY <1>7, <1>8
<1>. QED BY <1>10, <1>11, <1>12, <1>13 DEF proof, u, big_b, v, secret

EndsAs(first, respond, proof, ends) ==
  /\ \A r : Proof!_cognito_call(first) = {r} => ends = r
  /\ Proof!_cognito_call(first) = {} /\ (first.challenge # "PASSWORD_VERIFIER" \/ proof = {}) => ends = "failed"
  /\ \A p : Proof!_cognito_call(first) = {} /\ first.challenge = "PASSWORD_VERIFIER" /\ proof = {p} =>
       /\ \A r : Proof!_cognito_call(respond[p]) = {r} => ends = r
       /\ Proof!_cognito_call(respond[p]) = {} => ends = Proof!_tokens_from_result(respond[p].result)

\* What a sign-in ends with (authenticate).
LEMMA Ended ==
  ASSUME NEW first, NEW respond, NEW password, NEW a
  PROVE  EndsAs(first, respond, Proof!_process_challenge(password, first.salt, first.big_b, a),
                Proof!authenticate(first, respond, password, a))
<1>. DEFINE proof == Proof!_process_challenge(password, first.salt, first.big_b, a)
            one == CHOOSE p \in proof : TRUE
            ends == Proof!authenticate(first, respond, password, a)
<1>1. ends = IF Proof!_cognito_call(first) # {} THEN CHOOSE r \in Proof!_cognito_call(first) : TRUE
             ELSE IF first.challenge # "PASSWORD_VERIFIER" \/ proof = {} THEN "failed"
             ELSE IF Proof!_cognito_call(respond[one]) # {} THEN CHOOSE r \in Proof!_cognito_call(respond[one]) : TRUE
             ELSE Proof!_tokens_from_result(respond[one].result)
  BY DEF Proof!authenticate
<1>2. \A x : {x} # {}
  OBVIOUS
<1>3. ASSUME NEW p, proof = {p} PROVE one = p
  BY <1>3, OnlyOne
<1>. HIDE DEF proof, one, ends
<1>4. ASSUME NEW r, Proof!_cognito_call(first) = {r} PROVE ends = r
  BY <1>1, <1>2, <1>4, OnlyOne
<1>5. ASSUME Proof!_cognito_call(first) = {}, first.challenge # "PASSWORD_VERIFIER" \/ proof = {}
      PROVE  ends = "failed"
  BY <1>1, <1>5
<1>6. ASSUME NEW p, Proof!_cognito_call(first) = {}, first.challenge = "PASSWORD_VERIFIER", proof = {p}
      PROVE  /\ \A r : Proof!_cognito_call(respond[p]) = {r} => ends = r
             /\ Proof!_cognito_call(respond[p]) = {} => ends = Proof!_tokens_from_result(respond[p].result)
  <2>1. one = p /\ proof # {}
    BY <1>2, <1>3, <1>6
  <2>2. ends = IF Proof!_cognito_call(respond[p]) # {} THEN CHOOSE r \in Proof!_cognito_call(respond[p]) : TRUE
               ELSE Proof!_tokens_from_result(respond[p].result)
    BY <1>1, <1>6, <2>1
  <2>3. ASSUME NEW r, Proof!_cognito_call(respond[p]) = {r} PROVE ends = r
    BY <1>2, <2>2, <2>3, OnlyOne
  <2>4. ASSUME Proof!_cognito_call(respond[p]) = {}
        PROVE  ends = Proof!_tokens_from_result(respond[p].result)
    BY <2>2, <2>4
  <2>. QED BY <2>3, <2>4
<1>. QED BY <1>4, <1>5, <1>6 DEF proof, ends, EndsAs

LEMMA SignInSound == OnSignIn => PasswordIsJudged'
<1>. SUFFICES ASSUME OnSignIn PROVE PasswordIsJudged'
  OBVIOUS
<1>1. PICK a \in Proof!_generate_a, b \in 0 .. N - 1, salt \in Salts, registered \in Passwords,
           typed \in Passwords, mode \in SignInModes, prefix \in Namespaces :
        LET verifier == Verifier(salt, registered)
            big_b == BigB(verifier, b)
            u == Scrambler(a, big_b)
            respond == [proof \in [secret : 0 .. N - 1, scrambler : Nat] |->
                          Verdict(mode, prefix,
                                  proof = [secret |-> CognitoSecret(verifier, a, u, b), scrambler |-> u])]
        IN  Handled([right |-> typed = registered, mode |-> mode, usable |-> big_b # 0 /\ u # 0],
                    Proof!authenticate(Opening(mode, prefix, salt, big_b), respond, typed, a))
  BY DEF OnSignIn
<1>. DEFINE verifier == Verifier(salt, registered)
            big_b == BigB(verifier, b)
            u == Scrambler(a, big_b)
            cognito == [secret |-> CognitoSecret(verifier, a, u, b), scrambler |-> u]
            respond == [proof \in [secret : 0 .. N - 1, scrambler : Nat] |-> Verdict(mode, prefix, proof = cognito)]
            first == Opening(mode, prefix, salt, big_b)
            ends == Proof!authenticate(first, respond, typed, a)
            proof == Proof!_process_challenge(typed, first.salt, first.big_b, a)
<1>2. /\ given' = [right |-> typed = registered, mode |-> mode, usable |-> big_b # 0 /\ u # 0]
      /\ got' = ends
  BY <1>1 DEF Handled
<1>3. a \in 0 .. N - 1
  BY DEF Proof!_generate_a
<1>4. /\ big_b = 0 \/ u = 0 => Proof!_process_challenge(typed, salt, big_b, a) = {}
      /\ big_b # 0 /\ u # 0 => \E p \in [secret : 0 .. N - 1, scrambler : Nat] :
                                 /\ Proof!_process_challenge(typed, salt, big_b, a) = {p}
                                 /\ typed = registered => p = cognito
  BY <1>3, ChallengeAnswered
<1>5. /\ \A r : Proof!_cognito_call(first) = {r} => ends = r
      /\ Proof!_cognito_call(first) = {} /\ (first.challenge # "PASSWORD_VERIFIER" \/ proof = {}) =>
           ends = "failed"
      /\ \A p : Proof!_cognito_call(first) = {} /\ first.challenge = "PASSWORD_VERIFIER" /\ proof = {p} =>
           /\ \A r : Proof!_cognito_call(respond[p]) = {r} => ends = r
           /\ Proof!_cognito_call(respond[p]) = {} => ends = Proof!_tokens_from_result(respond[p].result)
  <2>1. EndsAs(first, respond, proof, ends)
    <3>. HIDE DEF first, respond
    <3>. QED BY Ended
  <2>. HIDE DEF first, respond, proof, ends
  <2>. QED BY <2>1 DEF EndsAs
<1>6. \A p \in [secret : 0 .. N - 1, scrambler : Nat] : respond[p] = Verdict(mode, prefix, p = cognito)
  OBVIOUS
<1>10. /\ \A challenge, result, s, big : Proof!_cognito_call(Answers(challenge, result, s, big)) = {}
       /\ Proof!_cognito_call(Error(400, Append(prefix, "UserNotFoundException"))) = {"rejected"}
       /\ Proof!_cognito_call(Error(400, Append(prefix, "NotAuthorizedException"))) = {"rejected"}
       /\ Proof!_cognito_call(Error(400, Append(prefix, "TooManyRequestsException"))) = {"failed"}
       /\ Proof!_cognito_call(Error(500, Append(prefix, "InternalErrorException"))) = {"failed"}
       /\ Proof!_cognito_call(Error(502, <<>>)) = {"failed"}
  BY CallsEnd
<1>. HIDE DEF respond, ends, cognito
<1>. DEFINE right == typed = registered
            usable == big_b # 0 /\ u # 0
<1>7. CASE mode \in {"nobody", "throttled", "down"}
  <2>1. CASE mode = "nobody"
    <3>1. first = Error(400, Append(prefix, "UserNotFoundException"))
      BY <2>1 DEF Opening
    <3>2. ends = "rejected"
      BY <1>5, <1>10, <3>1
    <3>. QED BY <1>2, <2>1, <3>2 DEF PasswordIsJudged
  <2>2. CASE mode # "nobody"
    <3>1. first = Error(400, Append(prefix, "TooManyRequestsException")) \/ first = Error(502, <<>>)
      BY <1>7, <2>2 DEF Opening
    <3>. HIDE DEF first
    <3>2. ends = "failed"
      BY <1>5, <1>10, <3>1
    <3>. QED BY <1>2, <1>7, <2>2, <3>2 DEF PasswordIsJudged
  <2>. QED BY <2>1, <2>2
<1>8. CASE mode = "device"
  <2>1. first = Answers("DEVICE_SRP_AUTH", {}, salt, big_b)
    BY <1>8 DEF Opening
  <2>2. Proof!_cognito_call(first) = {} /\ first.challenge # "PASSWORD_VERIFIER"
    BY <1>10, <2>1 DEF Answers
  <2>3. ends = "failed"
    BY <1>5, <2>2
  <2>. QED BY <1>2, <1>8, <2>3 DEF PasswordIsJudged
<1>9. CASE mode \notin {"nobody", "throttled", "down", "device"}
  <2>1. first = Answers("PASSWORD_VERIFIER", {}, salt, big_b)
    BY <1>9 DEF Opening
  <2>2. Proof!_cognito_call(first) = {} /\ first.challenge = "PASSWORD_VERIFIER" /\ first.salt = salt /\ first.big_b = big_b
    BY <1>10, <2>1 DEF Answers
  <2>3. proof = Proof!_process_challenge(typed, salt, big_b, a)
    BY <2>2, Zenon
  <2>. HIDE DEF proof, first
  <2>4. CASE ~usable
    <3>1. ends = "failed"
      BY <1>4, <1>5, <2>2, <2>3, <2>4
    <3>. QED BY <1>2, <1>9, <2>4, <3>1 DEF PasswordIsJudged
  <2>5. CASE usable
    <3>1. PICK p \in [secret : 0 .. N - 1, scrambler : Nat] : proof = {p} /\ (right => p = cognito)
      BY <1>4, <2>3, <2>5
    <3>. DEFINE holds == p = cognito
                second == Verdict(mode, prefix, holds)
    <3>2. respond[p] = second
      BY <1>6
    <3>3. /\ \A r : Proof!_cognito_call(second) = {r} => ends = r
          /\ Proof!_cognito_call(second) = {} => ends = Proof!_tokens_from_result(second.result)
      <4>. HIDE DEF second
      <4>. QED BY <1>5, <2>2, <3>1, <3>2
    <3>. HIDE DEF holds
    <3>4. right => holds
      BY <3>1 DEF holds
    <3>5. CASE mode = "outage"
      <4>1. second = Error(500, Append(prefix, "InternalErrorException"))
        BY <3>5 DEF Verdict
      <4>. HIDE DEF second
      <4>2. ends = "failed"
        BY <3>3, <1>10, <4>1
      <4>. QED BY <1>2, <3>5, <4>2 DEF PasswordIsJudged
    <3>6. CASE mode # "outage" /\ ~holds
      <4>1. second = Error(400, Append(prefix, "NotAuthorizedException"))
        BY <3>6 DEF Verdict
      <4>. HIDE DEF second
      <4>2. ends = "rejected" /\ ~right
        BY <3>3, <3>4, <3>6, <1>10, <4>1
      <4>3. mode \in {"plain", "mfa", "incomplete"}
        BY <1>9, <3>6 DEF SignInModes
      <4>. QED BY <1>2, <1>9, <4>2, <4>3 DEF PasswordIsJudged
    <3>7. CASE mode \in {"mfa", "incomplete"} /\ holds
      <4>1. second = Answers("SMS_MFA", {}, 0, 0) \/ second = Answers("", {"AccessToken"}, 0, 0)
        BY <3>7 DEF Verdict
      <4>. HIDE DEF second
      <4>2. second.status = 200 /\ "IdToken" \notin second.result
        <5>1. CASE second = Answers("SMS_MFA", {}, 0, 0)
          BY <5>1 DEF Answers
        <5>2. CASE second = Answers("", {"AccessToken"}, 0, 0)
          BY <5>2 DEF Answers
        <5>. QED BY <4>1, <5>1, <5>2
      <4>3. Proof!_cognito_call(second) = {}
        BY <4>2 DEF Proof!_cognito_call
      <4>4. ends = "failed"
        BY <3>3, <4>2, <4>3 DEF Proof!_tokens_from_result
      <4>. QED BY <1>2, <3>7, <4>4 DEF PasswordIsJudged
    <3>8. CASE mode \notin {"outage", "mfa", "incomplete"} /\ holds
      <4>1. second = Answers("", {"AccessToken", "IdToken", "RefreshToken"}, 0, 0)
        BY <3>8 DEF Verdict
      <4>. HIDE DEF second
      <4>2. second.status = 200 /\ {"AccessToken", "IdToken"} \subseteq second.result
        BY <4>1 DEF Answers
      <4>3. Proof!_cognito_call(second) = {}
        BY <4>2 DEF Proof!_cognito_call
      <4>4. ends = "tokens"
        BY <3>3, <4>2, <4>3 DEF Proof!_tokens_from_result
      <4>5. mode = "plain"
        BY <1>9, <3>8 DEF SignInModes
      <4>. QED BY <1>2, <2>5, <4>4, <4>5 DEF PasswordIsJudged
    <3>. QED BY <3>5, <3>6, <3>7, <3>8
  <2>. QED BY <2>4, <2>5
<1>. QED BY <1>7, <1>8, <1>9

FromLast(p) == [i \in 1 .. Len(p) |-> p[Len(p) + 1 - i]]

\* A number is padded as it should be: to whole bytes that start with a low digit
\* and have the number's own digits at their end, after zeros.
Pads(p, d) ==
  /\ p \in Seq(0 .. 15) /\ Len(p) \in Nat /\ Len(p) >= Len(d) /\ Len(p) % 2 = 0 /\ p[1] < 8
  /\ \A i \in 1 .. Len(d) : p[(Len(p) - Len(d)) + i] = d[i]
  /\ \A i \in 1 .. Len(p) - Len(d) : p[i] = 0

LEMMA OneZero ==
  ASSUME NEW d \in Seq(0 .. 15), Len(d) % 2 = 1
  PROVE  Pads(<<0>> \o d, d)
<1>. DEFINE p == <<0>> \o d
            n == Len(d)
<1>1. p \in Seq(0 .. 15)
  OBVIOUS
<1>2. Len(p) = 1 + n /\ n \in Nat
  OBVIOUS
<1>3. p[1] = 0
  OBVIOUS
<1>4. \A i \in 1 .. n : p[1 + i] = d[i]
  OBVIOUS
<1>. HIDE DEF p
<1>5. n % 2 = 1
  OBVIOUS
<1>. HIDE DEF n
<1>6. (1 + n) % 2 = 0 /\ (1 + n) - n = 1 /\ 1 + n >= n /\ 1 + n \in Nat
  BY <1>2, <1>5
<1>7. \A i \in 1 .. 1 : p[i] = 0
  BY <1>3
<1>8. Pads(p, d)
  BY <1>1, <1>2, <1>3, <1>4, <1>6, <1>7 DEF Pads, n
<1>. QED BY <1>8 DEF p

LEMMA TwoZeros ==
  ASSUME NEW d \in Seq(0 .. 15), Len(d) % 2 # 1
  PROVE  Pads(<<0, 0>> \o d, d)
<1>. DEFINE p == <<0, 0>> \o d
            n == Len(d)
<1>1. p \in Seq(0 .. 15)
  OBVIOUS
<1>2. Len(p) = 2 + n /\ n \in Nat
  OBVIOUS
<1>3. p[1] = 0 /\ p[2] = 0
  OBVIOUS
<1>4. \A i \in 1 .. n : p[2 + i] = d[i]
  OBVIOUS
<1>. HIDE DEF p
<1>5. n % 2 # 1
  OBVIOUS
<1>. HIDE DEF n
<1>6. (2 + n) % 2 = 0 /\ (2 + n) - n = 2 /\ 2 + n >= n /\ 2 + n \in Nat
  BY <1>2, <1>5
<1>7. \A i \in 1 .. 2 : p[i] = 0
  <2>1. \A i \in 1 .. 2 : i = 1 \/ i = 2
    OBVIOUS
  <2>. QED BY <1>3, <2>1
<1>8. Pads(p, d)
  BY <1>1, <1>2, <1>3, <1>4, <1>6, <1>7 DEF Pads, n
<1>. QED BY <1>8 DEF p

LEMMA NoZeros ==
  ASSUME NEW d \in Seq(0 .. 15), Len(d) % 2 # 1, d[1] < 8
  PROVE  Pads(d, d)
<1>. DEFINE n == Len(d)
<1>1. n \in Nat /\ n % 2 # 1
  OBVIOUS
<1>. HIDE DEF n
<1>2. n % 2 = 0 /\ n - n = 0 /\ n >= n /\ \A i \in 1 .. n : 0 + i = i
  BY <1>1
<1>3. \A i \in 1 .. n : d[0 + i] = d[i]
  BY <1>2
<1>. QED BY <1>1, <1>2, <1>3 DEF Pads, n

\* Zeros in front of a number do not change it.
LEMMA PaddedIsNumber ==
  ASSUME NEW value \in Nat, NEW d, NEW n \in Nat \ {0}, Left(value, 16, n) = 0, Len(d) = n,
         \A i \in 1 .. n : d[i] = Digit(value, 16, n + 1 - i),
         NEW p, Pads(p, d)
  PROVE  value = NumberOf(FromLast(p), 16)
<1>. DEFINE l == Len(p)
<1>0. /\ l \in Nat /\ l >= n
      /\ \A i \in 1 .. n : p[(l - n) + i] = Digit(value, 16, n + 1 - i)
      /\ \A i \in 1 .. l - n : p[i] = 0
  BY DEF Pads
<1>. HIDE DEF l
<1>1. ASSUME NEW i \in 1 .. l PROVE p[l + 1 - i] = Digit(value, 16, i)
  <2>1. CASE i <= n
    <3>. DEFINE k == n + 1 - i
    <3>1. k \in 1 .. n /\ (l - n) + k = l + 1 - i /\ n + 1 - k = i
      BY <1>0, <2>1
    <3>2. p[(l - n) + k] = Digit(value, 16, n + 1 - k)
      BY <1>0, <3>1
    <3>. HIDE DEF k
    <3>. QED BY <3>1, <3>2
  <2>2. CASE i > n
    <3>1. i - 1 \in Nat /\ i - 1 >= n /\ l + 1 - i \in 1 .. l - n
      BY <1>0, <2>2
    <3>2. Left(value, 16, i - 1) = 0
      BY <3>1, LeftStays
    <3>3. Digit(value, 16, i) = 0
      BY <3>2 DEF Digit
    <3>. QED BY <1>0, <3>1, <3>3
  <2>. QED BY <1>0, <2>1, <2>2
<1>2. [i \in 1 .. l |-> p[l + 1 - i]] = [i \in 1 .. l |-> Digit(value, 16, i)]
  BY <1>1
<1>3. Left(value, 16, l) = 0
  BY <1>0, LeftStays
<1>4. NumberOf([i \in 1 .. l |-> Digit(value, 16, i)], 16) = value
  BY <1>0, <1>3, NumberOfDigits
<1>. QED BY <1>2, <1>4 DEF FromLast, l

\* The digits are the same wherever they are written.
LEMMA SameNumbers ==
  /\ \A v, b, i : Proof!Digit(v, b, i) = Digit(v, b, i)
  /\ \A v, b : Proof!DigitCount(v, b) = DigitCount(v, b)
<1>1. \A v, b, n : Proof!Left(v, b, n) = Left(v, b, n)
  BY DEF Proof!Left, Left
<1>2. \A v, b, i : Proof!Digit(v, b, i) = Digit(v, b, i)
  BY <1>1 DEF Proof!Digit, Digit
<1>3. \A v, b : Proof!DigitCount(v, b) = DigitCount(v, b)
  BY <1>1 DEF Proof!DigitCount, DigitCount
<1>. QED BY <1>2, <1>3

LEMMA HexDigits ==
  ASSUME NEW value \in Nat
  PROVE  LET n == DigitCount(value, 16)
             d == Proof!Hex(value)
         IN  /\ n \in Nat \ {0} /\ Left(value, 16, n) = 0 /\ d \in Seq(0 .. 15) /\ Len(d) = n
             /\ \A i \in 1 .. n : d[i] = Digit(value, 16, n + 1 - i)
<1>. DEFINE n == DigitCount(value, 16)
            d == Proof!Hex(value)
<1>1. n \in Nat \ {0} /\ Left(value, 16, n) = 0
  BY DigitsCounted
<1>2. ASSUME NEW i \in 1 .. n PROVE Digit(value, 16, n + 1 - i) \in 0 .. 15
  <2>1. (n + 1 - i) - 1 \in Nat
    BY <1>1
  <2>2. Left(value, 16, (n + 1 - i) - 1) \in Nat
    BY <2>1, LeftStep
  <2>. QED BY <2>2 DEF Digit
<1>3. d = [i \in 1 .. n |-> Digit(value, 16, n + 1 - i)]
  <2>1. Proof!DigitCount(value, 16) = n
    BY SameNumbers
  <2>. HIDE DEF n
  <2>. QED BY <2>1, SameNumbers DEF Proof!Hex
<1>. HIDE DEF n, d
<1>4. d \in Seq(0 .. 15) /\ Len(d) = n
  BY <1>1, <1>2, <1>3
<1>. QED BY <1>1, <1>3, <1>4 DEF n, d

\* Both sides hash the number that was meant (_pad_hex).
LEMMA PadSound == OnPad => PadIsUnsigned'
<1>. SUFFICES ASSUME OnPad PROVE PadIsUnsigned'
  OBVIOUS
<1>1. PICK value \in Numbers : Handled(value, Proof!_pad_hex(value))
  BY DEF OnPad
<1>. DEFINE n == DigitCount(value, 16)
            d == Proof!Hex(value)
            p == Proof!_pad_hex(value)
<1>2. value \in Nat /\ given' = value /\ got' = p
  BY <1>1, GroupAssumption DEF Handled
<1>3. /\ n \in Nat \ {0} /\ Left(value, 16, n) = 0 /\ d \in Seq(0 .. 15) /\ Len(d) = n
      /\ \A i \in 1 .. n : d[i] = Digit(value, 16, n + 1 - i)
  BY <1>2, HexDigits
<1>4. p = IF Len(d) % 2 = 1 THEN <<0>> \o d ELSE IF d[1] >= 8 THEN <<0, 0>> \o d ELSE d
  BY DEF Proof!_pad_hex
<1>. HIDE DEF d, p, n
<1>5. Pads(p, d)
  <2>1. CASE Len(d) % 2 = 1
    BY <1>3, <1>4, <2>1, OneZero
  <2>2. CASE Len(d) % 2 # 1 /\ d[1] >= 8
    BY <1>3, <1>4, <2>2, TwoZeros
  <2>3. CASE Len(d) % 2 # 1 /\ ~(d[1] >= 8)
    <3>1. d[1] \in 0 .. 15
      BY <1>3, SeqElements
    <3>2. d[1] < 8 /\ p = d
      BY <1>4, <2>3, <3>1
    <3>. QED BY <1>3, <2>3, <3>2, NoZeros
  <2>. QED BY <2>1, <2>2, <2>3
<1>6. value = NumberOf(FromLast(p), 16)
  BY <1>2, <1>3, <1>5, PaddedIsNumber
<1>. QED BY <1>2, <1>5, <1>6 DEF PadIsUnsigned, Pads, FromLast

\* The right password signs in, and only a refusal of Cognito's is told as bad
\* credentials, in every group, with every hash and whatever the two sides draw;
\* and every number that is hashed is padded to the bytes of that number
\* (authenticate, _process_challenge, _cognito_call, _pad_hex).
THEOREM SignInsAreJudged == SignInSpec => []SignInIsJudged
<1>1. Init => SignInIsJudged
  BY DEF Init, SignInIsJudged, PasswordIsJudged, PadIsUnsigned
<1>2. SignInIsJudged /\ [SignInNext \/ Rest \/ Elsewhere(SignInKinds)]_vars => SignInIsJudged'
  <2>. SUFFICES ASSUME SignInIsJudged, [SignInNext \/ Rest \/ Elsewhere(SignInKinds)]_vars
                PROVE  SignInIsJudged'
    OBVIOUS
  <2>1. CASE OnSignIn
    <3>1. kind' = "sign-in"
      BY <2>1 DEF OnSignIn, Comes, Handled
    <3>. QED BY <2>1, <3>1, SignInSound DEF SignInIsJudged, PadIsUnsigned
  <2>2. CASE OnPad
    <3>1. kind' = "pad"
      BY <2>2 DEF OnPad, Comes, Handled
    <3>. QED BY <2>2, <3>1, PadSound DEF SignInIsJudged, PasswordIsJudged
  <2>3. CASE Rest
    BY <2>3 DEF Rest, SignInIsJudged, PasswordIsJudged, PadIsUnsigned
  <2>4. CASE Elsewhere(SignInKinds)
    BY <2>4 DEF Elsewhere, SignInKinds, SignInIsJudged, PasswordIsJudged, PadIsUnsigned
  <2>5. CASE UNCHANGED vars
    BY <2>5 DEF vars, SignInIsJudged, PasswordIsJudged, PadIsUnsigned
  <2>. QED BY <2>1, <2>2, <2>3, <2>4, <2>5 DEF SignInNext
<1>. QED BY <1>1, <1>2, PTL DEF SignInSpec

(***************************************************************************)
(* Varints.                                                                *)
(***************************************************************************)
LEMMA SameDigits ==
  /\ \A v, b, n : Wire!Left(v, b, n) = Left(v, b, n)
  /\ \A v, b, i : Wire!Digit(v, b, i) = Digit(v, b, i)
  /\ \A v, b : Wire!DigitCount(v, b) = DigitCount(v, b)
  /\ \A d, b : Wire!NumberOf(d, b) = NumberOf(d, b)
<1>1. \A v, b, n : Wire!Left(v, b, n) = Left(v, b, n)
  BY DEF Wire!Left, Left
<1>2. \A v, b, i : Wire!Digit(v, b, i) = Digit(v, b, i)
  BY <1>1 DEF Wire!Digit, Digit
<1>3. \A v, b : Wire!DigitCount(v, b) = DigitCount(v, b)
  BY <1>1 DEF Wire!DigitCount, DigitCount
<1>4. \A d, b : Wire!NumberOf(d, b) = NumberOf(d, b)
  BY DEF Wire!NumberOf, NumberOf
<1>. QED BY <1>1, <1>2, <1>3, <1>4

\* Where w was written from pos on, as far as the buffer goes.
Matches(buf, pos, w) == \A j \in 1 .. Len(w) : pos + j - 1 <= Len(buf) => buf[pos + j - 1] = w[j]

LEMMA VarintWritten ==
  ASSUME NEW value \in Nat
  PROVE  LET w == Wire!write_varint(value)
             n == DigitCount(value, More)
         IN  /\ n \in Nat \ {0} /\ w \in Seq(Nat) /\ Len(w) = n
             /\ \A i \in 1 .. n : /\ Digit(value, More, i) \in 0 .. More - 1
                                  /\ w[i] % More = Digit(value, More, i)
                                  /\ i < n => w[i] >= More
                                  /\ i = n => w[i] < More
<1>. USE WireAssumption
<1>. DEFINE w == Wire!write_varint(value)
            n == DigitCount(value, More)
            d(i) == Digit(value, More, i)
<1>1. n \in Nat \ {0}
  BY DigitsCounted
<1>2. w = [i \in 1 .. n |-> d(i) + (IF i < n THEN More ELSE 0)]
  BY SameDigits DEF Wire!write_varint
<1>. HIDE DEF w, n
<1>3. \A i \in 1 .. n : d(i) \in 0 .. More - 1
  <2>1. ASSUME NEW i \in 1 .. n PROVE d(i) \in 0 .. More - 1
    <3>1. i - 1 \in Nat
      BY <1>1
    <3>2. Left(value, More, i - 1) \in Nat
      BY <3>1, LeftStep
    <3>. QED BY <3>2, Quotients DEF Digit
  <2>. QED BY <2>1
<1>. HIDE DEF d
<1>4. w \in Seq(Nat) /\ Len(w) = n
  <2>1. \A i \in 1 .. n : d(i) + (IF i < n THEN More ELSE 0) \in Nat
    BY <1>3
  <2>. QED BY <1>1, <1>2, <2>1
<1>5. ASSUME NEW i \in 1 .. n PROVE w[i] % More = d(i) /\ (i < n => w[i] >= More) /\ (i = n => w[i] < More)
  <2>1. d(i) \in 0 .. More - 1 /\ w[i] = d(i) + (IF i < n THEN More ELSE 0)
    BY <1>2, <1>3
  <2>2. d(i) + More * 0 = d(i) /\ d(i) + More * 1 = d(i) + More
    BY <2>1
  <2>4. (d(i) + More * 0) % More = d(i)
    BY <2>1, Quotients
  <2>5. (d(i) + More * 1) % More = d(i)
    BY <2>1, Quotients
  <2>3. d(i) % More = d(i) /\ (d(i) + More) % More = d(i)
    BY <2>2, <2>4, <2>5
  <2>. QED BY <1>1, <2>1, <2>3
<1>. QED BY <1>1, <1>3, <1>4, <1>5 DEF w, n, d

\* The bytes that end a varint at pos.
LastBytes(buf, pos) ==
  {k \in pos .. Len(buf) : buf[k] < More /\ (\A j \in pos .. k - 1 : buf[j] >= More) /\ k - pos < WordGroups}
ValueUpTo(buf, pos, e) == NumberOf([i \in 1 .. e + 1 - pos |-> buf[pos + i - 1] % More], More)

LEMMA VarintRead ==
  \A buf, pos : Wire!read_varint(buf, pos) =
                  {[value |-> ValueUpTo(buf, pos, e), next |-> e + 1] : e \in LastBytes(buf, pos)}
  BY SameDigits DEF Wire!read_varint, LastBytes, ValueUpTo

\* What was written as a varint is read back, or cut off.
LEMMA VarintReadBack ==
  ASSUME NEW buf \in Seq(Nat), NEW pos \in Nat \ {0}, NEW value \in Nat, Fits(value),
         Matches(buf, pos, Wire!write_varint(value))
  PROVE  LET n == DigitCount(value, More)
         IN  /\ n \in Nat \ {0} /\ Len(Wire!write_varint(value)) = n
             /\ pos + n - 1 <= Len(buf) => Wire!read_varint(buf, pos) = {[value |-> value, next |-> pos + n]}
             /\ pos + n - 1 > Len(buf) => Wire!read_varint(buf, pos) = {}
<1>. USE WireAssumption
<1>. DEFINE w == Wire!write_varint(value)
            n == DigitCount(value, More)
<1>1. /\ n \in Nat \ {0} /\ w \in Seq(Nat) /\ Len(w) = n
      /\ \A i \in 1 .. n : /\ Digit(value, More, i) \in 0 .. More - 1
                           /\ w[i] % More = Digit(value, More, i)
                           /\ i < n => w[i] >= More
                           /\ i = n => w[i] < More
  BY VarintWritten
<1>2. n <= WordGroups
  BY DEF Fits
<1>3. \A j \in 1 .. n : pos + j - 1 <= Len(buf) => buf[pos + j - 1] = w[j]
  BY <1>1 DEF Matches
<1>11. \A i \in 1 .. n : w[i] \in Nat
  <2>. HIDE DEF w, n
  <2>. QED BY <1>1, SeqElements
<1>10. Left(value, More, n) = 0
  BY DigitsCounted
<1>. HIDE DEF w, n
<1>4. \A k \in pos .. Len(buf) : k - pos < n => buf[k] = w[k - pos + 1]
  <2>1. ASSUME NEW k \in pos .. Len(buf), k - pos < n PROVE buf[k] = w[k - pos + 1]
    <3>1. k - pos + 1 \in 1 .. n /\ pos + (k - pos + 1) - 1 = k
      BY <1>1, <2>1
    <3>2. pos + (k - pos + 1) - 1 <= Len(buf)
      BY <3>1
    <3>3. buf[pos + (k - pos + 1) - 1] = w[k - pos + 1]
      BY <1>3, <3>1, <3>2
    <3>. QED BY <3>1, <3>3
  <2>. QED BY <2>1
<1>5. ASSUME NEW k \in LastBytes(buf, pos) PROVE k = pos + n - 1
  <2>1. /\ k \in pos .. Len(buf) /\ buf[k] < More
        /\ \A j \in pos .. k - 1 : buf[j] >= More
    BY DEF LastBytes
  <2>2. CASE k - pos < n - 1
    <3>. DEFINE i == k - pos + 1
    <3>1. i \in 1 .. n /\ i < n /\ k - pos < n
      BY <1>1, <2>1, <2>2
    <3>2. buf[k] = w[i]
      BY <1>4, <2>1, <3>1
    <3>. HIDE DEF i
    <3>3. w[i] >= More /\ w[i] \in Nat
      BY <1>1, <1>11, <3>1
    <3>4. FALSE
      BY <2>1, <3>2, <3>3
    <3>. QED BY <3>4
  <2>3. CASE k - pos > n - 1
    <3>. DEFINE j == pos + n - 1
    <3>1. j \in pos .. k - 1 /\ j \in pos .. Len(buf) /\ j - pos < n /\ j - pos + 1 = n
      BY <1>1, <2>1, <2>3
    <3>. HIDE DEF j
    <3>2. buf[j] = w[n]
      BY <1>4, <3>1
    <3>3. w[n] < More /\ w[n] \in Nat
      BY <1>1
    <3>5. buf[j] >= More
      BY <2>1, <3>1
    <3>4. FALSE
      BY <3>2, <3>3, <3>5
    <3>. QED BY <3>4
  <2>. QED BY <1>1, <2>1, <2>2, <2>3
<1>6. ASSUME pos + n - 1 <= Len(buf) PROVE pos + n - 1 \in LastBytes(buf, pos)
  <2>. DEFINE k == pos + n - 1
  <2>1. k \in pos .. Len(buf) /\ k - pos < n /\ k - pos + 1 = n /\ k - pos < WordGroups
    BY <1>1, <1>2, <1>6
  <2>. HIDE DEF k
  <2>2. buf[k] < More
    <3>1. buf[k] = w[n]
      BY <1>4, <2>1
    <3>2. w[n] < More
      BY <1>1
    <3>. QED BY <3>1, <3>2
  <2>3. ASSUME NEW j \in pos .. k - 1 PROVE buf[j] >= More
    <3>1. j \in pos .. Len(buf) /\ j - pos < n /\ j - pos + 1 \in 1 .. n /\ j - pos + 1 < n
      BY <1>1, <2>1
    <3>. QED BY <1>1, <1>4, <3>1
  <2>. QED BY <2>1, <2>2, <2>3 DEF LastBytes, k
<1>7. ASSUME pos + n - 1 <= Len(buf) PROVE ValueUpTo(buf, pos, pos + n - 1) = value
  <2>1. (pos + n - 1) + 1 - pos = n
    BY <1>1
  <2>2. \A i \in 1 .. n : buf[pos + i - 1] % More = Digit(value, More, i)
    <3>1. ASSUME NEW i \in 1 .. n PROVE buf[pos + i - 1] = w[i]
      <4>1. pos + i - 1 <= Len(buf)
        BY <1>1, <1>7
      <4>. QED BY <1>3, <4>1
    <3>. QED BY <1>1, <3>1
  <2>3. [i \in 1 .. n |-> buf[pos + i - 1] % More] = [i \in 1 .. n |-> Digit(value, More, i)]
    BY <2>2
  <2>4. NumberOf([i \in 1 .. n |-> Digit(value, More, i)], More) = value
    BY <1>1, <1>10, NumberOfDigits
  <2>. QED BY <2>1, <2>3, <2>4 DEF ValueUpTo
<1>8. ASSUME pos + n - 1 <= Len(buf) PROVE Wire!read_varint(buf, pos) = {[value |-> value, next |-> pos + n]}
  <2>1. LastBytes(buf, pos) = {pos + n - 1}
    BY <1>5, <1>6, <1>8
  <2>2. Wire!read_varint(buf, pos) = {[value |-> ValueUpTo(buf, pos, pos + n - 1), next |-> (pos + n - 1) + 1]}
    BY <2>1, VarintRead
  <2>3. (pos + n - 1) + 1 = pos + n
    BY <1>1
  <2>. QED BY <1>7, <1>8, <2>2, <2>3
<1>9. ASSUME pos + n - 1 > Len(buf) PROVE Wire!read_varint(buf, pos) = {}
  <2>1. ASSUME NEW k \in LastBytes(buf, pos) PROVE FALSE
    <3>1. k <= Len(buf) /\ k = pos + n - 1
      BY <1>5 DEF LastBytes
    <3>. QED BY <1>1, <1>9, <3>1
  <2>. QED BY <2>1, VarintRead
<1>. QED BY <1>1, <1>8, <1>9 DEF w, n

\* A varint that is read took at least as many bytes as it would be written in.
LEMMA VarintHasBytes ==
  ASSUME NEW buf \in Seq(0 .. 2 * More - 1), NEW pos \in Nat \ {0}, NEW v \in Wire!read_varint(buf, pos)
  PROVE  /\ v.value \in Nat /\ v.next \in Nat /\ v.next > pos /\ v.next <= Len(buf) + 1
         /\ Len(Wire!write_varint(v.value)) <= v.next - pos
<1>. USE WireAssumption
<1>1. PICK e \in LastBytes(buf, pos) : v = [value |-> ValueUpTo(buf, pos, e), next |-> e + 1]
  BY VarintRead
<1>2. e \in pos .. Len(buf) /\ e \in Nat
  BY DEF LastBytes
<1>. DEFINE n == e + 1 - pos
            digits == [i \in 1 .. n |-> buf[pos + i - 1] % More]
<1>3. n \in Nat \ {0} /\ v.next - pos = n
  BY <1>1, <1>2
<1>4. digits \in Seq(0 .. More - 1) /\ Len(digits) = n
  <2>1. ASSUME NEW i \in 1 .. n PROVE buf[pos + i - 1] % More \in 0 .. More - 1
    <3>1. pos + i - 1 \in 1 .. Len(buf)
      BY <1>2, <1>3
    <3>2. buf[pos + i - 1] \in Nat
      <4>1. \A x \in 0 .. 2 * More - 1 : x \in Nat
        OBVIOUS
      <4>2. buf[pos + i - 1] \in 0 .. 2 * More - 1
        BY <3>1
      <4>. QED BY <4>1, <4>2
    <3>. QED BY <3>2, Quotients
  <2>2. digits \in [1 .. n -> 0 .. More - 1]
    BY <2>1
  <2>. HIDE DEF digits, n
  <2>. QED BY <1>3, <2>2
<1>5. v.value = NumberOf(digits, More)
  BY <1>1 DEF ValueUpTo
<1>. HIDE DEF digits, n
<1>6. v.value \in Nat /\ Left(v.value, More, n) = 0
  BY <1>4, <1>5, LeftOfNumber
<1>7. DigitCount(v.value, More) <= n
  BY <1>3, <1>6, DigitsCounted
<1>8. Len(Wire!write_varint(v.value)) = DigitCount(v.value, More)
  BY <1>6, VarintWritten
<1>. QED BY <1>1, <1>2, <1>3, <1>6, <1>7, <1>8

(***************************************************************************)
(* Fields.                                                                 *)
(***************************************************************************)
LEMMA MatchesParts ==
  ASSUME NEW buf \in Seq(Nat), NEW pos \in Nat \ {0}, NEW u \in Seq(Nat), NEW v \in Seq(Nat),
         Matches(buf, pos, u \o v)
  PROVE  /\ u \o v \in Seq(Nat) /\ Len(u \o v) = Len(u) + Len(v)
         /\ Matches(buf, pos, u) /\ Matches(buf, pos + Len(u), v)
<1>1. /\ Len(u) \in Nat /\ Len(v) \in Nat
      /\ u \o v \in Seq(Nat) /\ Len(u \o v) = Len(u) + Len(v)
      /\ \A j \in 1 .. Len(u) : (u \o v)[j] = u[j]
      /\ \A j \in 1 .. Len(v) : (u \o v)[Len(u) + j] = v[j]
  OBVIOUS
<1>2. \A j \in 1 .. Len(u \o v) : pos + j - 1 <= Len(buf) => buf[pos + j - 1] = (u \o v)[j]
  BY DEF Matches
<1>3. ASSUME NEW j \in 1 .. Len(u), pos + j - 1 <= Len(buf) PROVE buf[pos + j - 1] = u[j]
  <2>1. j \in 1 .. Len(u \o v)
    BY <1>1
  <2>. QED BY <1>1, <1>2, <1>3, <2>1
<1>4. ASSUME NEW j \in 1 .. Len(v), (pos + Len(u)) + j - 1 <= Len(buf)
      PROVE  buf[(pos + Len(u)) + j - 1] = v[j]
  <2>. DEFINE i == Len(u) + j
  <2>1. i \in 1 .. Len(u \o v) /\ pos + i - 1 = (pos + Len(u)) + j - 1
    BY <1>1
  <2>2. buf[pos + i - 1] = (u \o v)[i]
    BY <1>2, <1>4, <2>1
  <2>3. (u \o v)[i] = v[j]
    BY <1>1
  <2>. QED BY <2>1, <2>2, <2>3
<1>. QED BY <1>1, <1>3, <1>4 DEF Matches

\* What is written after the tag.
LenPayload(raw) == Wire!write_varint(Len(raw)) \o raw
Payload(f) ==
  CASE f.wire = 0 -> Wire!write_varint(f.num)
    [] f.wire = 2 -> LenPayload(f.bytes)
    [] f.wire = 1 -> FixedBytes(f.num, I64Bytes)
    [] f.wire = 5 -> FixedBytes(f.num, I32Bytes)

LEMMA FieldShape ==
  ASSUME NEW f \in WireFields
  PROVE  /\ f = [no |-> f.no, wire |-> f.wire, num |-> f.num, bytes |-> f.bytes]
         /\ f.no \in Nat \ {0} /\ Fits(f.no * 8 + f.wire)
         /\ \/ f.wire = 0 /\ f.num \in Nat /\ Fits(f.num) /\ f.bytes = <<>>
            \/ f.wire = 2 /\ f.num = 0 /\ f.bytes \in Seq(Nat) /\ Fits(Len(f.bytes))
            \/ f.wire = 1 /\ f.num \in Nat /\ Left(f.num, 2 * More, I64Bytes) = 0 /\ f.bytes = <<>>
            \/ f.wire = 5 /\ f.num \in Nat /\ Left(f.num, 2 * More, I32Bytes) = 0 /\ f.bytes = <<>>
  BY WireAssumption
     DEF WrittenAs, Wire!Field, Wire!WIRE_VARINT, Wire!WIRE_LEN, Wire!WIRE_I64, Wire!WIRE_I32, Wire!ByteValues

LEMMA FixedTyped ==
  ASSUME NEW num \in Nat, NEW width \in Nat
  PROVE  FixedBytes(num, width) \in Seq(Nat) /\ Len(FixedBytes(num, width)) = width
<1>. USE WireAssumption
<1>1. ASSUME NEW i \in 1 .. width PROVE Digit(num, Wire!ByteValues, i) \in Nat
  <2>1. i - 1 \in Nat /\ Wire!ByteValues \in Nat /\ Wire!ByteValues > 1
    BY DEF Wire!ByteValues
  <2>2. Left(num, Wire!ByteValues, i - 1) \in Nat
    BY <2>1, LeftStep
  <2>. QED BY <2>1, <2>2, Quotients DEF Digit
<1>. QED BY <1>1 DEF FixedBytes

LEMMA PayloadTyped ==
  ASSUME NEW f \in WireFields
  PROVE  /\ Payload(f) \in Seq(Nat)
         /\ Written(f) = Wire!write_varint(f.no * 8 + f.wire) \o Payload(f)
<1>. USE WireAssumption
<1>. DEFINE tag == Wire!write_varint(f.no * 8 + f.wire)
<1>1. f.no * 8 + f.wire \in Nat
  BY FieldShape
<1>2. tag \in Seq(Nat)
  BY <1>1, VarintWritten
<1>. HIDE DEF tag
<1>3. CASE f.wire = 0
  <2>1. Payload(f) = Wire!write_varint(f.num) /\ f.num \in Nat
    BY <1>3, FieldShape DEF Payload
  <2>2. Written(f) = tag \o Wire!write_varint(f.num)
    BY <1>3 DEF Written, Wire!WIRE_VARINT, Wire!WIRE_LEN, Wire!WIRE_I64, Wire!WIRE_I32, Wire!field_varint, Wire!_tag, tag
  <2>. QED BY <2>1, <2>2, VarintWritten DEF tag
<1>4. CASE f.wire = 2
  <2>1. Payload(f) = LenPayload(f.bytes)
    BY <1>4 DEF Payload
  <2>2. f.bytes \in Seq(Nat) /\ Len(f.bytes) \in Nat
    BY <1>4, FieldShape
  <2>. DEFINE count == Wire!write_varint(Len(f.bytes))
  <2>3. count \in Seq(Nat)
    BY <2>2, VarintWritten
  <2>4. Written(f) = Wire!field_bytes(f.no, f.bytes)
    BY <1>4 DEF Written, Wire!WIRE_VARINT, Wire!WIRE_LEN, Wire!WIRE_I64, Wire!WIRE_I32
  <2>5. Wire!_tag(f.no, Wire!WIRE_LEN) = tag
    BY <1>4 DEF Wire!_tag, Wire!WIRE_LEN, tag
  <2>6. Wire!field_bytes(f.no, f.bytes) = tag \o (count \o f.bytes)
    BY <2>5 DEF Wire!field_bytes
  <2>. HIDE DEF count
  <2>8. LenPayload(f.bytes) = count \o f.bytes /\ count \o f.bytes \in Seq(Nat)
    BY <2>2, <2>3 DEF LenPayload, count
  <2>9. Written(f) = tag \o Payload(f)
    BY <2>1, <2>4, <2>6, <2>8, Zenon
  <2>. QED BY <2>1, <2>8, <2>9 DEF tag
<1>5. CASE f.wire = 1
  <2>1. Payload(f) = FixedBytes(f.num, I64Bytes) /\ f.num \in Nat
    BY <1>5, FieldShape DEF Payload
  <2>2. Written(f) = tag \o FixedBytes(f.num, I64Bytes)
    BY <1>5 DEF Written, Wire!WIRE_VARINT, Wire!WIRE_LEN, Wire!WIRE_I64, Wire!WIRE_I32, Wire!_tag, tag
  <2>. QED BY <2>1, <2>2, FixedTyped DEF tag
<1>6. CASE f.wire = 5
  <2>1. Payload(f) = FixedBytes(f.num, I32Bytes) /\ f.num \in Nat
    BY <1>6, FieldShape DEF Payload
  <2>2. Written(f) = tag \o FixedBytes(f.num, I32Bytes)
    BY <1>6 DEF Written, Wire!WIRE_VARINT, Wire!WIRE_LEN, Wire!WIRE_I64, Wire!WIRE_I32, Wire!_tag, tag
  <2>. QED BY <2>1, <2>2, FixedTyped DEF tag
<1>. QED BY <1>3, <1>4, <1>5, <1>6, FieldShape

LEMMA FixedReadBack ==
  ASSUME NEW buf \in Seq(Nat), NEW pos \in Nat \ {0}, NEW num \in Nat, NEW width \in Nat \ {0}, NEW no, NEW wire,
         Left(num, 2 * More, width) = 0, Matches(buf, pos, FixedBytes(num, width))
  PROVE  /\ pos + width - 1 <= Len(buf) =>
              Wire!FixedField(buf, pos, no, wire, width) =
                {[field |-> [no |-> no, wire |-> wire, num |-> num, bytes |-> <<>>], next |-> pos + width]}
         /\ pos + width - 1 > Len(buf) => Wire!FixedField(buf, pos, no, wire, width) = {}
<1>. USE WireAssumption
<1>1. ASSUME pos + width - 1 <= Len(buf)
      PROVE  SubSeq(buf, pos, pos + width - 1) = [i \in 1 .. width |-> Digit(num, 2 * More, i)]
  <2>. DEFINE s == SubSeq(buf, pos, pos + width - 1)
  <2>1. s = [i \in 1 .. width |-> buf[pos + i - 1]]
    BY <1>1
  <2>2. \A i \in 1 .. width : buf[pos + i - 1] = FixedBytes(num, width)[i]
    <3>1. ASSUME NEW i \in 1 .. width PROVE buf[pos + i - 1] = FixedBytes(num, width)[i]
      <4>1. i \in 1 .. Len(FixedBytes(num, width))
        BY FixedTyped
      <4>2. pos + i - 1 <= Len(buf)
        BY <1>1
      <4>. QED BY <4>1, <4>2 DEF Matches
    <3>. QED BY <3>1
  <2>3. \A i \in 1 .. width : FixedBytes(num, width)[i] = Digit(num, 2 * More, i)
    BY DEF FixedBytes, Wire!ByteValues
  <2>. HIDE DEF s
  <2>4. s = [i \in 1 .. width |-> Digit(num, 2 * More, i)]
    BY <2>1, <2>2, <2>3
  <2>. QED BY <2>4 DEF s
<1>2. NumberOf([i \in 1 .. width |-> Digit(num, 2 * More, i)], 2 * More) = num
  <2>1. 2 * More \in Nat /\ 2 * More > 1
    OBVIOUS
  <2>. QED BY <2>1, NumberOfDigits
<1>3. ASSUME pos + width - 1 <= Len(buf)
      PROVE  Wire!FixedField(buf, pos, no, wire, width) =
                {[field |-> [no |-> no, wire |-> wire, num |-> num, bytes |-> <<>>], next |-> pos + width]}
  <2>1. ~(pos + width - 1 > Len(buf))
    BY <1>3
  <2>2. Wire!NumberOf(Wire!Slice(buf, pos, width), Wire!ByteValues) = num
    BY <1>1, <1>2, <1>3, SameDigits DEF Wire!Slice, Wire!ByteValues
  <2>. QED BY <2>1, <2>2 DEF Wire!FixedField, Wire!Field
<1>4. ASSUME pos + width - 1 > Len(buf) PROVE Wire!FixedField(buf, pos, no, wire, width) = {}
  BY <1>4 DEF Wire!FixedField
<1>. QED BY <1>3, <1>4

LEMMA Sizes ==
  /\ More \in Nat /\ More > 1
  /\ WordGroups \in Nat \ {0} /\ I64Bytes \in Nat \ {0} /\ I32Bytes \in Nat \ {0}
  BY WireAssumption

LEMMA TypedCases ==
  \A buf, pos, no :
    /\ Wire!TypedField(buf, pos, no, 0) = Wire!VarintField(buf, pos, no)
    /\ Wire!TypedField(buf, pos, no, 1) = Wire!FixedField(buf, pos, no, 1, I64Bytes)
    /\ Wire!TypedField(buf, pos, no, 2) = Wire!LenField(buf, pos, no)
    /\ Wire!TypedField(buf, pos, no, 5) = Wire!FixedField(buf, pos, no, 5, I32Bytes)
    /\ \A wire : wire \notin {0, 1, 2, 5} => Wire!TypedField(buf, pos, no, wire) = {}
  BY DEF Wire!TypedField, Wire!WIRE_VARINT, Wire!WIRE_I64, Wire!WIRE_LEN, Wire!WIRE_I32

LEMMA VarintFields ==
  \A buf, pos, no :
    Wire!VarintField(buf, pos, no) =
      {[field |-> [no |-> no, wire |-> 0, num |-> v.value, bytes |-> <<>>], next |-> v.next] :
         v \in Wire!read_varint(buf, pos)}
  BY DEF Wire!VarintField, Wire!WIRE_VARINT, Wire!Field

LEMMA LenFields ==
  \A buf, pos, no :
    Wire!LenField(buf, pos, no) =
      {[field |-> [no |-> no, wire |-> 2, num |-> 0, bytes |-> SubSeq(buf, v.next, v.next + v.value - 1)],
        next |-> v.next + v.value] :
         v \in {w \in Wire!read_varint(buf, pos) : w.next + w.value - 1 <= Len(buf)}}
  BY DEF Wire!LenField, Wire!WIRE_LEN, Wire!Field, Wire!Slice

LEMMA LengthOfParts ==
  ASSUME NEW u \in Seq(Nat), NEW v \in Seq(Nat)
  PROVE  u \o v \in Seq(Nat) /\ Len(u \o v) = Len(u) + Len(v)
  OBVIOUS

LEMMA MatchesFirst ==
  ASSUME NEW buf \in Seq(Nat), NEW pos \in Nat \ {0}, NEW u \in Seq(Nat), NEW v \in Seq(Nat),
         Matches(buf, pos, u \o v)
  PROVE  Matches(buf, pos, u)
  BY MatchesParts

LEMMA MatchesSecond ==
  ASSUME NEW buf \in Seq(Nat), NEW pos \in Nat \ {0}, NEW u \in Seq(Nat), NEW v \in Seq(Nat),
         Matches(buf, pos, u \o v)
  PROVE  Matches(buf, pos + Len(u), v)
  BY MatchesParts

\* What a tag says of a field, and what is left to read of it.
LEMMA PayloadReadBack ==
  ASSUME NEW buf \in Seq(Nat), NEW pos \in Nat \ {0}, NEW f \in WireFields, Matches(buf, pos, Payload(f))
  PROVE  LET n == Len(Payload(f))
         IN  /\ n \in Nat \ {0}
             /\ pos + n - 1 <= Len(buf) =>
                  Wire!TypedField(buf, pos, f.no, f.wire) = {[field |-> f, next |-> pos + n]}
             /\ pos + n - 1 > Len(buf) => Wire!TypedField(buf, pos, f.no, f.wire) = {}
<1>. DEFINE typed == Wire!TypedField(buf, pos, f.no, f.wire)
            n == Len(Payload(f))
            r == [field |-> f, next |-> pos + n]
<1>. SUFFICES n \in Nat \ {0} /\ (pos + n - 1 <= Len(buf) => typed = {r}) /\ (pos + n - 1 > Len(buf) => typed = {})
  OBVIOUS
<1>1. f = [no |-> f.no, wire |-> f.wire, num |-> f.num, bytes |-> f.bytes]
  BY FieldShape
<1>3. CASE f.wire = 0
  <2>1. Payload(f) = Wire!write_varint(f.num) /\ f.num \in Nat /\ Fits(f.num) /\ f.bytes = <<>>
    BY <1>3, FieldShape DEF Payload
  <2>2. typed = {[field |-> [no |-> f.no, wire |-> 0, num |-> v.value, bytes |-> <<>>], next |-> v.next] :
                   v \in Wire!read_varint(buf, pos)}
    BY <1>3, TypedCases, VarintFields
  <2>3. Matches(buf, pos, Wire!write_varint(f.num))
    BY <2>1
  <2>4. /\ n \in Nat \ {0}
        /\ pos + n - 1 <= Len(buf) => Wire!read_varint(buf, pos) = {[value |-> f.num, next |-> pos + n]}
        /\ pos + n - 1 > Len(buf) => Wire!read_varint(buf, pos) = {}
    <3>. DEFINE d == DigitCount(f.num, More)
    <3>1. /\ d \in Nat \ {0} /\ Len(Wire!write_varint(f.num)) = d
          /\ pos + d - 1 <= Len(buf) => Wire!read_varint(buf, pos) = {[value |-> f.num, next |-> pos + d]}
          /\ pos + d - 1 > Len(buf) => Wire!read_varint(buf, pos) = {}
      BY <2>1, <2>3, VarintReadBack
    <3>2. n = d
      BY <2>1, <3>1
    <3>. HIDE DEF d, n
    <3>. QED BY <3>1, <3>2
  <2>. HIDE DEF typed, n
  <2>5. ASSUME pos + n - 1 <= Len(buf) PROVE typed = {r}
    <3>1. typed = {[field |-> [no |-> f.no, wire |-> 0, num |-> f.num, bytes |-> <<>>], next |-> pos + n]}
      <4>. DEFINE v == [value |-> f.num, next |-> pos + n]
      <4>1. v.value = f.num /\ v.next = pos + n
        OBVIOUS
      <4>2. Wire!read_varint(buf, pos) = {v}
        BY <2>4, <2>5
      <4>. HIDE DEF v
      <4>. QED BY <2>2, <4>1, <4>2
    <3>2. [no |-> f.no, wire |-> 0, num |-> f.num, bytes |-> <<>>] = f
      BY <1>1, <1>3, <2>1
    <3>. QED BY <3>1, <3>2
  <2>6. ASSUME pos + n - 1 > Len(buf) PROVE typed = {}
    BY <2>2, <2>4, <2>6
  <2>. QED BY <2>4, <2>5, <2>6
<1>4. CASE f.wire = 2
  <2>. DEFINE count == Wire!write_varint(Len(f.bytes))
              m == Len(count)
              size == Len(f.bytes)
  <2>1. Payload(f) = LenPayload(f.bytes) /\ f.bytes \in Seq(Nat) /\ size \in Nat /\ Fits(size) /\ f.num = 0
    BY <1>4, FieldShape DEF Payload
  <2>2. count \in Seq(Nat) /\ m \in Nat \ {0} /\ m = DigitCount(size, More)
    BY <2>1, Sizes, VarintWritten
  <2>3. Matches(buf, pos, count \o f.bytes)
    BY <2>1 DEF LenPayload
  <2>4. n = m + size /\ Matches(buf, pos, count) /\ Matches(buf, pos + m, f.bytes)
    <3>1. Payload(f) = count \o f.bytes
      BY <2>1 DEF LenPayload
    <3>2. f.bytes \in Seq(Nat)
      BY <2>1
    <3>. DEFINE raw == f.bytes
    <3>. HIDE DEF count, raw
    <3>3. Matches(buf, pos, count \o raw) /\ raw \in Seq(Nat) /\ count \in Seq(Nat)
      BY <2>2, <2>3, <3>2 DEF raw
    <3>4. Len(count \o raw) = Len(count) + Len(raw)
      BY <3>3, LengthOfParts
    <3>5. Matches(buf, pos, count)
      BY <3>3, MatchesFirst
    <3>6. Matches(buf, pos + Len(count), raw)
      BY <3>3, MatchesSecond
    <3>. QED BY <3>1, <3>4, <3>5, <3>6 DEF raw
  <2>5. /\ pos + m - 1 <= Len(buf) => Wire!read_varint(buf, pos) = {[value |-> size, next |-> pos + m]}
        /\ pos + m - 1 > Len(buf) => Wire!read_varint(buf, pos) = {}
    BY <2>1, <2>2, <2>4, VarintReadBack
  <2>6. typed = {[field |-> [no |-> f.no, wire |-> 2, num |-> 0, bytes |-> SubSeq(buf, v.next, v.next + v.value - 1)],
                  next |-> v.next + v.value] :
                   v \in {w \in Wire!read_varint(buf, pos) : w.next + w.value - 1 <= Len(buf)}}
    BY <1>4, TypedCases, LenFields
  <2>. HIDE DEF typed, n, count, m
  <2>7. ASSUME pos + n - 1 <= Len(buf) PROVE typed = {r}
    <3>1. pos + m - 1 <= Len(buf) /\ (pos + m) + size - 1 <= Len(buf) /\ (pos + m) + size = pos + n
      <4>1. m \in Nat /\ size \in Nat /\ n = m + size /\ Len(buf) \in Nat
        BY <2>1, <2>2, <2>4
      <4>. HIDE DEF size
      <4>. QED BY <2>7, <4>1
    <3>2. Wire!read_varint(buf, pos) = {[value |-> size, next |-> pos + m]}
      BY <2>5, <3>1
    <3>3. typed = {[field |-> [no |-> f.no, wire |-> 2, num |-> 0, bytes |-> SubSeq(buf, pos + m, (pos + m) + size - 1)],
                    next |-> (pos + m) + size]}
      <4>. DEFINE v == [value |-> size, next |-> pos + m]
      <4>1. {w \in Wire!read_varint(buf, pos) : w.next + w.value - 1 <= Len(buf)} = {v}
        BY <3>1, <3>2
      <4>2. v.next = pos + m /\ v.value = size
        OBVIOUS
      <4>. HIDE DEF v, size
      <4>. QED BY <2>6, <4>1, <4>2
    <3>4. SubSeq(buf, pos + m, (pos + m) + size - 1) = f.bytes
      <4>. DEFINE s == SubSeq(buf, pos + m, (pos + m) + size - 1)
                  at == pos + m
      <4>1. at \in Nat \ {0} /\ at + size - 1 <= Len(buf) /\ size \in Nat
        BY <2>1, <2>2, <3>1
      <4>2. \A i \in 1 .. size : at + i - 1 <= Len(buf)
        BY <4>1
      <4>3. \A i \in 1 .. size : buf[at + i - 1] = f.bytes[i]
        BY <2>4, <4>2 DEF Matches
      <4>. HIDE DEF at
      <4>4. SubSeq(buf, at, at + size - 1) = [i \in 1 .. size |-> buf[at + i - 1]]
        BY <4>1
      <4>5. f.bytes = [i \in 1 .. size |-> f.bytes[i]]
        BY <2>1
      <4>. HIDE DEF size
      <4>6. [i \in 1 .. size |-> buf[at + i - 1]] = [i \in 1 .. size |-> f.bytes[i]]
        BY <4>3
      <4>. QED BY <4>4, <4>5, <4>6 DEF at
    <3>5. [no |-> f.no, wire |-> 2, num |-> 0, bytes |-> f.bytes] = f
      BY <1>1, <1>4, <2>1
    <3>. QED BY <3>1, <3>3, <3>4, <3>5
  <2>8. ASSUME pos + n - 1 > Len(buf) PROVE typed = {}
    <3>1. CASE pos + m - 1 > Len(buf)
      BY <2>5, <2>6, <3>1
    <3>2. CASE pos + m - 1 <= Len(buf)
      <4>1. ~((pos + m) + size - 1 <= Len(buf))
        BY <2>1, <2>2, <2>4, <2>8
      <4>2. Wire!read_varint(buf, pos) = {[value |-> size, next |-> pos + m]}
        BY <2>5, <3>2
      <4>3. {w \in Wire!read_varint(buf, pos) : w.next + w.value - 1 <= Len(buf)} = {}
        BY <4>1, <4>2
      <4>. QED BY <2>6, <4>3
    <3>. QED BY <2>2, <3>1, <3>2
  <2>9. n \in Nat \ {0}
    BY <2>1, <2>2, <2>4
  <2>. QED BY <2>7, <2>8, <2>9
<1>5. CASE f.wire = 1
  <2>1. Payload(f) = FixedBytes(f.num, I64Bytes) /\ f.num \in Nat /\ Left(f.num, 2 * More, I64Bytes) = 0 /\ f.bytes = <<>>
    BY <1>5, FieldShape DEF Payload
  <2>2. typed = Wire!FixedField(buf, pos, f.no, f.wire, I64Bytes)
    BY <1>5, TypedCases
  <2>3. n = I64Bytes /\ n \in Nat \ {0}
    <3>1. I64Bytes \in Nat \ {0}
      BY Sizes
    <3>2. Len(FixedBytes(f.num, I64Bytes)) = I64Bytes
      BY <2>1, <3>1, FixedTyped
    <3>. QED BY <2>1, <3>1, <3>2
  <2>. HIDE DEF n
  <2>4. /\ pos + n - 1 <= Len(buf) =>
             typed = {[field |-> [no |-> f.no, wire |-> f.wire, num |-> f.num, bytes |-> <<>>], next |-> pos + n]}
        /\ pos + n - 1 > Len(buf) => typed = {}
    <3>. HIDE DEF typed
    <3>. QED BY <2>1, <2>2, <2>3, FixedReadBack
  <2>. QED BY <1>1, <2>1, <2>3, <2>4
<1>6. CASE f.wire = 5
  <2>1. Payload(f) = FixedBytes(f.num, I32Bytes) /\ f.num \in Nat /\ Left(f.num, 2 * More, I32Bytes) = 0 /\ f.bytes = <<>>
    BY <1>6, FieldShape DEF Payload
  <2>2. typed = Wire!FixedField(buf, pos, f.no, f.wire, I32Bytes)
    BY <1>6, TypedCases
  <2>3. n = I32Bytes /\ n \in Nat \ {0}
    <3>1. I32Bytes \in Nat \ {0}
      BY Sizes
    <3>2. Len(FixedBytes(f.num, I32Bytes)) = I32Bytes
      BY <2>1, <3>1, FixedTyped
    <3>. QED BY <2>1, <3>1, <3>2
  <2>. HIDE DEF n
  <2>4. /\ pos + n - 1 <= Len(buf) =>
             typed = {[field |-> [no |-> f.no, wire |-> f.wire, num |-> f.num, bytes |-> <<>>], next |-> pos + n]}
        /\ pos + n - 1 > Len(buf) => typed = {}
    <3>. HIDE DEF typed
    <3>. QED BY <2>1, <2>2, <2>3, FixedReadBack
  <2>. QED BY <1>1, <2>1, <2>3, <2>4
<1>. QED BY <1>3, <1>4, <1>5, <1>6, FieldShape

\* A field that was written whole is read back; one that is cut off is an error.
LEMMA FieldReadBack ==
  ASSUME NEW buf \in Seq(Nat), NEW pos \in Nat \ {0}, NEW f \in WireFields, Matches(buf, pos, Written(f))
  PROVE  LET n == Len(Written(f))
         IN  /\ n \in Nat \ {0}
             /\ pos + n - 1 <= Len(buf) => Wire!FieldAt(buf, pos) = {[field |-> f, next |-> pos + n]}
             /\ pos + n - 1 > Len(buf) => Wire!FieldAt(buf, pos) = {}
<1>. DEFINE tag == f.no * 8 + f.wire
            t == Wire!write_varint(tag)
            m == Len(t)
            k == Len(Payload(f))
            n == Len(Written(f))
<1>1. /\ tag \in Nat /\ Fits(tag) /\ tag \div 8 = f.no /\ tag % 8 = f.wire /\ f.no # 0
  <2>1. f.no \in Nat \ {0} /\ f.wire \in {0, 1, 2, 5} /\ Fits(tag)
    BY FieldShape
  <2>2. \A x \in Nat : \A w \in {0, 1, 2, 5} :
          x * 8 + w \in Nat /\ (x * 8 + w) \div 8 = x /\ (x * 8 + w) % 8 = w
    OBVIOUS
  <2>. QED BY <2>1, <2>2
<1>. HIDE DEF tag
<1>2. t \in Seq(Nat) /\ m \in Nat \ {0} /\ m = DigitCount(tag, More)
  BY <1>1, VarintWritten
<1>3. Payload(f) \in Seq(Nat) /\ Written(f) = t \o Payload(f)
  BY PayloadTyped DEF tag
<1>. HIDE DEF t
<1>4. n = m + k /\ Matches(buf, pos, t) /\ Matches(buf, pos + m, Payload(f))
  <2>. DEFINE u == Payload(f)
  <2>1. u \in Seq(Nat) /\ Written(f) = t \o u /\ Matches(buf, pos, t \o u)
    BY <1>3
  <2>. HIDE DEF u
  <2>2. Len(t \o u) = Len(t) + Len(u)
    BY <1>2, <2>1, LengthOfParts
  <2>3. Matches(buf, pos, t)
    BY <1>2, <2>1, MatchesFirst
  <2>4. Matches(buf, pos + Len(t), u)
    BY <1>2, <2>1, MatchesSecond
  <2>. QED BY <2>1, <2>2, <2>3, <2>4 DEF u
<1>5. /\ pos + m - 1 <= Len(buf) => Wire!read_varint(buf, pos) = {[value |-> tag, next |-> pos + m]}
      /\ pos + m - 1 > Len(buf) => Wire!read_varint(buf, pos) = {}
  BY <1>1, <1>2, <1>4, VarintReadBack DEF t
<1>6. pos + m \in Nat \ {0}
  BY <1>2
<1>7. /\ k \in Nat \ {0}
      /\ (pos + m) + k - 1 <= Len(buf) =>
           Wire!TypedField(buf, pos + m, f.no, f.wire) = {[field |-> f, next |-> (pos + m) + k]}
      /\ (pos + m) + k - 1 > Len(buf) => Wire!TypedField(buf, pos + m, f.no, f.wire) = {}
  BY <1>4, <1>6, PayloadReadBack
<1>14. m \in Nat \ {0}
  BY <1>2
<1>15. k \in Nat \ {0}
  BY <1>7
<1>16. n = m + k
  BY <1>4
<1>17. Len(buf) \in Nat
  OBVIOUS
<1>. HIDE DEF m, k, n
<1>8. Wire!FieldAt(buf, pos) =
        UNION {Wire!TypedField(buf, v.next, v.value \div 8, v.value % 8) :
                 v \in {u \in Wire!read_varint(buf, pos) : u.value \div 8 # 0}}
  BY DEF Wire!FieldAt
<1>9. ASSUME pos + m - 1 <= Len(buf)
      PROVE  Wire!FieldAt(buf, pos) = Wire!TypedField(buf, pos + m, f.no, f.wire)
  <2>. DEFINE v == [value |-> tag, next |-> pos + m]
  <2>1. v.value = tag /\ v.next = pos + m
    OBVIOUS
  <2>2. Wire!read_varint(buf, pos) = {v}
    BY <1>5, <1>9
  <2>. HIDE DEF v
  <2>3. {u \in Wire!read_varint(buf, pos) : u.value \div 8 # 0} = {v}
    BY <1>1, <2>1, <2>2
  <2>4. Wire!FieldAt(buf, pos) = UNION {Wire!TypedField(buf, v.next, v.value \div 8, v.value % 8)}
    BY <1>8, <2>3
  <2>. QED BY <1>1, <2>1, <2>4
<1>10. ASSUME pos + m - 1 > Len(buf) PROVE Wire!FieldAt(buf, pos) = {}
  BY <1>5, <1>8, <1>10
<1>11. n \in Nat \ {0}
  BY <1>14, <1>15, <1>16
<1>12. ASSUME pos + n - 1 <= Len(buf) PROVE Wire!FieldAt(buf, pos) = {[field |-> f, next |-> pos + n]}
  <2>1. pos + m - 1 <= Len(buf) /\ (pos + m) + k - 1 <= Len(buf) /\ (pos + m) + k = pos + n
    BY <1>12, <1>14, <1>15, <1>16, <1>17
  <2>. QED BY <1>7, <1>9, <2>1
<1>13. ASSUME pos + n - 1 > Len(buf) PROVE Wire!FieldAt(buf, pos) = {}
  <2>1. CASE pos + m - 1 > Len(buf)
    BY <1>10, <2>1
  <2>2. CASE pos + m - 1 <= Len(buf)
    <3>1. (pos + m) + k - 1 > Len(buf)
      BY <1>13, <1>14, <1>15, <1>16, <1>17
    <3>. QED BY <1>7, <1>9, <2>2, <3>1
  <2>. QED BY <1>14, <1>17, <2>1, <2>2
<1>. QED BY <1>11, <1>12, <1>13 DEF n

LEMMA PieceTyped ==
  ASSUME NEW S, NEW s \in Seq(S), NEW at \in Nat \ {0}, NEW n \in Nat, at + n - 1 <= Len(s)
  PROVE  SubSeq(s, at, at + n - 1) \in Seq(S) /\ Len(SubSeq(s, at, at + n - 1)) = n
<1>. DEFINE piece == SubSeq(s, at, at + n - 1)
<1>1. piece = [i \in 1 .. n |-> s[at + i - 1]]
  OBVIOUS
<1>2. ASSUME NEW i \in 1 .. n PROVE s[at + i - 1] \in S
  <2>1. at + i - 1 \in 1 .. Len(s)
    BY SeqElements
  <2>. QED BY <2>1, SeqElements
<1>. HIDE DEF piece
<1>3. piece \in Seq(S) /\ Len(piece) = n
  BY <1>1, <1>2
<1>. QED BY <1>3 DEF piece

\* What a field's reading takes, and its writing needs at most.
TakenBy(r, buf, pos, w) ==
  /\ r.next \in Nat /\ r.next > pos /\ r.next <= Len(buf) + 1
  /\ w \in Seq(Nat) /\ Len(w) <= r.next - pos

LEMMA PayloadHasBytes ==
  ASSUME NEW buf \in Seq(0 .. 2 * More - 1), NEW pos \in Nat \ {0}, NEW no, NEW wire,
         NEW r \in Wire!TypedField(buf, pos, no, wire)
  PROVE  /\ r.field.no = no /\ r.field.wire = wire /\ wire \in {0, 1, 2, 5}
         /\ TakenBy(r, buf, pos, Payload(r.field))
<1>0. Len(buf) \in Nat /\ buf \in Seq(Nat)
  <2>1. \A x \in 0 .. 2 * More - 1 : x \in Nat
    BY Sizes
  <2>2. \A i \in 1 .. Len(buf) : buf[i] \in 0 .. 2 * More - 1
    BY SeqElements
  <2>3. Len(buf) \in Nat /\ buf = [i \in 1 .. Len(buf) |-> buf[i]]
    OBVIOUS
  <2>4. \A i \in 1 .. Len(buf) : buf[i] \in Nat
    BY <2>1, <2>2
  <2>. QED BY <2>3, <2>4
<1>1. wire \in {0, 1, 2, 5}
  BY TypedCases
<1>2. CASE wire = 0
  <2>1. PICK v \in Wire!read_varint(buf, pos) :
          r = [field |-> [no |-> no, wire |-> 0, num |-> v.value, bytes |-> <<>>], next |-> v.next]
    BY <1>2, TypedCases, VarintFields
  <2>2. /\ v.value \in Nat /\ v.next \in Nat /\ v.next > pos /\ v.next <= Len(buf) + 1
        /\ Len(Wire!write_varint(v.value)) <= v.next - pos
    BY VarintHasBytes
  <2>3. Wire!write_varint(v.value) \in Seq(Nat)
    BY <2>2, VarintWritten
  <2>4. Payload(r.field) = Wire!write_varint(v.value)
    BY <2>1 DEF Payload
  <2>. QED BY <1>2, <2>1, <2>2, <2>3, <2>4 DEF TakenBy
<1>3. CASE wire = 2
  <2>1. PICK v \in Wire!read_varint(buf, pos) :
          /\ v.next + v.value - 1 <= Len(buf)
          /\ r = [field |-> [no |-> no, wire |-> 2, num |-> 0, bytes |-> SubSeq(buf, v.next, v.next + v.value - 1)],
                  next |-> v.next + v.value]
    BY <1>3, TypedCases, LenFields
  <2>2. /\ v.value \in Nat /\ v.next \in Nat /\ v.next > pos /\ v.next <= Len(buf) + 1
        /\ Len(Wire!write_varint(v.value)) <= v.next - pos
    BY VarintHasBytes
  <2>. DEFINE raw == SubSeq(buf, v.next, v.next + v.value - 1)
              at == v.next
              size == v.value
              t == Wire!write_varint(v.value)
  <2>3. raw \in Seq(Nat) /\ Len(raw) = size
    <3>1. at \in Nat \ {0} /\ size \in Nat /\ at + size - 1 <= Len(buf) /\ raw = SubSeq(buf, at, at + size - 1)
      BY <2>1, <2>2
    <3>. HIDE DEF at, size, raw
    <3>. QED BY <1>0, <3>1, PieceTyped
  <2>4. t \in Seq(Nat)
    BY <2>2, VarintWritten
  <2>5. Payload(r.field) = Wire!write_varint(Len(raw)) \o raw
    <3>1. r.field.wire = 2 /\ r.field.bytes = raw
      BY <2>1
    <3>. HIDE DEF raw
    <3>2. Payload(r.field) = LenPayload(r.field.bytes)
      BY <3>1 DEF Payload
    <3>. QED BY <3>1, <3>2 DEF LenPayload
  <2>6. Payload(r.field) = t \o raw
    BY <2>3, <2>5
  <2>7. size \in Nat /\ at \in Nat /\ at > pos /\ Len(t) <= at - pos /\ at + size - 1 <= Len(buf)
    BY <2>1, <2>2
  <2>8. r.next = at + size /\ r.field.no = no /\ r.field.wire = 2
    BY <2>1
  <2>. HIDE DEF t, raw, at, size
  <2>9. Payload(r.field) \in Seq(Nat) /\ Len(Payload(r.field)) = Len(t) + size
    BY <2>3, <2>4, <2>6, LengthOfParts
  <2>10. Len(t) \in Nat
    BY <2>4
  <2>11. Len(t) + size <= (at + size) - pos /\ at + size > pos /\ at + size <= Len(buf) + 1 /\ at + size \in Nat
    BY <1>0, <2>7, <2>10
  <2>. QED BY <1>3, <2>8, <2>9, <2>11 DEF TakenBy
<1>4. ASSUME NEW width \in Nat \ {0}, r \in Wire!FixedField(buf, pos, no, wire, width)
      PROVE  /\ pos + width - 1 <= Len(buf)
             /\ r = [field |-> [no |-> no, wire |-> wire,
                                num |-> NumberOf(SubSeq(buf, pos, pos + width - 1), 2 * More), bytes |-> <<>>],
                     next |-> pos + width]
             /\ NumberOf(SubSeq(buf, pos, pos + width - 1), 2 * More) \in Nat
  <2>1. pos + width - 1 <= Len(buf)
    BY <1>4 DEF Wire!FixedField
  <2>2. r = [field |-> [no |-> no, wire |-> wire,
                        num |-> NumberOf(SubSeq(buf, pos, pos + width - 1), 2 * More), bytes |-> <<>>],
             next |-> pos + width]
    <3>1. Wire!NumberOf(Wire!Slice(buf, pos, width), Wire!ByteValues)
            = NumberOf(SubSeq(buf, pos, pos + width - 1), 2 * More)
      BY SameDigits DEF Wire!Slice, Wire!ByteValues
    <3>. QED BY <1>4, <2>1, <3>1 DEF Wire!FixedField, Wire!Field
  <2>3. SubSeq(buf, pos, pos + width - 1) \in Seq(0 .. 2 * More - 1)
    <3>. DEFINE S == 0 .. 2 * More - 1
    <3>1. buf \in Seq(S) /\ width \in Nat
      OBVIOUS
    <3>. HIDE DEF S
    <3>2. SubSeq(buf, pos, pos + width - 1) \in Seq(S)
      BY <2>1, <3>1, PieceTyped
    <3>. QED BY <3>2 DEF S
  <2>4. 2 * More \in Nat /\ 2 * More > 1
    BY Sizes
  <2>. QED BY <2>1, <2>2, <2>3, <2>4, LeftOfNumber
<1>5. CASE wire = 1
  <2>1. I64Bytes \in Nat \ {0} /\ r \in Wire!FixedField(buf, pos, no, wire, I64Bytes)
    BY <1>5, TypedCases, Sizes
  <2>. DEFINE num == NumberOf(SubSeq(buf, pos, pos + I64Bytes - 1), 2 * More)
  <2>2. /\ pos + I64Bytes - 1 <= Len(buf)
        /\ r = [field |-> [no |-> no, wire |-> wire, num |-> num, bytes |-> <<>>], next |-> pos + I64Bytes]
        /\ num \in Nat
    BY <1>4, <2>1
  <2>. HIDE DEF num
  <2>3. Payload(r.field) = FixedBytes(num, I64Bytes)
    BY <1>5, <2>2 DEF Payload
  <2>4. FixedBytes(num, I64Bytes) \in Seq(Nat) /\ Len(FixedBytes(num, I64Bytes)) = I64Bytes
    BY <2>1, <2>2, FixedTyped
  <2>5. pos + I64Bytes \in Nat /\ pos + I64Bytes > pos /\ pos + I64Bytes <= Len(buf) + 1
        /\ I64Bytes <= (pos + I64Bytes) - pos
    BY <1>0, <2>1, <2>2
  <2>. QED BY <1>1, <2>2, <2>3, <2>4, <2>5 DEF TakenBy
<1>6. CASE wire = 5
  <2>1. I32Bytes \in Nat \ {0} /\ r \in Wire!FixedField(buf, pos, no, wire, I32Bytes)
    BY <1>6, TypedCases, Sizes
  <2>. DEFINE num == NumberOf(SubSeq(buf, pos, pos + I32Bytes - 1), 2 * More)
  <2>2. /\ pos + I32Bytes - 1 <= Len(buf)
        /\ r = [field |-> [no |-> no, wire |-> wire, num |-> num, bytes |-> <<>>], next |-> pos + I32Bytes]
        /\ num \in Nat
    BY <1>4, <2>1
  <2>. HIDE DEF num
  <2>3. Payload(r.field) = FixedBytes(num, I32Bytes)
    BY <1>6, <2>2 DEF Payload
  <2>4. FixedBytes(num, I32Bytes) \in Seq(Nat) /\ Len(FixedBytes(num, I32Bytes)) = I32Bytes
    BY <2>1, <2>2, FixedTyped
  <2>5. pos + I32Bytes \in Nat /\ pos + I32Bytes > pos /\ pos + I32Bytes <= Len(buf) + 1
        /\ I32Bytes <= (pos + I32Bytes) - pos
    BY <1>0, <2>1, <2>2
  <2>. QED BY <1>1, <2>2, <2>3, <2>4, <2>5 DEF TakenBy
<1>. QED BY <1>1, <1>2, <1>3, <1>5, <1>6

\* How a field of one of the four types is written.
LEMMA WrittenParts ==
  \A f, x : f.wire \in {0, 1, 2, 5} /\ f.no * 8 + f.wire = x =>
              Written(f) = Wire!write_varint(x) \o Payload(f)
<1>. TAKE f, x
<1>. HAVE f.wire \in {0, 1, 2, 5} /\ f.no * 8 + f.wire = x
<1>. DEFINE tag == Wire!write_varint(x)
<1>1. CASE f.wire = 0
  BY <1>1 DEF Payload, Written, Wire!WIRE_VARINT, Wire!WIRE_LEN, Wire!WIRE_I64, Wire!WIRE_I32, Wire!field_varint, Wire!_tag
<1>2. CASE f.wire = 1
  BY <1>2 DEF Payload, Written, Wire!WIRE_VARINT, Wire!WIRE_LEN, Wire!WIRE_I64, Wire!WIRE_I32, Wire!_tag
<1>3. CASE f.wire = 2
  <2>1. Written(f) = Wire!field_bytes(f.no, f.bytes)
    BY <1>3 DEF Written, Wire!WIRE_VARINT, Wire!WIRE_LEN, Wire!WIRE_I64, Wire!WIRE_I32
  <2>2. Wire!_tag(f.no, Wire!WIRE_LEN) = tag
    BY <1>3 DEF Wire!_tag, Wire!WIRE_LEN
  <2>3. Payload(f) = Wire!write_varint(Len(f.bytes)) \o f.bytes
    <3>1. Payload(f) = LenPayload(f.bytes)
      BY <1>3 DEF Payload
    <3>. QED BY <3>1 DEF LenPayload
  <2>. HIDE DEF tag
  <2>4. Wire!field_bytes(f.no, f.bytes) = tag \o (Wire!write_varint(Len(f.bytes)) \o f.bytes)
    BY <2>2 DEF Wire!field_bytes
  <2>5. Written(f) = tag \o Payload(f)
    BY <2>1, <2>3, <2>4, Zenon
  <2>. QED BY <2>5 DEF tag
<1>4. CASE f.wire = 5
  BY <1>4 DEF Payload, Written, Wire!WIRE_VARINT, Wire!WIRE_LEN, Wire!WIRE_I64, Wire!WIRE_I32, Wire!_tag
<1>. QED BY <1>1, <1>2, <1>3, <1>4

\* Whatever is read has bytes of its own, as many as it takes to write it.
LEMMA FieldHasBytes ==
  ASSUME NEW buf \in Seq(0 .. 2 * More - 1), NEW pos \in Nat \ {0}, NEW r \in Wire!FieldAt(buf, pos)
  PROVE  TakenBy(r, buf, pos, Written(r.field))
<1>1. PICK t \in Wire!read_varint(buf, pos) : r \in Wire!TypedField(buf, t.next, t.value \div 8, t.value % 8)
  BY DEF Wire!FieldAt
<1>2. /\ t.value \in Nat /\ t.next \in Nat /\ t.next > pos /\ t.next <= Len(buf) + 1
      /\ Len(Wire!write_varint(t.value)) <= t.next - pos
  BY VarintHasBytes
<1>3. t.next \in Nat \ {0}
  BY <1>2
<1>4. /\ r.field.no = t.value \div 8 /\ r.field.wire = t.value % 8 /\ r.field.wire \in {0, 1, 2, 5}
      /\ TakenBy(r, buf, t.next, Payload(r.field))
  BY <1>1, <1>3, PayloadHasBytes
<1>5. r.field.no * 8 + r.field.wire = t.value
  <2>1. \A x \in Nat : (x \div 8) * 8 + (x % 8) = x
    OBVIOUS
  <2>. QED BY <1>2, <1>4, <2>1
<1>. DEFINE tag == Wire!write_varint(t.value)
            rest == Payload(r.field)
<1>6. Written(r.field) = tag \o rest
  BY <1>4, <1>5, WrittenParts
<1>7. tag \in Seq(Nat) /\ rest \in Seq(Nat) /\ Len(rest) <= r.next - t.next
  BY <1>2, <1>4, VarintWritten DEF TakenBy
<1>8. r.next \in Nat /\ r.next > t.next /\ r.next <= Len(buf) + 1
  BY <1>4 DEF TakenBy
<1>9. Len(tag) <= t.next - pos
  BY <1>2
<1>. HIDE DEF tag, rest
<1>10. tag \o rest \in Seq(Nat) /\ Len(tag \o rest) = Len(tag) + Len(rest)
  BY <1>7, LengthOfParts
<1>11. Len(tag) \in Nat /\ Len(rest) \in Nat
  BY <1>7
<1>12. Len(tag) + Len(rest) <= r.next - pos /\ r.next > pos
  BY <1>2, <1>7, <1>8, <1>9, <1>11
<1>. QED BY <1>6, <1>8, <1>10, <1>12 DEF TakenBy

(***************************************************************************)
(* A body and what has been read of it.                                    *)
(***************************************************************************)
EndIn(ends, i) == IF i = 0 THEN 0 ELSE ends[i]

\* The fields lie one after the other, as far as the body goes.
LaidOut(fields, ends, body) ==
  /\ fields \in Seq(WireFields) /\ ends \in Seq(Nat) /\ body \in Seq(Nat)
  /\ Len(ends) = Len(fields)
  /\ \A i, j \in 0 .. Len(ends) : i <= j => EndIn(ends, i) <= EndIn(ends, j)
  /\ \A i \in 1 .. Len(fields) :
       /\ EndIn(ends, i) = EndIn(ends, i - 1) + Len(Written(fields[i]))
       /\ Matches(body, EndIn(ends, i - 1) + 1, Written(fields[i]))
  /\ Len(body) <= EndIn(ends, Len(ends))

LEMMA WrittenTyped ==
  ASSUME NEW f \in WireFields
  PROVE  Written(f) \in Seq(Nat) /\ Len(Written(f)) \in Nat
<1>. DEFINE t == Wire!write_varint(f.no * 8 + f.wire)
            u == Payload(f)
<1>1. u \in Seq(Nat) /\ Written(f) = t \o u
  BY PayloadTyped
<1>2. t \in Seq(Nat)
  <2>1. f.no * 8 + f.wire \in Nat
    BY FieldShape
  <2>. QED BY <2>1, VarintWritten
<1>. HIDE DEF t, u
<1>3. t \o u \in Seq(Nat)
  BY <1>1, <1>2, LengthOfParts
<1>4. Len(t \o u) \in Nat
  BY <1>3
<1>. QED BY <1>1, <1>3, <1>4

LEMMA MatchesLonger ==
  ASSUME NEW buf \in Seq(Nat), NEW more \in Seq(Nat), NEW pos \in Nat \ {0}, NEW w \in Seq(Nat),
         Matches(buf, pos, w), pos + Len(w) - 1 <= Len(buf)
  PROVE  Matches(buf \o more, pos, w)
<1>0. Len(buf) \in Nat /\ Len(w) \in Nat
  OBVIOUS
<1>1. \A i \in 1 .. Len(buf) : (buf \o more)[i] = buf[i]
  OBVIOUS
<1>2. ASSUME NEW j \in 1 .. Len(w) PROVE (buf \o more)[pos + j - 1] = w[j]
  <2>1. pos + j - 1 \in 1 .. Len(buf) /\ pos + j - 1 <= Len(buf)
    BY <1>0
  <2>2. buf[pos + j - 1] = w[j]
    BY <2>1 DEF Matches
  <2>. QED BY <1>1, <2>1, <2>2
<1>. QED BY <1>2 DEF Matches

LEMMA MatchesAfter ==
  ASSUME NEW buf \in Seq(Nat), NEW w \in Seq(Nat)
  PROVE  Matches(buf \o w, Len(buf) + 1, w)
<1>1. /\ Len(buf) \in Nat /\ Len(w) \in Nat
      /\ \A j \in 1 .. Len(w) : (buf \o w)[Len(buf) + j] = w[j]
  OBVIOUS
<1>2. ASSUME NEW j \in 1 .. Len(w) PROVE (buf \o w)[(Len(buf) + 1) + j - 1] = w[j]
  <2>1. (Len(buf) + 1) + j - 1 = Len(buf) + j
    BY <1>1
  <2>. QED BY <1>1, <2>1
<1>. QED BY <1>2 DEF Matches

LEMMA MatchesCut ==
  ASSUME NEW buf \in Seq(Nat), NEW cut \in 0 .. Len(buf), NEW pos \in Nat \ {0}, NEW w \in Seq(Nat),
         Matches(buf, pos, w)
  PROVE  Matches(SubSeq(buf, 1, cut), pos, w)
<1>. DEFINE short == SubSeq(buf, 1, cut)
<1>1. Len(buf) \in Nat /\ Len(short) = cut /\ \A i \in 1 .. cut : short[i] = buf[i]
  OBVIOUS
<1>. HIDE DEF short
<1>2. ASSUME NEW j \in 1 .. Len(w), pos + j - 1 <= Len(short) PROVE short[pos + j - 1] = w[j]
  <2>1. pos + j - 1 \in 1 .. cut /\ pos + j - 1 <= Len(buf)
    BY <1>1, <1>2
  <2>2. buf[pos + j - 1] = w[j]
    BY <2>1 DEF Matches
  <2>. QED BY <1>1, <2>1, <2>2
<1>3. Matches(short, pos, w)
  BY <1>2 DEF Matches
<1>. QED BY <1>3 DEF short

LEMMA LayoutCut ==
  ASSUME NEW fields, NEW ends, NEW body, LaidOut(fields, ends, body), NEW cut \in 0 .. Len(body)
  PROVE  LaidOut(fields, ends, SubSeq(body, 1, cut))
<1>. DEFINE short == SubSeq(body, 1, cut)
            n == Len(fields)
<1>1. /\ fields \in Seq(WireFields) /\ ends \in Seq(Nat) /\ body \in Seq(Nat)
      /\ Len(ends) = n
      /\ \A i, j \in 0 .. Len(ends) : i <= j => EndIn(ends, i) <= EndIn(ends, j)
      /\ \A i \in 1 .. n :
           /\ EndIn(ends, i) = EndIn(ends, i - 1) + Len(Written(fields[i]))
           /\ Matches(body, EndIn(ends, i - 1) + 1, Written(fields[i]))
      /\ Len(body) <= EndIn(ends, Len(ends))
  BY DEF LaidOut
<1>2. short \in Seq(Nat) /\ Len(short) = cut /\ cut <= Len(body) /\ Len(body) \in Nat /\ n \in Nat
  BY <1>1
<1>6. \A i \in 0 .. n : EndIn(ends, i) \in Nat
  BY <1>1 DEF EndIn
<1>. HIDE DEF n, short
<1>3. ASSUME NEW i \in 1 .. n PROVE Matches(short, EndIn(ends, i - 1) + 1, Written(fields[i]))
  <2>1. fields[i] \in WireFields
    BY <1>1, SeqElements DEF n
  <2>2. i - 1 \in 0 .. n
    BY <1>2
  <2>3. EndIn(ends, i - 1) + 1 \in Nat \ {0}
    BY <1>6, <2>2
  <2>4. Written(fields[i]) \in Seq(Nat)
    BY <2>1, WrittenTyped
  <2>5. Matches(body, EndIn(ends, i - 1) + 1, Written(fields[i]))
    BY <1>1
  <2>. QED BY <1>1, <2>3, <2>4, <2>5, MatchesCut DEF short
<1>4. Len(short) <= EndIn(ends, Len(ends))
  <2>1. EndIn(ends, Len(ends)) \in Nat
    BY <1>1, <1>2, <1>6
  <2>. QED BY <1>1, <1>2, <2>1
<1>5. LaidOut(fields, ends, short)
  BY <1>1, <1>2, <1>3, <1>4 DEF LaidOut, n
<1>. QED BY <1>5 DEF short

LEMMA LayoutGrows ==
  ASSUME NEW fields, NEW ends, NEW body, LaidOut(fields, ends, body), Len(body) = EndIn(ends, Len(ends)),
         NEW f \in WireFields
  PROVE  LET grown == body \o Written(f)
             longer == Append(ends, Len(grown))
         IN  /\ LaidOut(Append(fields, f), longer, grown)
             /\ Len(grown) = EndIn(longer, Len(longer))
<1>. DEFINE w == Written(f)
            grown == body \o w
            longer == Append(ends, Len(grown))
            more == Append(fields, f)
            n == Len(fields)
<1>1. /\ fields \in Seq(WireFields) /\ ends \in Seq(Nat) /\ body \in Seq(Nat)
      /\ Len(ends) = n
      /\ \A i, j \in 0 .. n : i <= j => EndIn(ends, i) <= EndIn(ends, j)
      /\ \A i \in 1 .. n :
           /\ EndIn(ends, i) = EndIn(ends, i - 1) + Len(Written(fields[i]))
           /\ Matches(body, EndIn(ends, i - 1) + 1, Written(fields[i]))
      /\ Len(body) = EndIn(ends, n)
  BY DEF LaidOut
<1>2. w \in Seq(Nat) /\ Len(w) \in Nat /\ Len(body) \in Nat /\ n \in Nat
  BY <1>1, WrittenTyped
<1>. HIDE DEF w
<1>3. grown \in Seq(Nat) /\ Len(grown) = Len(body) + Len(w) /\ Len(grown) \in Nat
  <2>1. grown \in Seq(Nat) /\ Len(grown) = Len(body) + Len(w)
    BY <1>1, <1>2, LengthOfParts
  <2>. HIDE DEF grown
  <2>. QED BY <1>2, <2>1
<1>. HIDE DEF grown
<1>4. /\ more \in Seq(WireFields) /\ Len(more) = n + 1 /\ more[n + 1] = f
      /\ \A i \in 1 .. n : more[i] = fields[i]
  BY <1>1
<1>5. /\ longer \in Seq(Nat) /\ Len(longer) = n + 1 /\ longer[n + 1] = Len(grown)
      /\ \A i \in 1 .. n : longer[i] = ends[i]
  BY <1>1, <1>3
<1>. HIDE DEF more, longer, n
<1>6. /\ \A i \in 0 .. n : EndIn(longer, i) = EndIn(ends, i)
      /\ EndIn(longer, n + 1) = Len(grown)
  BY <1>2, <1>5 DEF EndIn
<1>7. \A i \in 0 .. n : EndIn(ends, i) \in Nat
  BY <1>1, <1>2 DEF EndIn
<1>8. ASSUME NEW i \in 0 .. Len(longer), NEW j \in 0 .. Len(longer), i <= j
      PROVE  EndIn(longer, i) <= EndIn(longer, j)
  <2>1. CASE j <= n
    <3>1. i \in 0 .. n /\ j \in 0 .. n
      BY <1>2, <1>5, <1>8, <2>1
    <3>. QED BY <1>1, <1>6, <1>8, <3>1
  <2>2. CASE j = n + 1 /\ i <= n
    <3>1. i \in 0 .. n /\ n \in 0 .. n
      BY <1>2, <2>2
    <3>2. EndIn(ends, i) <= EndIn(ends, n)
      BY <1>1, <3>1
    <3>3. EndIn(longer, i) = EndIn(ends, i) /\ EndIn(longer, j) = Len(grown)
      BY <1>6, <2>2, <3>1
    <3>4. EndIn(ends, i) \in Nat /\ EndIn(ends, n) = Len(body)
      BY <1>1, <1>7, <3>1
    <3>. QED BY <1>2, <1>3, <3>2, <3>3, <3>4
  <2>3. CASE j = n + 1 /\ i = n + 1
    <3>1. EndIn(longer, i) = Len(grown) /\ EndIn(longer, j) = Len(grown)
      BY <1>6, <2>3
    <3>. QED BY <1>3, <3>1
  <2>. QED BY <1>2, <1>5, <1>8, <2>1, <2>2, <2>3
<1>9. ASSUME NEW i \in 1 .. n + 1
      PROVE  /\ EndIn(longer, i) = EndIn(longer, i - 1) + Len(Written(more[i]))
             /\ Matches(grown, EndIn(longer, i - 1) + 1, Written(more[i]))
  <2>0. i - 1 \in 0 .. n
    BY <1>2
  <2>1. CASE i = n + 1
    <3>1. more[i] = f /\ EndIn(longer, i) = Len(grown) /\ EndIn(longer, i - 1) = Len(body)
      <4>1. i - 1 = n
        BY <1>2, <2>1
      <4>. QED BY <1>1, <1>4, <1>6, <2>0, <2>1, <4>1
    <3>2. Matches(grown, Len(body) + 1, w)
      BY <1>1, <1>2, MatchesAfter DEF grown
    <3>. QED BY <1>3, <3>1, <3>2 DEF w
  <2>2. CASE i # n + 1
    <3>1. i \in 1 .. n /\ i \in 0 .. n /\ n \in 0 .. n /\ i <= n
      BY <1>2, <2>2
    <3>2. more[i] = fields[i] /\ EndIn(longer, i) = EndIn(ends, i) /\ EndIn(longer, i - 1) = EndIn(ends, i - 1)
      BY <1>4, <1>6, <2>0, <3>1
    <3>3. /\ EndIn(ends, i) = EndIn(ends, i - 1) + Len(Written(fields[i]))
          /\ Matches(body, EndIn(ends, i - 1) + 1, Written(fields[i]))
      BY <1>1, <3>1
    <3>. DEFINE v == Written(fields[i])
                p == EndIn(ends, i - 1) + 1
    <3>4. v \in Seq(Nat) /\ Len(v) \in Nat
      <4>1. fields[i] \in WireFields
        BY <1>1, <3>1, SeqElements DEF n
      <4>. QED BY <4>1, WrittenTyped
    <3>5. EndIn(ends, i) <= EndIn(ends, n)
      BY <1>1, <3>1
    <3>6. EndIn(ends, i - 1) \in Nat /\ EndIn(ends, i) \in Nat
      BY <1>7, <2>0, <3>1
    <3>. HIDE DEF v
    <3>7. p \in Nat \ {0} /\ p + Len(v) - 1 <= Len(body)
      <4>1. EndIn(ends, i) = EndIn(ends, i - 1) + Len(v)
        BY <3>3 DEF v
      <4>. QED BY <1>1, <1>2, <3>4, <3>5, <3>6, <4>1
    <3>8. Matches(body, p, v)
      BY <3>3 DEF v
    <3>. HIDE DEF p
    <3>9. Matches(grown, p, v)
      BY <1>1, <1>2, <3>4, <3>7, <3>8, MatchesLonger DEF grown
    <3>. QED BY <3>2, <3>3, <3>9 DEF v, p
  <2>. QED BY <2>1, <2>2
<1>10. Len(grown) = EndIn(longer, Len(longer))
  BY <1>5, <1>6
<1>11. LaidOut(more, longer, grown)
  BY <1>3, <1>4, <1>5, <1>8, <1>9, <1>10 DEF LaidOut
<1>. QED BY <1>10, <1>11 DEF more, longer, grown, w

\* What a message has under each number is a sequence of fields.
Gathers(message, fields) ==
  /\ \A no \in DOMAIN message : message[no] \in Seq(WireFields)
  /\ GroupedAs(message, fields)

\* The places of a number's fields.
Places(at, list, no, fields) ==
  /\ DOMAIN at = DOMAIN list
  /\ \A k \in DOMAIN at : at[k] \in DOMAIN fields
  /\ {at[k] : k \in DOMAIN at} = {i \in DOMAIN fields : fields[i].no = no}
  /\ \A k, l \in DOMAIN at : k < l => at[k] < at[l]
  /\ \A k \in DOMAIN at : list[k] = fields[at[k]]
Placed(list, no, fields) == \E at \in [DOMAIN list -> DOMAIN fields] : Places(at, list, no, fields)

LEMMA GroupedIsPlaced ==
  \A message, fields :
    GroupedAs(message, fields) <=>
      /\ DOMAIN message = {fields[i].no : i \in DOMAIN fields}
      /\ \A no \in DOMAIN message : Placed(message[no], no, fields)
  BY Zenon DEF GroupedAs, Placed, Places

LEMMA PlacedElsewhere ==
  ASSUME NEW list \in Seq(WireFields), NEW fields \in Seq(WireFields), NEW f \in WireFields, NEW no, no # f.no,
         Placed(list, no, fields)
  PROVE  Placed(list, no, Append(fields, f))
<1>. DEFINE more == Append(fields, f)
            n == Len(fields)
<1>1. PICK at \in [DOMAIN list -> DOMAIN fields] : Places(at, list, no, fields)
  BY DEF Placed
<1>2. n \in Nat /\ DOMAIN fields = 1 .. n /\ DOMAIN more = 1 .. n + 1 /\ more[n + 1] = f
      /\ \A i \in 1 .. n : more[i] = fields[i]
  OBVIOUS
<1>. HIDE DEF more, n
<1>3. {i \in DOMAIN more : more[i].no = no} = {i \in DOMAIN fields : fields[i].no = no}
  <2>1. ASSUME NEW i \in 1 .. n + 1 PROVE more[i].no = no <=> i \in 1 .. n /\ fields[i].no = no
    <3>1. CASE i = n + 1
      BY <1>2, <3>1
    <3>2. CASE i # n + 1
      <4>1. i \in 1 .. n
        BY <1>2, <3>2
      <4>. QED BY <1>2, <4>1
    <3>. QED BY <3>1, <3>2
  <2>2. 1 .. n \subseteq 1 .. n + 1
    BY <1>2
  <2>. QED BY <1>2, <2>1, <2>2
<1>4. at \in [DOMAIN list -> DOMAIN more]
  <2>1. 1 .. n \subseteq 1 .. n + 1
    BY <1>2
  <2>. QED BY <1>1, <1>2, <2>1
<1>5. Places(at, list, no, more)
  <2>1. \A k \in DOMAIN at : at[k] \in DOMAIN more
    BY <1>1, <1>4
  <2>2. \A k \in DOMAIN at : list[k] = more[at[k]]
    BY <1>1, <1>2 DEF Places
  <2>3. \A k, l \in DOMAIN at : k < l => at[k] < at[l]
    BY <1>1 DEF Places
  <2>4. {at[k] : k \in DOMAIN at} = {i \in DOMAIN more : more[i].no = no} /\ DOMAIN at = DOMAIN list
    BY <1>1, <1>3 DEF Places
  <2>. QED BY <2>1, <2>2, <2>3, <2>4 DEF Places
<1>. QED BY <1>4, <1>5 DEF Placed, more

LEMMA PlacedHere ==
  ASSUME NEW list \in Seq(WireFields), NEW fields \in Seq(WireFields), NEW f \in WireFields,
         Placed(list, f.no, fields)
  PROVE  Placed(Append(list, f), f.no, Append(fields, f))
<1>. DEFINE more == Append(fields, f)
            longer == Append(list, f)
            n == Len(fields)
            p == Len(list)
            no == f.no
<1>1. PICK at \in [DOMAIN list -> DOMAIN fields] : Places(at, list, no, fields)
  BY DEF Placed
<1>2. n \in Nat /\ DOMAIN fields = 1 .. n /\ DOMAIN more = 1 .. n + 1 /\ more[n + 1] = f
      /\ \A i \in 1 .. n : more[i] = fields[i]
  OBVIOUS
<1>3. p \in Nat /\ DOMAIN list = 1 .. p /\ DOMAIN longer = 1 .. p + 1 /\ longer[p + 1] = f
      /\ \A k \in 1 .. p : longer[k] = list[k]
  OBVIOUS
<1>4. f.no = no
  OBVIOUS
<1>. HIDE DEF more, longer, n, p, no
<1>. DEFINE to == [k \in 1 .. p + 1 |-> IF k = p + 1 THEN n + 1 ELSE at[k]]
<1>5. /\ DOMAIN at = 1 .. p /\ \A k \in 1 .. p : at[k] \in 1 .. n
      /\ {at[k] : k \in 1 .. p} = {i \in 1 .. n : fields[i].no = no}
      /\ \A k, l \in 1 .. p : k < l => at[k] < at[l]
      /\ \A k \in 1 .. p : list[k] = fields[at[k]]
  BY <1>1, <1>2, <1>3 DEF Places
<1>6. /\ DOMAIN to = 1 .. p + 1 /\ to[p + 1] = n + 1
      /\ \A k \in 1 .. p : to[k] = at[k]
      /\ \A k \in 1 .. p + 1 : k \in 1 .. p \/ k = p + 1
      /\ 1 .. p \subseteq 1 .. p + 1 /\ p + 1 \in 1 .. p + 1
  BY <1>3
<1>12. to = [k \in 1 .. p + 1 |-> to[k]]
  OBVIOUS
<1>. HIDE DEF to
<1>7. /\ 1 .. n \subseteq 1 .. n + 1 /\ n + 1 \in 1 .. n + 1 /\ \A i \in 1 .. n + 1 : i \in 1 .. n \/ i = n + 1
  BY <1>2
<1>8. \A k \in 1 .. p + 1 : to[k] \in 1 .. n + 1
  BY <1>5, <1>6, <1>7
<1>9. {to[k] : k \in 1 .. p + 1} = {i \in 1 .. n + 1 : more[i].no = no}
  <2>1. ASSUME NEW k \in 1 .. p + 1 PROVE to[k] \in 1 .. n + 1 /\ more[to[k]].no = no
    <3>1. CASE k = p + 1
      BY <1>2, <1>4, <1>6, <1>7, <3>1
    <3>2. CASE k \in 1 .. p
      <4>1. at[k] \in {i \in 1 .. n : fields[i].no = no}
        BY <1>5, <3>2
      <4>. QED BY <1>2, <1>6, <1>7, <3>2, <4>1
    <3>. QED BY <1>6, <3>1, <3>2
  <2>2. ASSUME NEW i \in 1 .. n + 1, more[i].no = no PROVE \E k \in 1 .. p + 1 : to[k] = i
    <3>1. CASE i = n + 1
      BY <1>6, <3>1
    <3>2. CASE i \in 1 .. n
      <4>1. fields[i].no = no
        BY <1>2, <2>2, <3>2
      <4>2. i \in {at[k] : k \in 1 .. p}
        BY <1>5, <3>2, <4>1
      <4>3. PICK k \in 1 .. p : at[k] = i
        BY <4>2
      <4>. QED BY <1>6, <4>3
    <3>. QED BY <1>7, <3>1, <3>2
  <2>. QED BY <2>1, <2>2
<1>10. ASSUME NEW k \in 1 .. p + 1, NEW l \in 1 .. p + 1, k < l PROVE to[k] < to[l]
  <2>1. k \in 1 .. p
    BY <1>3, <1>10
  <2>2. CASE l = p + 1
    <3>1. to[k] \in 1 .. n /\ to[l] = n + 1
      BY <1>5, <1>6, <2>1, <2>2
    <3>. QED BY <1>2, <3>1
  <2>3. CASE l \in 1 .. p
    BY <1>5, <1>6, <1>10, <2>1, <2>3
  <2>. QED BY <1>6, <2>2, <2>3
<1>11. ASSUME NEW k \in 1 .. p + 1 PROVE longer[k] = more[to[k]]
  <2>1. CASE k = p + 1
    BY <1>2, <1>3, <1>6, <2>1
  <2>2. CASE k \in 1 .. p
    BY <1>2, <1>3, <1>5, <1>6, <2>2
  <2>. QED BY <1>6, <2>1, <2>2
<1>13. to \in [DOMAIN longer -> DOMAIN more]
  BY <1>2, <1>3, <1>8, <1>12
<1>14. Places(to, longer, no, more)
  BY <1>2, <1>3, <1>6, <1>8, <1>9, <1>10, <1>11 DEF Places
<1>. QED BY <1>13, <1>14 DEF Placed, more, longer, no

\* The first of its number.
LEMMA PlacedFirst ==
  ASSUME NEW fields \in Seq(WireFields), NEW f \in WireFields, f.no \notin {fields[i].no : i \in DOMAIN fields}
  PROVE  Placed(<<f>>, f.no, Append(fields, f))
<1>1. <<>> \in Seq(WireFields) /\ Append(<<>>, f) = <<f>>
  OBVIOUS
<1>. DEFINE at == <<>>
<1>2. Placed(<<>>, f.no, fields)
  <2>1. at \in [DOMAIN <<>> -> DOMAIN fields]
    OBVIOUS
  <2>2. {i \in DOMAIN fields : fields[i].no = f.no} = {}
    OBVIOUS
  <2>3. Places(at, <<>>, f.no, fields)
    BY <2>2 DEF Places
  <2>. QED BY <2>1, <2>3 DEF Placed
<1>3. Placed(Append(<<>>, f), f.no, Append(fields, f))
  BY <1>1, <1>2, PlacedHere
<1>. QED BY <1>1, <1>3

\* The message gathers every field that is added to it (Message._add).
LEMMA MessageGathers ==
  ASSUME NEW message, NEW fields \in Seq(WireFields), NEW f \in WireFields, Gathers(message, fields)
  PROVE  Gathers(Wire!_add(message, f), Append(fields, f))
<1>. DEFINE more == Append(fields, f)
            added == Wire!_add(message, f)
            n == Len(fields)
<1>1. /\ DOMAIN message = {fields[i].no : i \in DOMAIN fields}
      /\ \A no \in DOMAIN message : Placed(message[no], no, fields) /\ message[no] \in Seq(WireFields)
  BY GroupedIsPlaced DEF Gathers
<1>2. added = [no \in DOMAIN message \cup {f.no} |->
                 IF no # f.no THEN message[no]
                 ELSE IF no \in DOMAIN message THEN Append(message[no], f) ELSE <<f>>]
  BY DEF Wire!_add
<1>3. n \in Nat /\ DOMAIN fields = 1 .. n /\ DOMAIN more = 1 .. n + 1 /\ more[n + 1] = f
      /\ (\A i \in 1 .. n : more[i] = fields[i])
  OBVIOUS
<1>. HIDE DEF added, n
<1>4. DOMAIN added = {more[i].no : i \in DOMAIN more}
  <2>1. DOMAIN added = DOMAIN message \cup {f.no}
    BY <1>2
  <2>. HIDE DEF more
  <2>2. 1 .. n + 1 = 1 .. n \cup {n + 1}
    BY <1>3
  <2>3. {more[i].no : i \in 1 .. n + 1} = {fields[i].no : i \in 1 .. n} \cup {f.no}
    BY <1>3, <2>2
  <2>. QED BY <1>1, <1>3, <2>1, <2>3
<1>5. ASSUME NEW no \in DOMAIN added PROVE Placed(added[no], no, more) /\ added[no] \in Seq(WireFields)
  <2>1. CASE no # f.no
    <3>1. no \in DOMAIN message /\ added[no] = message[no]
      BY <1>2, <2>1
    <3>2. Placed(message[no], no, fields) /\ message[no] \in Seq(WireFields)
      BY <1>1, <3>1
    <3>3. Placed(message[no], no, more)
      BY <2>1, <3>2, PlacedElsewhere
    <3>. QED BY <3>1, <3>2, <3>3
  <2>2. CASE no = f.no /\ no \in DOMAIN message
    <3>. DEFINE list == message[no]
    <3>1. added[no] = Append(list, f)
      BY <1>2, <2>2
    <3>2. Placed(list, f.no, fields) /\ list \in Seq(WireFields)
      BY <1>1, <2>2
    <3>. HIDE DEF list
    <3>3. Placed(Append(list, f), f.no, more)
      BY <3>2, PlacedHere
    <3>. QED BY <2>2, <3>1, <3>2, <3>3
  <2>3. CASE no = f.no /\ no \notin DOMAIN message
    <3>1. added[no] = <<f>>
      BY <1>2, <2>3
    <3>2. f.no \notin {fields[i].no : i \in DOMAIN fields}
      BY <1>1, <2>3
    <3>3. Placed(<<f>>, f.no, more)
      BY <3>2, PlacedFirst
    <3>. QED BY <2>3, <3>1, <3>3
  <2>. QED BY <2>1, <2>2, <2>3
<1>6. Gathers(added, more)
  BY <1>4, <1>5, GroupedIsPlaced DEF Gathers
<1>. QED BY <1>6 DEF added

IsReading(s) == s = [pos |-> s.pos, fields |-> s.fields, message |-> s.message, ended |-> s.ended]

\* The fields that have been read are the first that were written.
HasRead(fields, ends, body, s) ==
  LET m == Len(s.fields)
  IN  /\ IsReading(s) /\ s.fields \in Seq(WireFields) /\ m <= Len(fields)
      /\ \A i \in 1 .. m : s.fields[i] = fields[i]
      /\ s.pos = EndIn(ends, m) + 1 /\ EndIn(ends, m) <= Len(body)
      /\ Gathers(s.message, s.fields)
      /\ s.ended \in {"reading", "whole", "raised"}
      /\ s.ended = "whole" => EndIn(ends, m) = Len(body)
      /\ s.ended = "raised" => m < Len(fields) /\ EndIn(ends, m) < Len(body) /\ Len(body) < EndIn(ends, m + 1)

LEMMA Chosen == \A S : S # {} => (CHOOSE x \in S : TRUE) \in S
  OBVIOUS

\* The three ways that a round of the generator goes.
LEMMA RoundOver ==
  ASSUME NEW s, NEW buf, IsReading(s), s.pos > Len(buf)
  PROVE  Wire!iter_fields(s, buf) =
           [pos |-> s.pos, fields |-> s.fields, message |-> s.message, ended |-> "whole"]
  BY DEF Wire!iter_fields, IsReading

LEMMA RoundRaised ==
  ASSUME NEW s, NEW buf, IsReading(s), ~(s.pos > Len(buf)), Wire!FieldAt(buf, s.pos) = {}
  PROVE  Wire!iter_fields(s, buf) =
           [pos |-> s.pos, fields |-> s.fields, message |-> s.message, ended |-> "raised"]
  BY DEF Wire!iter_fields, IsReading

LEMMA RoundYields ==
  ASSUME NEW s, NEW buf, ~(s.pos > Len(buf)), Wire!FieldAt(buf, s.pos) # {}
  PROVE  \E r \in Wire!FieldAt(buf, s.pos) :
           Wire!iter_fields(s, buf) =
             [pos |-> r.next, fields |-> Append(s.fields, r.field), message |-> Wire!_add(s.message, r.field),
              ended |-> "reading"]
<1>. DEFINE r == CHOOSE x \in Wire!FieldAt(buf, s.pos) : TRUE
<1>1. r \in Wire!FieldAt(buf, s.pos)
  BY Chosen
<1>2. Wire!iter_fields(s, buf) = Wire!Yielded(s, r)
  BY DEF Wire!iter_fields
<1>. HIDE DEF r
<1>. QED BY <1>1, <1>2 DEF Wire!Yielded

\* One round reads the next field that was written, or finds the end of the body
\* between two fields or inside the next one.
LEMMA RoundReads ==
  ASSUME NEW fields, NEW ends, NEW body, NEW s,
         LaidOut(fields, ends, body), HasRead(fields, ends, body, s), s.ended = "reading"
  PROVE  HasRead(fields, ends, body, Wire!iter_fields(s, body))
<1>. DEFINE n == Len(fields)
            m == Len(s.fields)
            at == EndIn(ends, m)
            next == Wire!iter_fields(s, body)
<1>1. /\ IsReading(s) /\ s.fields \in Seq(WireFields) /\ m <= n
      /\ \A i \in 1 .. m : s.fields[i] = fields[i]
      /\ s.pos = at + 1 /\ at <= Len(body)
      /\ Gathers(s.message, s.fields)
  BY DEF HasRead
<1>2. /\ fields \in Seq(WireFields) /\ ends \in Seq(Nat) /\ body \in Seq(Nat)
      /\ Len(ends) = n
      /\ \A i \in 1 .. n :
           /\ EndIn(ends, i) = EndIn(ends, i - 1) + Len(Written(fields[i]))
           /\ Matches(body, EndIn(ends, i - 1) + 1, Written(fields[i]))
      /\ Len(body) <= EndIn(ends, n)
  BY DEF LaidOut
<1>3. n \in Nat /\ m \in Nat /\ Len(body) \in Nat
  BY <1>1, <1>2
<1>4. at \in Nat
  <2>1. m = 0 \/ m \in 1 .. Len(ends)
    BY <1>1, <1>2, <1>3
  <2>. QED BY <1>2, <2>1 DEF EndIn
<1>. HIDE DEF n, at, next
<1>5. CASE s.pos > Len(body)
  <2>1. next = [pos |-> s.pos, fields |-> s.fields, message |-> s.message, ended |-> "whole"]
    BY <1>1, <1>5, RoundOver DEF next
  <2>2. at = Len(body)
    BY <1>1, <1>3, <1>4, <1>5
  <2>3. HasRead(fields, ends, body, next)
    BY <1>1, <2>1, <2>2 DEF HasRead, IsReading, n, at
  <2>. QED BY <2>3 DEF next
<1>6. CASE ~(s.pos > Len(body))
  <2>1. at < Len(body) /\ m + 1 <= n /\ m + 1 \in 1 .. n /\ (m + 1) - 1 = m
    <3>1. at < Len(body)
      BY <1>1, <1>3, <1>4, <1>6
    <3>2. m # n
      <4>1. m = n => at = EndIn(ends, n)
        BY DEF at
      <4>. QED BY <1>2, <1>3, <1>4, <3>1, <4>1
    <3>. QED BY <1>1, <1>3, <3>1, <3>2
  <2>. DEFINE f == fields[m + 1]
              w == Written(f)
              k == Len(w)
  <2>2. f \in WireFields
    BY <1>2, <2>1, SeqElements DEF n
  <2>3. EndIn(ends, m + 1) = at + k /\ Matches(body, at + 1, w)
    BY <1>2, <2>1 DEF at
  <2>4. at + 1 \in Nat \ {0}
    BY <1>4
  <2>. HIDE DEF f
  <2>5. /\ k \in Nat \ {0}
        /\ (at + 1) + k - 1 <= Len(body) =>
             Wire!FieldAt(body, at + 1) = {[field |-> f, next |-> (at + 1) + k]}
        /\ (at + 1) + k - 1 > Len(body) => Wire!FieldAt(body, at + 1) = {}
    BY <1>2, <2>2, <2>3, <2>4, FieldReadBack
  <2>. HIDE DEF k, w
  <2>6. CASE (at + 1) + k - 1 <= Len(body)
    <3>. DEFINE r == [field |-> f, next |-> (at + 1) + k]
    <3>1. Wire!FieldAt(body, s.pos) = {r}
      BY <1>1, <2>5, <2>6
    <3>2. r.field = f /\ r.next = (at + 1) + k
      OBVIOUS
    <3>. HIDE DEF r
    <3>3. next = [pos |-> r.next, fields |-> Append(s.fields, r.field), message |-> Wire!_add(s.message, r.field),
                  ended |-> "reading"]
      <4>1. Wire!FieldAt(body, s.pos) # {}
        BY <3>1
      <4>2. PICK x \in Wire!FieldAt(body, s.pos) :
              next = [pos |-> x.next, fields |-> Append(s.fields, x.field), message |-> Wire!_add(s.message, x.field),
                      ended |-> "reading"]
        BY <1>6, <4>1, RoundYields DEF next
      <4>3. x = r
        BY <3>1
      <4>. QED BY <4>2, <4>3
    <3>. DEFINE more == Append(s.fields, f)
                added == Wire!_add(s.message, f)
    <3>4. /\ more \in Seq(WireFields) /\ Len(more) = m + 1 /\ more[m + 1] = f
          /\ \A i \in 1 .. m : more[i] = s.fields[i]
      BY <1>1, <2>2
    <3>5. Gathers(added, more)
      BY <1>1, <2>2, MessageGathers
    <3>. HIDE DEF more, added
    <3>6. next = [pos |-> (at + 1) + k, fields |-> more, message |-> added, ended |-> "reading"]
      BY <3>2, <3>3 DEF more, added
    <3>7. next.pos = (at + 1) + k /\ next.fields = more /\ next.message = added /\ next.ended = "reading" /\ IsReading(next)
      BY <3>6 DEF IsReading
    <3>8. \A i \in 1 .. m + 1 : more[i] = fields[i]
      <4>1. ASSUME NEW i \in 1 .. m + 1 PROVE more[i] = fields[i]
        <5>1. CASE i = m + 1
          BY <3>4, <5>1 DEF f
        <5>2. CASE i # m + 1
          <6>1. i \in 1 .. m
            BY <1>3, <5>2
          <6>. QED BY <1>1, <3>4, <6>1
        <5>. QED BY <5>1, <5>2
      <4>. QED BY <4>1
    <3>9. EndIn(ends, m + 1) <= Len(body) /\ (at + 1) + k = EndIn(ends, m + 1) + 1
      BY <1>3, <1>4, <2>3, <2>5, <2>6
    <3>. HIDE DEF m
    <3>10. HasRead(fields, ends, body, next)
      BY <2>1, <3>4, <3>5, <3>7, <3>8, <3>9 DEF HasRead, n
    <3>. QED BY <3>10 DEF next
  <2>7. CASE ~((at + 1) + k - 1 <= Len(body))
    <3>1. (at + 1) + k - 1 > Len(body) /\ Len(body) < EndIn(ends, m + 1)
      BY <1>3, <1>4, <2>3, <2>5, <2>7
    <3>2. Wire!FieldAt(body, s.pos) = {}
      BY <1>1, <2>5, <3>1
    <3>3. next = [pos |-> s.pos, fields |-> s.fields, message |-> s.message, ended |-> "raised"]
      BY <1>1, <1>6, <3>2, RoundRaised DEF next
    <3>4. m < n
      BY <1>3, <2>1
    <3>5. HasRead(fields, ends, body, next)
      BY <1>1, <2>1, <3>1, <3>3, <3>4 DEF HasRead, IsReading, n, at
    <3>. QED BY <3>5 DEF next
  <2>. QED BY <2>6, <2>7
<1>. QED BY <1>5, <1>6

Bodies == [fields : Seq(WireFields), ends : Seq(Nat), body : Seq(Nat), arrived : BOOLEAN]
BodyInv ==
  kind = "body" =>
    /\ given \in Bodies
    /\ LaidOut(given.fields, given.ends, given.body)
    /\ HasRead(given.fields, given.ends, given.body, got)
    /\ ~given.arrived => got = Wire!Fresh /\ Len(given.body) = EndIn(given.ends, Len(given.ends))

LEMMA FreshHasRead ==
  ASSUME NEW fields, NEW ends, NEW body, LaidOut(fields, ends, body)
  PROVE  HasRead(fields, ends, body, Wire!Fresh)
<1>1. Wire!Fresh = [pos |-> 1, fields |-> <<>>, message |-> <<>>, ended |-> "reading"]
  BY DEF Wire!Fresh
<1>2. Len(fields) \in Nat /\ Len(body) \in Nat
  BY DEF LaidOut
<1>3. Gathers(<<>>, <<>>)
  <2>. DEFINE none == <<>>
  <2>1. DOMAIN none = {} /\ {none[i].no : i \in {}} = {}
    OBVIOUS
  <2>. HIDE DEF none
  <2>2. Gathers(none, none)
    BY <2>1, GroupedIsPlaced DEF Gathers
  <2>. QED BY <2>2 DEF none
<1>4. EndIn(ends, 0) = 0
  BY DEF EndIn
<1>5. <<>> \in Seq(WireFields) /\ Len(<<>>) = 0
  OBVIOUS
<1>. QED BY <1>1, <1>2, <1>3, <1>4, <1>5 DEF HasRead, IsReading

LEMMA BodyComes == OnBody => BodyInv'
<1>. SUFFICES ASSUME OnBody PROVE BodyInv'
  OBVIOUS
<1>1. given' = [fields |-> <<>>, ends |-> <<>>, body |-> <<>>, arrived |-> FALSE] /\ got' = Wire!Fresh
  BY DEF OnBody, Handled, Unwritten
<1>2. LaidOut(<<>>, <<>>, <<>>)
  BY DEF LaidOut, EndIn
<1>3. HasRead(<<>>, <<>>, <<>>, Wire!Fresh)
  BY <1>2, FreshHasRead
<1>4. Len(<<>>) = EndIn(<<>>, Len(<<>>))
  BY DEF EndIn
<1>5. given' \in Bodies
  BY <1>1 DEF Bodies
<1>. QED BY <1>1, <1>2, <1>3, <1>4, <1>5 DEF BodyInv

LEMMA BodyGrows == BodyInv /\ OnField => BodyInv'
<1>. SUFFICES ASSUME BodyInv, OnField PROVE BodyInv'
  OBVIOUS
<1>1. PICK f \in WireFields :
        Follows([given EXCEPT !.fields = Append(@, f), !.ends = Append(@, Len(given.body \o Written(f))),
                              !.body = given.body \o Written(f)], got)
  BY DEF OnField
<1>2. kind = "body" /\ ~given.arrived
  BY DEF OnField, GoesOn
<1>3. /\ given \in Bodies
      /\ LaidOut(given.fields, given.ends, given.body)
      /\ got = Wire!Fresh /\ Len(given.body) = EndIn(given.ends, Len(given.ends))
  BY <1>2 DEF BodyInv
<1>. DEFINE grown == given.body \o Written(f)
            longer == Append(given.ends, Len(grown))
            more == Append(given.fields, f)
<1>4. LaidOut(more, longer, grown) /\ Len(grown) = EndIn(longer, Len(longer))
  BY <1>3, LayoutGrows
<1>5. given' = [given EXCEPT !.fields = more, !.ends = longer, !.body = grown] /\ got' = got
  BY <1>1, Zenon DEF Follows
<1>. HIDE DEF grown, longer, more
<1>6. given' \in Bodies /\ given'.fields = more /\ given'.ends = longer /\ given'.body = grown
  <2>. DEFINE one == [given EXCEPT !.fields = more]
              two == [one EXCEPT !.ends = longer]
              three == [two EXCEPT !.body = grown]
  <2>1. more \in Seq(WireFields) /\ longer \in Seq(Nat) /\ grown \in Seq(Nat)
    BY <1>4 DEF LaidOut
  <2>2. given' = three
    BY <1>5, Zenon
  <2>3. one \in Bodies /\ one.fields = more
    BY <1>3, <2>1 DEF Bodies
  <2>. HIDE DEF one
  <2>4. two \in Bodies /\ two.fields = more /\ two.ends = longer
    BY <2>1, <2>3 DEF Bodies
  <2>. HIDE DEF two
  <2>5. three \in Bodies /\ three.fields = more /\ three.ends = longer /\ three.body = grown
    BY <2>1, <2>4 DEF Bodies
  <2>. QED BY <2>2, <2>5
<1>7. HasRead(more, longer, grown, Wire!Fresh)
  BY <1>4, FreshHasRead
<1>. QED BY <1>3, <1>4, <1>5, <1>6, <1>7 DEF BodyInv

LEMMA BodyArrives == BodyInv /\ OnArrival => BodyInv'
<1>. SUFFICES ASSUME BodyInv, OnArrival PROVE BodyInv'
  OBVIOUS
<1>1. PICK cut \in 0 .. Len(given.body) :
        Follows([given EXCEPT !.body = SubSeq(given.body, 1, cut), !.arrived = TRUE], got)
  BY DEF OnArrival
<1>2. kind = "body" /\ ~given.arrived
  BY DEF OnArrival, GoesOn
<1>3. /\ given \in Bodies
      /\ LaidOut(given.fields, given.ends, given.body)
      /\ got = Wire!Fresh
  BY <1>2 DEF BodyInv
<1>. DEFINE short == SubSeq(given.body, 1, cut)
<1>4. LaidOut(given.fields, given.ends, short)
  BY <1>3, LayoutCut
<1>5. given' = [given EXCEPT !.body = short, !.arrived = TRUE] /\ got' = got
  BY <1>1, Zenon DEF Follows
<1>. HIDE DEF short
<1>6. given' \in Bodies /\ given'.fields = given.fields /\ given'.ends = given.ends /\ given'.body = short
      /\ given'.arrived
  <2>. DEFINE one == [given EXCEPT !.body = short]
              two == [one EXCEPT !.arrived = TRUE]
  <2>1. short \in Seq(Nat)
    BY <1>4 DEF LaidOut
  <2>2. given' = two
    BY <1>5, Zenon
  <2>3. one \in Bodies /\ one.fields = given.fields /\ one.ends = given.ends /\ one.body = short
    BY <1>3, <2>1 DEF Bodies
  <2>. HIDE DEF one
  <2>4. two \in Bodies /\ two.fields = one.fields /\ two.ends = one.ends /\ two.body = one.body /\ two.arrived
    BY <2>3 DEF Bodies
  <2>. QED BY <2>2, <2>3, <2>4
<1>7. HasRead(given.fields, given.ends, short, Wire!Fresh)
  BY <1>4, FreshHasRead
<1>. QED BY <1>3, <1>4, <1>5, <1>6, <1>7 DEF BodyInv

LEMMA BodyRead == BodyInv /\ OnReadBody => BodyInv'
<1>. SUFFICES ASSUME BodyInv, OnReadBody PROVE BodyInv'
  OBVIOUS
<1>1. /\ kind = "body" /\ given.arrived /\ got.ended = "reading"
      /\ given' = given /\ got' = Wire!iter_fields(got, given.body)
  BY DEF OnReadBody, GoesOn, Follows
<1>2. /\ given \in Bodies
      /\ LaidOut(given.fields, given.ends, given.body)
      /\ HasRead(given.fields, given.ends, given.body, got)
  BY <1>1 DEF BodyInv
<1>3. HasRead(given.fields, given.ends, given.body, Wire!iter_fields(got, given.body))
  BY <1>1, <1>2, RoundReads
<1>. QED BY <1>1, <1>2, <1>3 DEF BodyInv

\* The fields that any bytes hold.
Readable(buf) == {r.field : r \in UNION {Wire!FieldAt(buf, p) : p \in Nat}}

BytesInv ==
  kind = "bytes" =>
    /\ given = [ends |-> given.ends, body |-> given.body]
    /\ given.body \in Seq(0 .. 2 * More - 1) /\ given.ends \in Seq(Nat)
    /\ IsReading(got) /\ got.fields \in Seq(Readable(given.body)) /\ Len(given.ends) = Len(got.fields)
    /\ got.pos = EndIn(given.ends, Len(given.ends)) + 1 /\ EndIn(given.ends, Len(given.ends)) <= Len(given.body)
    /\ \A i \in 1 .. Len(given.ends) :
         Len(Written(got.fields[i])) <= EndIn(given.ends, i) - EndIn(given.ends, i - 1)

LEMMA BytesCome == OnBytes => BytesInv'
<1>. SUFFICES ASSUME OnBytes PROVE BytesInv'
  OBVIOUS
<1>0. PICK n \in 0 .. MaxBytes :
        \E buf \in [1 .. n -> SomeBytes] : Handled([ends |-> <<>>, body |-> buf], Wire!Fresh)
  BY DEF OnBytes
<1>1. PICK buf \in [1 .. n -> SomeBytes] : Handled([ends |-> <<>>, body |-> buf], Wire!Fresh)
  BY <1>0
<1>2. given' = [ends |-> <<>>, body |-> buf] /\ got' = Wire!Fresh
  BY <1>1 DEF Handled
<1>3. buf \in Seq(0 .. 2 * More - 1) /\ Len(buf) \in Nat
  <2>. DEFINE S == 0 .. 2 * More - 1
  <2>1. n \in Nat /\ SomeBytes \subseteq S
    BY WireAssumption
  <2>. HIDE DEF S
  <2>2. buf \in [1 .. n -> S]
    BY <2>1
  <2>3. buf \in Seq(S) /\ Len(buf) \in Nat
    BY <2>1, <2>2
  <2>. QED BY <2>3 DEF S
<1>4. Wire!Fresh = [pos |-> 1, fields |-> <<>>, message |-> <<>>, ended |-> "reading"]
  BY DEF Wire!Fresh
<1>5. <<>> \in Seq(Readable(buf)) /\ <<>> \in Seq(Nat) /\ Len(<<>>) = 0 /\ EndIn(<<>>, 0) = 0
  BY DEF EndIn
<1>. QED BY <1>2, <1>3, <1>4, <1>5 DEF BytesInv, IsReading

LEMMA BytesRead == BytesInv /\ OnReadBytes => BytesInv'
<1>. SUFFICES ASSUME BytesInv, OnReadBytes PROVE BytesInv'
  OBVIOUS
<1>. DEFINE buf == given.body
            ends == given.ends
            n == Len(ends)
            at == EndIn(ends, n)
            next == Wire!iter_fields(got, buf)
            S == 0 .. 2 * More - 1
<1>1. /\ kind = "bytes" /\ got' = next
      /\ given' = [given EXCEPT !.ends = IF next.ended = "reading" THEN Append(ends, next.pos - 1) ELSE ends]
  BY DEF OnReadBytes, GoesOn, Follows
<1>2. /\ given = [ends |-> ends, body |-> buf]
      /\ buf \in Seq(S) /\ ends \in Seq(Nat)
      /\ IsReading(got) /\ got.fields \in Seq(Readable(buf)) /\ n = Len(got.fields)
      /\ got.pos = at + 1 /\ at <= Len(buf)
      /\ \A i \in 1 .. n : Len(Written(got.fields[i])) <= EndIn(ends, i) - EndIn(ends, i - 1)
  BY <1>1 DEF BytesInv
<1>. HIDE DEF S, next, at
<1>3. n \in Nat /\ Len(buf) \in Nat
  BY <1>2
<1>4. at \in Nat
  <2>1. n = 0 \/ n \in 1 .. Len(ends)
    BY <1>3
  <2>. QED BY <1>2, <2>1 DEF EndIn, at
<1>5. ASSUME NEW longer,
             given' = [given EXCEPT !.ends = longer]
      PROVE  given' = [ends |-> longer, body |-> buf]
  BY <1>2, <1>5
<1>6. ASSUME next.ended # "reading", next.fields = got.fields, next.pos = got.pos, IsReading(next)
      PROVE  BytesInv'
  <2>1. given' = [ends |-> ends, body |-> buf] /\ got' = next
    BY <1>1, <1>5, <1>6
  <2>2. given'.ends = ends /\ given'.body = buf /\ got'.fields = got.fields /\ got'.pos = at + 1 /\ IsReading(got')
    BY <1>2, <1>6, <2>1
  <2>3. /\ given'.body \in Seq(S) /\ given'.ends \in Seq(Nat) /\ got'.fields \in Seq(Readable(given'.body))
        /\ Len(given'.ends) = Len(got'.fields) /\ got'.pos = EndIn(given'.ends, Len(given'.ends)) + 1
        /\ EndIn(given'.ends, Len(given'.ends)) <= Len(given'.body)
    BY <1>2, <2>2 DEF at
  <2>4. \A i \in 1 .. Len(given'.ends) :
          Len(Written(got'.fields[i])) <= EndIn(given'.ends, i) - EndIn(given'.ends, i - 1)
    BY <1>2, <2>2
  <2>. QED BY <2>1, <2>2, <2>3, <2>4 DEF BytesInv, S
<1>7. CASE got.pos > Len(buf)
  <2>1. next = [pos |-> got.pos, fields |-> got.fields, message |-> got.message, ended |-> "whole"]
    BY <1>2, <1>7, RoundOver DEF next
  <2>. QED BY <1>6, <2>1 DEF IsReading
<1>8. CASE ~(got.pos > Len(buf)) /\ Wire!FieldAt(buf, got.pos) = {}
  <2>1. next = [pos |-> got.pos, fields |-> got.fields, message |-> got.message, ended |-> "raised"]
    BY <1>2, <1>8, RoundRaised DEF next
  <2>. QED BY <1>6, <2>1 DEF IsReading
<1>9. CASE ~(got.pos > Len(buf)) /\ Wire!FieldAt(buf, got.pos) # {}
  <2>1. PICK r \in Wire!FieldAt(buf, got.pos) :
          next = [pos |-> r.next, fields |-> Append(got.fields, r.field), message |-> Wire!_add(got.message, r.field),
                  ended |-> "reading"]
    BY <1>9, RoundYields DEF next
  <2>2. got.pos = at + 1 /\ at + 1 \in Nat \ {0} /\ at + 1 \in Nat
    BY <1>2, <1>4
  <2>. DEFINE w == Written(r.field)
  <2>3. r.next \in Nat /\ r.next > at + 1 /\ r.next <= Len(buf) + 1 /\ Len(w) <= r.next - (at + 1)
    BY <1>2, <2>2, FieldHasBytes DEF TakenBy, S
  <2>4. r.field \in Readable(buf)
    BY <2>2 DEF Readable
  <2>. DEFINE f == r.field
              end == r.next - 1
              more == Append(got.fields, f)
              longer == Append(ends, end)
              added == Wire!_add(got.message, f)
              R == Readable(buf)
  <2>5. end \in Nat /\ end <= Len(buf) /\ r.next = end + 1 /\ Len(w) <= end - at
    <3>. HIDE DEF w
    <3>. QED BY <1>3, <1>4, <2>3
  <2>6. f \in R /\ got.fields \in Seq(R)
    BY <1>2, <2>4
  <2>. HIDE DEF w, end, f, R, added
  <2>7. /\ more \in Seq(R) /\ Len(more) = n + 1 /\ more[n + 1] = f
        /\ \A i \in 1 .. n : more[i] = got.fields[i]
    BY <1>2, <2>6
  <2>8. /\ longer \in Seq(Nat) /\ Len(longer) = n + 1 /\ longer[n + 1] = end
        /\ \A i \in 1 .. n : longer[i] = ends[i]
    BY <1>2, <2>5
  <2>. HIDE DEF more, longer
  <2>9. next = [pos |-> end + 1, fields |-> more, message |-> added, ended |-> "reading"]
    BY <2>1, <2>5 DEF more, added, f
  <2>10. next.pos = end + 1 /\ next.fields = more /\ next.ended = "reading" /\ IsReading(next)
    BY <2>9 DEF IsReading
  <2>11. given' = [ends |-> longer, body |-> buf]
    <3>1. next.pos - 1 = end
      BY <2>5, <2>10
    <3>2. given' = [given EXCEPT !.ends = longer]
      BY <1>1, <2>10, <3>1 DEF longer
    <3>. QED BY <1>5, <3>2
  <2>12. given'.ends = longer /\ given'.body = buf /\ got' = next
    BY <1>1, <2>11
  <2>. HIDE DEF n
  <2>13. /\ \A i \in 0 .. n : EndIn(longer, i) = EndIn(ends, i)
         /\ EndIn(longer, n + 1) = end
    BY <1>3, <2>8 DEF EndIn
  <2>14. ASSUME NEW i \in 1 .. n + 1 PROVE Len(Written(more[i])) <= EndIn(longer, i) - EndIn(longer, i - 1)
    <3>1. CASE i = n + 1
      <4>1. i - 1 = n /\ n \in 0 .. n
        BY <1>3, <3>1
      <4>2. EndIn(longer, i - 1) = at /\ EndIn(longer, i) = end
        BY <2>13, <3>1, <4>1 DEF at
      <4>3. Len(Written(more[i])) = Len(w)
        BY <2>7, <3>1 DEF w, f
      <4>. QED BY <2>5, <4>2, <4>3
    <3>2. CASE i # n + 1
      <4>1. i \in 1 .. n /\ i \in 0 .. n /\ i - 1 \in 0 .. n
        BY <1>3, <3>2
      <4>. QED BY <1>2, <2>7, <2>13, <4>1
    <3>. QED BY <3>1, <3>2
  <2>15. EndIn(longer, Len(longer)) = end
    BY <2>8, <2>13
  <2>16. more \in Seq(Readable(buf)) /\ Len(longer) = Len(more)
    BY <2>7, <2>8 DEF R
  <2>17. /\ given' = [ends |-> given'.ends, body |-> given'.body]
         /\ given'.body \in Seq(0 .. 2 * More - 1) /\ given'.ends \in Seq(Nat)
         /\ IsReading(got') /\ got'.fields \in Seq(Readable(given'.body)) /\ Len(given'.ends) = Len(got'.fields)
    BY <1>2, <2>8, <2>10, <2>11, <2>12, <2>16 DEF S
  <2>18. /\ got'.pos = EndIn(given'.ends, Len(given'.ends)) + 1
         /\ EndIn(given'.ends, Len(given'.ends)) <= Len(given'.body)
    BY <2>5, <2>10, <2>12, <2>15
  <2>19. \A i \in 1 .. Len(given'.ends) :
           Len(Written(got'.fields[i])) <= EndIn(given'.ends, i) - EndIn(given'.ends, i - 1)
    BY <2>8, <2>10, <2>12, <2>14
  <2>. QED BY <2>17, <2>18, <2>19 DEF BytesInv
<1>. QED BY <1>7, <1>8, <1>9

WireInv == BodyInv /\ BytesInv

LEMMA WireStep == WireInv /\ [WireNext \/ Rest \/ Elsewhere(WireKinds)]_vars => WireInv'
<1>. SUFFICES ASSUME WireInv, [WireNext \/ Rest \/ Elsewhere(WireKinds)]_vars PROVE WireInv'
  OBVIOUS
<1>1. CASE OnBody
  <2>1. kind' = "body"
    BY <1>1 DEF OnBody, Comes, Handled
  <2>. QED BY <1>1, <2>1, BodyComes DEF WireInv, BytesInv
<1>2. CASE OnField
  <2>1. kind' = "body"
    BY <1>2 DEF OnField, GoesOn, Follows
  <2>. QED BY <1>2, <2>1, BodyGrows DEF WireInv, BytesInv
<1>3. CASE OnArrival
  <2>1. kind' = "body"
    BY <1>3 DEF OnArrival, GoesOn, Follows
  <2>. QED BY <1>3, <2>1, BodyArrives DEF WireInv, BytesInv
<1>4. CASE OnReadBody
  <2>1. kind' = "body"
    BY <1>4 DEF OnReadBody, GoesOn, Follows
  <2>. QED BY <1>4, <2>1, BodyRead DEF WireInv, BytesInv
<1>5. CASE OnBytes
  <2>1. kind' = "bytes"
    BY <1>5 DEF OnBytes, Comes, Handled
  <2>. QED BY <1>5, <2>1, BytesCome DEF WireInv, BodyInv
<1>6. CASE OnReadBytes
  <2>1. kind' = "bytes"
    BY <1>6 DEF OnReadBytes, GoesOn, Follows
  <2>. QED BY <1>6, <2>1, BytesRead DEF WireInv, BodyInv
<1>7. CASE Rest
  BY <1>7 DEF Rest, WireInv, BodyInv, BytesInv
<1>8. CASE Elsewhere(WireKinds)
  BY <1>8 DEF Elsewhere, WireKinds, WireInv, BodyInv, BytesInv
<1>9. CASE UNCHANGED vars
  BY <1>9 DEF vars, WireInv, BodyInv, BytesInv
<1>. QED BY <1>1, <1>2, <1>3, <1>4, <1>5, <1>6, <1>7, <1>8, <1>9 DEF WireNext

\* What is known of a body says that it is read back.
LEMMA BodyIsStated == BodyInv => BodyIsReadBack
<1>. SUFFICES ASSUME BodyInv, kind = "body" PROVE BodyIsReadBack
  BY DEF BodyIsReadBack
<1>. DEFINE fields == given.fields
            ends == given.ends
            body == given.body
            n == Len(fields)
            m == Len(got.fields)
<1>1. LaidOut(fields, ends, body) /\ HasRead(fields, ends, body, got)
  BY DEF BodyInv
<1>2. /\ m \in Nat /\ n \in Nat /\ Len(body) \in Nat /\ Len(ends) = n
      /\ \A i, j \in 0 .. n : i <= j => EndIn(ends, i) <= EndIn(ends, j)
      /\ \A i \in 0 .. n : EndIn(ends, i) \in Nat
  <2>1. /\ ends \in Seq(Nat) /\ Len(ends) = n /\ fields \in Seq(WireFields) /\ body \in Seq(Nat)
        /\ got.fields \in Seq(WireFields)
        /\ \A i, j \in 0 .. n : i <= j => EndIn(ends, i) <= EndIn(ends, j)
    BY <1>1 DEF LaidOut, HasRead
  <2>2. n \in Nat /\ m \in Nat /\ Len(body) \in Nat
    BY <2>1
  <2>3. \A i \in 0 .. n : EndIn(ends, i) \in Nat
    BY <2>1 DEF EndIn
  <2>. QED BY <2>1, <2>2, <2>3
<1>3. \A i : End(i) = EndIn(ends, i)
  BY DEF End, EndIn
<1>4. /\ m <= n /\ EndIn(ends, m) <= Len(body)
      /\ \A i \in 1 .. m : got.fields[i] = fields[i]
      /\ GroupedAs(got.message, got.fields)
      /\ got.ended = "whole" => EndIn(ends, m) = Len(body)
      /\ got.ended = "raised" => m < n /\ EndIn(ends, m) < Len(body) /\ Len(body) < EndIn(ends, m + 1)
  BY <1>1 DEF HasRead, Gathers
<1>. HIDE DEF n, m, fields, ends, body
<1>5. ASSUME got.ended = "raised", NEW i \in 0 .. n PROVE EndIn(ends, i) # Len(body)
  <2>1. m \in 0 .. n /\ m + 1 \in 0 .. n
    BY <1>2, <1>4, <1>5
  <2>2. CASE i <= m
    <3>1. EndIn(ends, i) <= EndIn(ends, m)
      BY <1>2, <2>1, <2>2
    <3>2. EndIn(ends, i) \in Nat /\ EndIn(ends, m) \in Nat
      BY <1>2, <2>1
    <3>. QED BY <1>2, <1>4, <1>5, <3>1, <3>2
  <2>3. CASE m + 1 <= i
    <3>1. EndIn(ends, m + 1) <= EndIn(ends, i)
      BY <1>2, <2>1, <2>3
    <3>2. EndIn(ends, i) \in Nat /\ EndIn(ends, m + 1) \in Nat
      BY <1>2, <2>1
    <3>. QED BY <1>2, <1>4, <1>5, <3>1, <3>2
  <2>. QED BY <1>2, <2>2, <2>3
<1>. QED BY <1>3, <1>4, <1>5 DEF BodyIsReadBack, n, m, fields, ends, body

LEMMA BytesAreStated == BytesInv => NothingInvented
<1>. SUFFICES ASSUME BytesInv, kind = "bytes" PROVE NothingInvented
  BY DEF NothingInvented
<1>1. /\ Len(given.ends) = Len(got.fields) /\ EndIn(given.ends, Len(given.ends)) <= Len(given.body)
      /\ DOMAIN got.fields = 1 .. Len(given.ends)
      /\ \A i \in 1 .. Len(given.ends) :
           Len(Written(got.fields[i])) <= EndIn(given.ends, i) - EndIn(given.ends, i - 1)
  BY DEF BytesInv
<1>2. \A i : End(i) = EndIn(given.ends, i)
  BY DEF End, EndIn
<1>. QED BY <1>1, <1>2 DEF NothingInvented

LEMMA WireCorrect == WireSpec => []WireInv
<1>1. Init => WireInv
  BY DEF Init, WireInv, BodyInv, BytesInv
<1>. QED BY <1>1, WireStep, PTL DEF WireSpec

\* A body of any fields and any length reads back as they were written, in order
\* and grouped by number, or is an error when it was cut off inside one; and of
\* any bytes at all no field is read that they do not hold (iter_fields, parse).
THEOREM BodiesReadBack == WireSpec => []BodiesAreFaithful
<1>1. WireInv => BodiesAreFaithful
  BY BodyIsStated, BytesAreStated DEF WireInv, BodiesAreFaithful
<1>. QED BY <1>1, WireCorrect, PTL

=============================================================================
