-------------------------------- MODULE Wire --------------------------------
(***************************************************************************)
(* The way of the bus to its viewers: frames are read and recorded, leave  *)
(* the backend in batches, some of which a slow connection loses, and are  *)
(* parsed by the cockpit, whose Inspector puts diagnostic transfers        *)
(* together, and by the phone, whose tiles and gauge decode the signals    *)
(* that are watched. Afterwards the recording is played to them.           *)
(*                                                                         *)
(* The threads and queues this runs on are Engine's subject, the rows of   *)
(* the analysis worker MessageModel's. A frame carries n, its place on the *)
(* bus, for the properties only.                                           *)
(***************************************************************************)
EXTENDS Diagnostic

CONSTANTS
  Buses,       \* what may be on the bus: [frames, transfers]
  DiagId,      \* the id the Inspector shows
  InspectorWindow, \* frames of it the Inspector looks back on
  Watches,     \* signals the phone may watch: [key, id, ext, start, len, order]
  NoKey,       \* no gauge
  NoValue,     \* a tile that has shown nothing yet
  GaugeCap,    \* values the gauge's line holds
  ReplayAt,    \* the clock when the recording is played
  MaxBatch,    \* bound: frames of a batch
  MaxEvents    \* bound: batches lost, recordings toggled, tiles added, removed or picked

\* A frame carries as many bytes as its length says, but for a remote request, which carries
\* none; an id of more than 11 bits is an extended one.
ASSUME BusAssumption ==
  \A b \in Buses :
    /\ b.frames \in Seq(Range(b.frames))
    /\ \A i \in DOMAIN b.frames :
         LET f == b.frames[i]
         IN  /\ f \in [t : Int, id : 0 .. IdMod - 1, ext : BOOLEAN, err : BOOLEAN, rtr : BOOLEAN,
                      dlc : 0 .. MaxDlc, data : Seq(0 .. Byte - 1), of : {f.of}, n : {i}]
             /\ Len(f.data) = IF f.rtr THEN 0 ELSE f.dlc
             /\ f.ext \/ f.id <= StdMax

ASSUME PhoneAssumption ==
  /\ GaugeCap \in Nat \ {0} /\ ReplayAt \in Int
  /\ \A w \in Watches : w.key # NoKey /\ w \in [key : {w.key}, id : {w.id}, ext : {w.ext},
                                              start : {w.start}, len : {w.len}, order : {w.order}]

VARIABLES
  bus,       \* what the bus carries, or carried
  left,      \* frames still to be read
  source,    \* "live" or "replay"
  recording, \* is a recording under way
  file,      \* its lines
  batch,     \* frames read since the last batch
  shows,     \* frames of DiagId the cockpit keeps
  scratch,   \* the phone parser's payload
  entries,   \* the phone's tiles: [watch, value], history: the frames that came since
  gauge,     \* [key, line], history: the frames that came since it was picked
  events     \* what the bound counts

phoneVars == <<entries, gauge>>
wireVars == <<bus, left, source, recording, file, batch, shows, scratch, phoneVars, events>>

-----------------------------------------------------------------------------
(* The phone. *)

\* Bits beyond the payload read as 0. A big-endian field goes down the byte and on to the
\* top of the next.
BitAt(bytes, byte, bit) ==
  IF byte < Len(bytes) THEN (bytes[byte + 1] \div 2^bit) % 2 ELSE 0

PlaceOf(w, i) ==
  LET width == 2 * NibBits
      fromTop == width * (w.start \div width) + width - 1 - (w.start % width) + i
  IN  IF w.order = "little" THEN [byte |-> (w.start + i) \div width, bit |-> (w.start + i) % width]
      ELSE [byte |-> fromTop \div width, bit |-> width - 1 - (fromTop % width)]

WeightOf(w, i) == IF w.order = "little" THEN 2^i ELSE 2^(w.len - 1 - i)

ExtractWatched(bytes, w) ==
  LET weighed(place, weight) == weight * BitAt(bytes, place.byte, place.bit)
  IN  FoldSet(LAMBDA i, sum : sum + weighed(PlaceOf(w, i), WeightOf(w, i)), 0, 0 .. w.len - 1)

MatchesFrame(w, f) == f.id = w.id /\ f.ext = w.ext

ApplyRecord(tiles, f) ==
  [i \in DOMAIN tiles |->
     IF MatchesFrame(tiles[i].watch, f)
     THEN [tiles[i] EXCEPT !.value = ExtractWatched(f.data, tiles[i].watch)] ELSE tiles[i]]

GaugePush(line, v) ==
  IF Len(line) < GaugeCap THEN Append(line, v) ELSE Append(Tail(line), v)

\* Every tile of the frame, and the gauge's line behind its own.
OnRecord(phone, f) ==
  LET shown == {i \in DOMAIN phone.entries :
                  phone.entries[i].watch.key = phone.gauge.key
                    /\ MatchesFrame(phone.entries[i].watch, f)}
  IN  [entries |-> ApplyRecord(phone.entries, f),
       gauge |-> IF shown = {} THEN phone.gauge
                 ELSE [phone.gauge EXCEPT
                         !.line = GaugePush(@, ExtractWatched(f.data, phone.entries[Max(shown)].watch))]]

Watched == {entries[i].watch.key : i \in DOMAIN entries}

NewLatest(w) == [watch |-> w, value |-> NoValue, came |-> <<>>]

SetGauge(key) == IF gauge.key = key THEN gauge
                 ELSE [key |-> key, line |-> <<>>, came |-> <<>>]

Happens == events < MaxEvents /\ events' = events + 1

\* Bound: between two batches of the live bus. No other step reads what is touched here.
Touch == source = "live" /\ batch = <<>> /\ Happens
         /\ UNCHANGED <<bus, left, source, recording, file, batch, shows, scratch>>

AddWatch(w) ==
  /\ Touch /\ w.key \notin Watched
  /\ entries' = Append(entries, NewLatest(w))
  /\ gauge' = IF gauge.key = NoKey THEN SetGauge(w.key) ELSE gauge

RemoveWatch(i) ==
  /\ Touch
  /\ entries' = RemoveAt(entries, i)
  /\ gauge' = IF gauge.key # entries[i].watch.key THEN gauge
              ELSE [key |-> IF entries' = <<>> THEN NoKey ELSE entries'[1].watch.key,
                    line |-> <<>>, came |-> <<>>]

PickGauge(i) == Touch /\ gauge' = SetGauge(entries[i].watch.key) /\ UNCHANGED entries

-----------------------------------------------------------------------------
(* The backend. *)

\* A frame is read, recorded and put into the batch.
Read ==
  /\ left # <<>> /\ Len(batch) < MaxBatch
  /\ left' = Tail(left) /\ batch' = Append(batch, Head(left))
  /\ file' = IF recording /\ source = "live"
             THEN Append(file, [line |-> FormatLine(Head(left)), n |-> Head(left).n]) ELSE file
  /\ UNCHANGED <<bus, source, recording, shows, scratch, phoneVars, events>>

\* A recording may begin and end anywhere (bound: between two batches); a later one is
\* another file.
ToggleRecording ==
  /\ batch = <<>> /\ source = "live" /\ (file = <<>> \/ recording) /\ Happens
  /\ recording' = ~recording
  /\ UNCHANGED <<bus, left, source, file, batch, shows, scratch, phoneVars>>

Encoded == EncodeBatch(batch, Head(batch).t, source = "replay")

\* A frame with its place.
AtPlace(f, n) ==
  [t |-> f.t, id |-> f.id, ext |-> f.ext, err |-> f.err, rtr |-> f.rtr, dlc |-> f.dlc,
   data |-> f.data, n |-> n]

\* What the parsers hand on, each with its place.
Placed(frames) == [i \in DOMAIN frames |-> AtPlace(frames[i], batch[i].n)]

Places == [i \in DOMAIN batch |-> batch[i].n]

OfDiagId(frames) == SelectSeq(frames, LAMBDA f : f.id = DiagId /\ ~f.ext)

LastOf(frames, n) == SubSeq(frames, Len(frames) - Lesser(n, Len(frames)) + 1, Len(frames))

\* The phone after it has taken frames one by one.
Heard(phone, frames) ==
  LET after[i \in 0 .. Len(frames)] == IF i = 0 THEN phone ELSE OnRecord(after[i - 1], frames[i])
  IN  after[Len(frames)]

Delivered(onPhone) ==
  LET phone == Heard([entries |-> entries, gauge |-> gauge], onPhone)
  IN  /\ shows' = LastOf(shows \o OfDiagId(Placed(ParseCockpit(Encoded))), InspectorWindow)
      /\ scratch' = Last(onPhone).data
      /\ entries' = [i \in DOMAIN phone.entries |-> [phone.entries[i] EXCEPT !.came = @ \o Places]]
      /\ gauge' = IF gauge.key = NoKey THEN gauge ELSE [phone.gauge EXCEPT !.came = @ \o Places]

\* A batch reaches the viewers.
Deliver ==
  /\ batch # <<>> /\ Fits(batch, Head(batch).t)
  /\ Delivered(ParsePhone(Encoded, scratch))
  /\ batch' = <<>>
  /\ UNCHANGED <<bus, left, source, recording, file, events>>

\* The queue of a slow viewer is full: the whole batch is dropped.
DropBatch ==
  /\ batch # <<>> /\ Happens
  /\ batch' = <<>>
  /\ UNCHANGED <<bus, left, source, recording, file, shows, scratch, phoneVars>>

\* The cockpit connects to the recording and forgets what it showed; the phone stays.
Replay ==
  /\ source = "live" /\ left = <<>> /\ batch = <<>> /\ file # <<>>
  /\ source' = "replay" /\ recording' = FALSE
  /\ left' = [i \in DOMAIN file |->
                AtPlace(ReplayedFrame(ParseLine(file[i].line), file[1].line, ReplayAt), file[i].n)]
  /\ shows' = <<>>
  /\ UNCHANGED <<bus, file, batch, scratch, phoneVars, events>>

WireInit ==
  /\ bus \in Buses /\ left = bus.frames
  /\ source = "live" /\ recording = TRUE /\ file = <<>> /\ batch = <<>>
  /\ shows = <<>> /\ scratch = Padded(<<>>)
  /\ entries = <<>> /\ gauge = [key |-> NoKey, line |-> <<>>, came |-> <<>>]
  /\ events = 0

WireNext ==
  \/ Read \/ Deliver \/ DropBatch \/ ToggleRecording \/ Replay
  \/ \E w \in Watches : AddWatch(w)
  \/ \E i \in DOMAIN entries : RemoveWatch(i) \/ PickGauge(i)

WireSpec == WireInit /\ [][WireNext]_wireVars

-----------------------------------------------------------------------------
(* Properties *)

\* The frame of the bus that a viewer's frame is, and as it should be shown: the recording
\* keeps no error flag.
Original(n) == bus.frames[n]
AsHeard(n, from) == [Original(n) EXCEPT !.err = @ /\ from = "live"]

\* Frames of DiagId that went by between two places and are not shown.
Missing(from, to) ==
  {n \in from .. to : Original(n).id = DiagId /\ ~Original(n).ext} \ {f.n : f \in Range(shows)}

Shown == Inspected(DiagId, FALSE, [i \in DOMAIN shows |-> shows[i].data])

\* How many frames in a row make one transfer of so many consecutive frames run on into
\* another unnoticed.
Confusable(consecutive) == ((consecutive - 1) % Nib) + 2

(* A transfer the Inspector shows as complete is, byte for byte, the one whose first frame
   was the last to arrive, and names its service, whatever batches were lost, wherever the
   recording that is played begins and ends, and whatever else was sent on the id; only
   the loss of as many frames as Confusable says can join two transfers. *)
ShownIsSent ==
  Shown # None =>
    \A i \in {Max(Starts([k \in DOMAIN shows |-> shows[k].data]) \cup {0})} \ {0} :
      LET sent == bus.transfers[Original(shows[i].n).of]
      IN  /\ Shown.meaning = DecodeServicePayload(sent.bytes)
          /\ Shown.reassembly.total = Len(sent.bytes)
          /\ Shown.reassembly.complete =>
               \/ Shown.reassembly.bytes = sent.bytes
               \/ Cardinality(Missing(shows[i].n, Last(shows).n)) >= Confusable(sent.consecutive)

\* A frame without its stamp; the bytes of a remote request are zeros once it has travelled.
Plain(f) == [id |-> f.id, ext |-> f.ext, err |-> f.err, rtr |-> f.rtr, dlc |-> f.dlc,
             data |-> SubSeq(Padded(f.data), 1, f.dlc)]

\* What a watch reads in the frames that came, each filled up with zeros.
ValuesIn(w, came) ==
  LET read[i \in 0 .. Len(came)] ==
        IF i = 0 THEN <<>>
        ELSE IF MatchesFrame(w, Original(came[i]))
        THEN Append(read[i - 1], ExtractWatched(Padded(Original(came[i]).data), w)) ELSE read[i - 1]
  IN  read[Len(came)]

(* All roads carry the same frame: what the decoders read out of a batch (one that cannot be
   encoded reaches none), live or from a recording, is what was on the bus, but for the error
   flag a recording does not keep; they read every batch alike; the phone's tiles and its
   gauge show what the payloads that reached it say, though its parser overwrites them, and
   the gauge no value from before it was picked. *)
RoadsAgree ==
  /\ batch # <<>> /\ Fits(batch, Head(batch).t) =>
       /\ EncodeShared(batch, Head(batch).t, source = "replay") = Encoded
       /\ DecodeBackend(Encoded) = ParseCockpit(Encoded)
       /\ DecodeShared(Encoded) = ParseCockpit(Encoded)
       /\ \A i \in DOMAIN batch :
            LET f == ParseCockpit(Encoded)[i]
            IN  f.t = batch[i].t /\ Plain(f) = Plain(AsHeard(batch[i].n, source))
  /\ \A i \in DOMAIN entries :
       LET values == ValuesIn(entries[i].watch, entries[i].came)
       IN  entries[i].value = IF values = <<>> THEN NoValue ELSE Last(values)
  /\ gauge.key # NoKey <=> entries # <<>>
  /\ \A i \in DOMAIN entries :
       entries[i].watch.key = gauge.key =>
         gauge.line = LastOf(ValuesIn(entries[i].watch, gauge.came), GaugeCap)
=============================================================================
