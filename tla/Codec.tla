------------------------------- MODULE Codec -------------------------------
(***************************************************************************)
(* A CAN frame on its way: the binary batch the backend encodes            *)
(* (protocol.py) and four programs decode (protocol.py, shared/protocol.ts,*)
(* the cockpit's parseBatch.ts and the phone's parse.ts), and the candump  *)
(* line a recording keeps of it (candump_log.py), which adapters/replay.py *)
(* turns into a frame again.                                               *)
(*                                                                         *)
(* A frame is a record [t, id, ext, err, rtr, dlc, data]. Offsets of       *)
(* fields and digits are left out; what a field cannot hold is not.        *)
(***************************************************************************)
EXTENDS Integers, Sequences, SequencesExt

CONSTANTS
  NibBits,  \* bits of half a byte, 4
  MaxDlc,   \* bytes a classic frame carries, 8
  StdMax,   \* the highest id of 11 bits, 0x7FF
  IdMod,    \* ids have 29 bits: 0x20000000
  CountMod, \* a batch's count has 16 bits,
  DtMod,    \* an offset from its base 32
  Version,  \* the protocol version all parts were built with
  Refused   \* what a decoder answers to a batch it does not take

ASSUME CodecAssumption ==
  /\ NibBits \in Nat \ {0} /\ MaxDlc \in Nat \ {0}
  /\ StdMax \in Nat /\ IdMod \in Nat \ {0} /\ StdMax < IdMod
  /\ CountMod \in Nat \ {0} /\ DtMod \in Nat \ {0}

Lesser(a, b) == IF a < b THEN a ELSE b

Padded(bytes) == [i \in 1 .. MaxDlc |-> IF i <= Len(bytes) THEN bytes[i] ELSE 0]

-----------------------------------------------------------------------------
(* Encoding. *)

\* The id's word: 29 bits of id and two flags.
EncodedCanId(f) == [id |-> f.id % IdMod, ext |-> f.ext, err |-> f.err]

EncodeRecord(f, base) ==
  [dt |-> f.t - base, word |-> EncodedCanId(f), dlc |-> f.dlc, rtr |-> f.rtr,
   data |-> Padded(SubSeq(f.data, 1, Lesser(f.dlc, Len(f.data))))]

\* encode_record and encode_batch raise where this does not hold.
Fits(frames, base) ==
  /\ Len(frames) < CountMod
  /\ \A i \in DOMAIN frames : frames[i].t - base \in 0 .. DtMod - 1

EncodeBatch(frames, base, replay) ==
  [version |-> Version, replay |-> replay, count |-> Len(frames), base |-> base,
   records |-> [i \in DOMAIN frames |-> EncodeRecord(frames[i], base)]]

\* The reference encoder of the contract takes offsets and no stamps; it wraps an offset
\* that does not fit, and throws on a count or a length that does not.
EncodeShared(frames, base, replay) ==
  LET record(f) == [dt |-> (f.t - base) % DtMod, word |-> EncodedCanId(f), dlc |-> f.dlc,
                    rtr |-> f.rtr,
                    data |-> Padded(SubSeq(f.data, 1, Lesser(f.dlc, Len(f.data))))]
  IN  IF Len(frames) >= CountMod \/ \E i \in DOMAIN frames : frames[i].dlc > MaxDlc THEN Refused
      ELSE [version |-> Version, replay |-> replay, count |-> Len(frames), base |-> base,
            records |-> [i \in DOMAIN frames |-> record(frames[i])]]

-----------------------------------------------------------------------------
(* Decoding. *)

\* What all decoders make of a record, up to how they hold its bytes.
Decoded(r, base, dlc, bytes) ==
  [t |-> base + r.dt, id |-> r.word.id, ext |-> r.word.ext, err |-> r.word.err,
   rtr |-> r.rtr, dlc |-> dlc, data |-> bytes]

\* The backend's own decoder: the length must be 8 at most, and is, where Fits held.
DecodeRecord(r, base) == Decoded(r, base, r.dlc, SubSeq(r.data, 1, r.dlc))

DecodeBackend(b) ==
  IF b.version # Version \/ b.count # Len(b.records) THEN Refused
  ELSE [i \in 1 .. b.count |-> DecodeRecord(b.records[i], b.base)]

\* The reference decoder takes any version, and records beyond the count.
DecodeShared(b) ==
  LET record(r) == Decoded(r, b.base, Lesser(r.dlc, MaxDlc), SubSeq(r.data, 1, Lesser(r.dlc, MaxDlc)))
  IN  IF Len(b.records) < b.count THEN Refused
      ELSE [i \in 1 .. b.count |-> record(b.records[i])]

\* The cockpit's parser refuses another version and copies the bytes a frame has.
ParseCockpit(b) ==
  LET record(r) == Decoded(r, b.base, Lesser(r.dlc, MaxDlc), SubSeq(r.data, 1, Lesser(r.dlc, MaxDlc)))
  IN  IF b.version # Version \/ Len(b.records) < b.count THEN Refused
      ELSE [i \in 1 .. b.count |-> record(b.records[i])]

\* Mutant: what the frame before left behind a shorter one's bytes stays.
ScratchKept(scratch, r) ==
  [i \in 1 .. MaxDlc |-> IF i <= r.dlc THEN r.data[i] ELSE scratch[i]]

\* The phone's parser has one payload for all records and fills all of it each time.
ScratchAfter(scratch, r) ==
  [i \in 1 .. MaxDlc |-> IF i <= Lesser(r.dlc, MaxDlc) THEN r.data[i] ELSE 0]

ParsePhone(b, scratch) ==
  LET frames[i \in 1 .. b.count] ==
        LET r == b.records[i]
            before == IF i = 1 THEN scratch ELSE frames[i - 1].data
        IN  Decoded(r, b.base, Lesser(r.dlc, MaxDlc), ScratchAfter(before, r))
  IN  IF b.version # Version \/ Len(b.records) < b.count THEN Refused ELSE frames

-----------------------------------------------------------------------------
(* Recordings. *)

\* An id is written with eight digits or with three.
FormatLine(f) ==
  [t |-> f.t, wide |-> f.ext \/ f.id > StdMax, id |-> f.id, rtr |-> f.rtr,
   asked |-> IF f.rtr THEN f.dlc ELSE 0,
   bytes |-> IF f.rtr THEN <<>> ELSE SubSeq(f.data, 1, Lesser(f.dlc, Len(f.data)))]

ParseLine(l) ==
  [t |-> l.t, id |-> l.id % IdMod, ext |-> l.wide \/ l.id > StdMax, rtr |-> l.rtr,
   dlc |-> IF l.rtr THEN l.asked ELSE Len(l.bytes), data |-> l.bytes]

\* A replayed entry, its stamp moved from the file's first to now. A line has no place for
\* the error flag.
ReplayedFrame(entry, first, now) ==
  [t |-> now + entry.t - first.t, id |-> entry.id, ext |-> entry.ext, err |-> FALSE,
   rtr |-> entry.rtr, dlc |-> entry.dlc, data |-> entry.data]
=============================================================================
