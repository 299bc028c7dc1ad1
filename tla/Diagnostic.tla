----------------------------- MODULE Diagnostic -----------------------------
(***************************************************************************)
(* The cockpit's diagnostic lens, shared/diagnostic.ts: which ids carry    *)
(* diagnostics, what the first byte of a frame says of it (ISO-TP), how    *)
(* the newest transfer of an id is put together from its frames, and which *)
(* service its bytes name. postInspector of worker/analysis.worker.ts asks *)
(* for it.                                                                 *)
(*                                                                         *)
(* Bytes are numbers below Byte. The names of services are left out.       *)
(***************************************************************************)
EXTENDS Codec, FiniteSets, FiniteSetsExt

CONSTANTS
  Broadcast, Requests, Responses, \* ids: 0x7DF, 0x7E0 to 0x7E7, 0x7E8 to 0x7EF
  Negative,   \* 0x7F: a refusal
  Answer,     \* 0x40: added to a service by its answer
  OnePid, TwoByteDid, \* services followed by an identifier of one byte (1, 2 and 9), or two
  None        \* nothing to show

Nib == 2^NibBits
Byte == Nib * Nib

ByteAt(bytes, i) == IF i <= Len(bytes) THEN bytes[i] ELSE 0

\* 29-bit diagnostics are not handled.
ClassifyDiagId(id, ext) ==
  IF ext THEN None
  ELSE IF id = Broadcast THEN "request-functional"
  ELSE IF id \in Requests THEN "request-physical"
  ELSE IF id \in Responses THEN "response"
  ELSE None

\* n is a length, a sequence number or a flow status; start the bytes before the service's.
DecodeIsoTp(bytes) ==
  LET type == bytes[1] \div Nib
      low == bytes[1] % Nib
  IN  IF bytes = <<>> THEN [kind |-> "unknown", n |-> 0, start |-> 0]
      ELSE CASE type = 0 -> [kind |-> "single", n |-> low, start |-> 1]
             [] type = 1 -> [kind |-> "first", n |-> low * Byte + ByteAt(bytes, 2), start |-> 2]
             [] type = 2 -> [kind |-> "consecutive", n |-> low, start |-> 1]
             [] type = 3 -> [kind |-> "flow-control", n |-> low, start |-> Len(bytes)]
             [] OTHER -> [kind |-> "unknown", n |-> 0, start |-> 0]

From(bytes, start) == SubSeq(bytes, start + 1, Len(bytes))

\* What the bytes of a service say.
DecodeServicePayload(bytes) ==
  LET raw == bytes[1]
      answers == raw >= Answer /\ raw < Negative
      service == IF answers THEN raw - Answer ELSE raw
      identifier == IF service \in OnePid /\ Len(bytes) >= 2 THEN SubSeq(bytes, 2, 2)
                    ELSE IF service \in TwoByteDid /\ Len(bytes) >= 3 THEN SubSeq(bytes, 2, 3)
                    ELSE <<>>
  IN  IF bytes = <<>> THEN None
      ELSE IF raw = Negative THEN [rejected |-> ByteAt(bytes, 2), reason |-> ByteAt(bytes, 3)]
      ELSE [service |-> service, answers |-> answers, identifier |-> identifier]

\* One frame by itself.
DecodeDiagnostic(id, ext, bytes) ==
  LET isotp == DecodeIsoTp(bytes)
  IN  IF ClassifyDiagId(id, ext) = None THEN None
      ELSE [role |-> ClassifyDiagId(id, ext), kind |-> isotp.kind,
            meaning |-> IF isotp.kind \in {"single", "first"}
                        THEN DecodeServicePayload(From(bytes, isotp.start)) ELSE None]

-----------------------------------------------------------------------------
(* The newest transfer of an id, from its frames, oldest first. *)

Starts(frames) == {i \in DOMAIN frames : DecodeIsoTp(frames[i]).kind \in {"single", "first"}}

\* Mutant: a consecutive frame is taken whatever its number.
ContinuesAnyhow(frame, expected) == DecodeIsoTp(frame).kind = "consecutive"

\* A consecutive frame goes on where the last one ended.
Continues(frame, expected) ==
  DecodeIsoTp(frame).kind = "consecutive" /\ DecodeIsoTp(frame).n = expected

\* The bytes collected by going on from a first frame that announces total of them: until
\* there are enough, or a frame does not go on.
Collected(first, rest, total) ==
  LET start == [bytes |-> From(first, 2), expected |-> 1 % Nib, stopped |-> FALSE]
      walk(acc, frame) ==
        IF acc.stopped \/ Len(acc.bytes) >= total THEN acc
        ELSE IF ~Continues(frame, acc.expected) THEN [acc EXCEPT !.stopped = TRUE]
        ELSE [bytes |-> acc.bytes \o From(frame, 1), expected |-> (acc.expected + 1) % Nib,
              stopped |-> FALSE]
  IN  FoldLeft(walk, start, rest)

Reassembly(kind, total, bytes) ==
  [kind |-> kind, total |-> total, bytes |-> bytes, complete |-> Len(bytes) >= total]

ReassembleFrom(first, rest) ==
  LET isotp == DecodeIsoTp(first)
      wanted(bytes) == SubSeq(bytes, 1, Lesser(isotp.n, Len(bytes)))
  IN  IF isotp.kind = "single"
      THEN Reassembly("single", isotp.n, wanted(From(first, 1)))
      ELSE Reassembly("multi", isotp.n, wanted(Collected(first, rest, isotp.n).bytes))

ReassembleIsoTp(frames) ==
  IF Starts(frames) = {} THEN [kind |-> "multi", total |-> 0, bytes |-> <<>>, complete |-> FALSE]
  ELSE ReassembleFrom(frames[Max(Starts(frames))], From(frames, Max(Starts(frames))))

DecodeDiagnosticReassembled(id, ext, frames) ==
  [role |-> ClassifyDiagId(id, ext), reassembly |-> ReassembleIsoTp(frames),
   meaning |-> DecodeServicePayload(ReassembleIsoTp(frames).bytes)]

\* The Inspector puts a transfer together only while its frames are the newest of the id.
Inspected(id, ext, frames) ==
  LET newest == DecodeDiagnostic(id, ext, Last(frames))
  IN  IF frames = <<>> \/ newest = None THEN None
      ELSE IF newest.kind \in {"first", "consecutive"}
      THEN DecodeDiagnosticReassembled(id, ext, frames) ELSE None
=============================================================================
