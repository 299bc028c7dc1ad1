----------------------------- MODULE MCAnalysis -----------------------------
(***************************************************************************)
(* TLC instance of the two ways a frame takes in the cockpit's analysis    *)
(* worker, which share nothing but the thread: into the message rows       *)
(* (MessageModel), and, from the bus on, into the Inspector's transfers,   *)
(* beside the phone's tiles (Wire). A behaviour takes one of them.         *)
(*                                                                         *)
(* The rows: a frame id with three payloads beside one that must not be    *)
(* counted, in a ring that wraps; one field splits the payloads in three,  *)
(* which is wider than the model keeps groups for.                         *)
(*                                                                         *)
(* The wire: bytes of two nibbles of two bits, frames of five bytes. One   *)
(* bus carries two transfers of two consecutive frames, a flow control, a  *)
(* single frame, and frames of other lengths and kinds; another a transfer *)
(* of five, whose sequence numbers wrap, and one that follows.             *)
(***************************************************************************)
EXTENDS MessageModel, Wire

CONSTANTS a, b, p1, p2, p3, other

\* Which payload is which does not matter.
Payloads == {p1, p2, p3}
Alike == Permutations(Payloads)

Steady == [id : {a}, data : Payloads, t : {0}] \cup [id : {b}, data : {other}, t : {0}]

MCKeys == Payloads \cup {other}
MCWhole == [x \in MCKeys |-> other]
Split == [x \in MCKeys |-> x]
MCFields == {MCWhole, Split}
MCForced == {Split}

\* The frames of a transfer: one if it fits, else a first and its consecutives, the last
\* filled up. This is the car's part.
Segments(bytes) ==
  LET rest == From(bytes, MaxDlc - 2)
      per == MaxDlc - 1
      more == (Len(rest) + per - 1) \div per
      part(k) == SubSeq(rest, (k - 1) * per + 1, Lesser(k * per, Len(rest)))
  IN  IF Len(bytes) < MaxDlc THEN <<Padded(<<Len(bytes)>> \o bytes)>>
      ELSE <<<<Nib + Len(bytes) \div Byte, Len(bytes) % Byte>> \o SubSeq(bytes, 1, MaxDlc - 2)>>
           \o [k \in 1 .. more |-> Padded(<<2 * Nib + (k % Nib)>> \o part(k))]

BusFrame(id, ext, err, rtr, dlc, data, of) ==
  [t |-> 0, id |-> id, ext |-> ext, err |-> err, rtr |-> rtr, dlc |-> dlc, data |-> data,
   of |-> of, n |-> 0]
Data(id, bytes, of) == BusFrame(id, FALSE, FALSE, FALSE, Len(bytes), bytes, of)
Transfer(bytes, of) == LET s == Segments(bytes) IN [k \in DOMAIN s |-> Data(14, s[k], of)]
Sent(bytes) == [bytes |-> bytes, consecutive |-> Len(Segments(bytes)) - 1]

Stamped(frames) == [i \in DOMAIN frames |-> [frames[i] EXCEPT !.n = i, !.t = 2 * i]]

Two == <<<<5, 1, 2, 3, 1, 2, 3, 1, 2, 3>>, <<6, 8, 9, 10, 8, 9, 10, 8>>, <<7, 5, 3>>>>
Busy == [frames |-> Stamped(
           <<Data(3, <<1, 9, 4, 2>>, 0)>> \o Transfer(Two[1], 1) \o <<Data(3, <<2, 6>>, 0)>>
           \o Transfer(Two[2], 2)
           \o <<BusFrame(3, TRUE, FALSE, TRUE, 2, <<>>, 0), Data(14, <<3 * Nib, 0>>, 0),
                Data(13, <<1, 2>>, 0)>>
           \o Transfer(Two[3], 3)),
         transfers |-> <<Sent(Two[1]), Sent(Two[2]), Sent(Two[3])>>]
Long == <<[i \in 1 .. 23 |-> 1 + (i % 3)], [i \in 1 .. 10 |-> 8 + (i % 3)]>>
Lengthy == [frames |-> Stamped(Transfer(Long[1], 1)
              \o <<BusFrame(14, TRUE, FALSE, FALSE, 1, <<2 * Nib + 1>>, 0)>>
              \o Transfer(Long[2], 2) \o <<BusFrame(3, FALSE, TRUE, FALSE, 1, <<7>>, 0)>>),
            transfers |-> <<Sent(Long[1]), Sent(Long[2])>>]
WatchOf(key, ext, start, len, order) ==
  [key |-> key, id |-> 3, ext |-> ext, start |-> start, len |-> len, order |-> order]
MCWatches == {WatchOf("low", FALSE, 2, 8, "little"), WatchOf("high", FALSE, 5, 6, "big")}
MCBuses == {Busy, Lengthy}

-----------------------------------------------------------------------------
\* The half a behaviour leaves alone stays at its start.
MCInit == MInit /\ WireInit
RowsAtRest == totalPushed = 0 /\ gen = 0 /\ lastGen = -1
WireAtRest == bus = Busy /\ left = bus.frames /\ events = 0
MCNext == \/ WireAtRest /\ MNext /\ UNCHANGED wireVars
          \/ RowsAtRest /\ WireNext /\ UNCHANGED vars
MCSpec == MCInit /\ [][MCNext]_<<vars, wireVars>>
=============================================================================
