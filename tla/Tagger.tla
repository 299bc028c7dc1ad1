------------------------------- MODULE Tagger -------------------------------
(***************************************************************************)
(* shared/analysis/tagger.ts: which bytes of an id are a rolling counter   *)
(* or a checksum, and are therefore kept out of every other analysis.      *)
(***************************************************************************)
EXTENDS Frames, Bitwise

CONSTANTS MinTransitions,     \* of a counter, 16
          MinFrames,          \* of a checksum, 16
          TagThreshold,       \* counterThreshold and checksumThreshold, 9/10
          MaxTagFrames        \* newest frames of an id that are looked at, 8192

ASSUME TaggerAssumption == /\ MinTransitions \in Nat /\ MinFrames \in Nat \ {0}
                           /\ MaxTagFrames \in Nat

NoHit == [confidence |-> <<-1, 1>>]

-----------------------------------------------------------------------------
(* Counters. *)

\* The values of byte b, seen through pick, in the frames that carry it.
ColumnAt(frames, b, pick(_)) ==
    LET long == SelectSeq(frames, LAMBDA f : b < f.len)
    IN  Each(long, LAMBDA f : pick(f.at[b]))

\* The step that most transitions take, if enough of them take it.
DetectCounter(seq, modulus) ==
    LET transitions == Len(seq) - 1
        delta(i) == (seq[i] - seq[i - 1] + modulus) % modulus
        count(d) == Cardinality({i \in 2 .. Len(seq) : delta(i) = d})
        steps == {delta(i) : i \in 2 .. Len(seq)} \ {0}
        best == CHOOSE d \in steps : \A e \in steps : count(e) <= count(d)
    IN  IF transitions < MinTransitions \/ steps = {} THEN NoHit
        ELSE LET confidence == Lowest(count(best), transitions)
             IN  IF Lt(confidence, TagThreshold) THEN NoHit
                 ELSE [step |-> best, confidence |-> confidence]

\* The surest of the three readings of a byte; the whole byte before its nibbles.
Surest(byte, low, high) ==
    LET surer(c, best) == Lt(best.confidence, c.confidence)
    IN  IF surer(low, byte) THEN IF surer(high, low) THEN high ELSE low
        ELSE IF surer(high, byte) THEN high ELSE byte

TagCounterAt(frames, b) ==
    {[kind |-> "counter", byteIndex |-> b, confidence |-> best.confidence] :
       best \in {Surest(DetectCounter(ColumnAt(frames, b, LAMBDA v : v), 256),
                       DetectCounter(ColumnAt(frames, b, LAMBDA v : v % 16), 16),
                       DetectCounter(ColumnAt(frames, b, LAMBDA v : v \div 16), 16))} \ {NoHit}}

-----------------------------------------------------------------------------
(* Checksums. *)

Schemes == <<"xor-prefix", "crc8", "xor-all", "sum-all">>
Asymmetric == {"xor-prefix", "crc8"}

\* One byte through the CRC-8 register (polynomial 0x1D).
CrcByte(crc, byte) ==
    FoldLeft(LAMBDA c, k : IF c >= 128 THEN ((c * 2) % 256) ^^ 29 ELSE c * 2,
             crc ^^ byte, <<1, 2, 3, 4, 5, 6, 7, 8>>)

\* What a scheme makes of the other bytes of a frame and of those before the checksum.
Checksum(scheme, others, before) ==
    LET xor(x, y) == x ^^ y
    IN  CASE scheme = "xor-all" -> FoldLeft(xor, 0, others)
          [] scheme = "xor-prefix" -> FoldLeft(xor, 0, before)
          [] scheme = "sum-all" -> FoldLeft(LAMBDA x, y : x + y, 0, others) % 256
          [] scheme = "crc8" -> FoldLeft(CrcByte, 0, before)

ComputeChecksum(scheme, f, b) ==
    Checksum(scheme, [j \in 1 .. f.len |-> IF j - 1 = b THEN 0 ELSE f.at[j - 1]],
             [j \in 1 .. b |-> f.at[j - 1]])

\* The share of the frames in which the scheme explains byte b.
Hit(scheme, frames, b) ==
    [scheme |-> scheme,
     confidence |-> Lowest(Cardinality({i \in DOMAIN frames :
                                          frames[i].at[b] = ComputeChecksum(scheme, frames[i], b)}),
                           Len(frames))]

\* On a tie the scheme with a direction.
BetterHit(best, hit) ==
    IF /\ Le(TagThreshold, hit.confidence)
       /\ \/ best = NoHit
          \/ Lt(best.confidence, hit.confidence)
          \/ best.confidence = hit.confidence /\ hit.scheme \in Asymmetric /\ best.scheme \notin Asymmetric
    THEN hit ELSE best

\* The scheme that explains byte b best, in the frames that carry it.
ChecksumIn(long, b) ==
    IF \/ Len(long) < MinFrames
       \/ \A i \in DOMAIN long : long[i].len <= 1
       \/ \A i \in DOMAIN long : long[i].at[b] = long[1].at[b]
    THEN NoHit
    ELSE FoldLeft(LAMBDA best, s : BetterHit(best, Hit(s, long, b)), NoHit, Schemes)

ChecksumAt(frames, b) == ChecksumIn(SelectSeq(frames, LAMBDA f : b < f.len), b)

\* All bytes that a directed scheme explains; else the last of the others, since
\* with a symmetric scheme every byte of a frame explains every other.
Explained(at) ==
    LET hits == {b \in DOMAIN at : at[b] # NoHit}
        asym == {b \in hits : at[b].scheme \in Asymmetric}
        tag(b) == [kind |-> "checksum", byteIndex |-> b, confidence |-> at[b].confidence]
    IN  IF asym # {} THEN {tag(b) : b \in asym}
        ELSE IF hits # {} THEN {tag(Max(hits))}
        ELSE {}

DetectChecksums(frames, width) == Explained([b \in 0 .. width - 1 |-> ChecksumAt(frames, b)])

-----------------------------------------------------------------------------
(* The same over packed columns; indices: the frames of an id. *)

BytesPacked(p, indices, b) ==
    Each(SelectSeq(indices, LAMBDA i : b < PayloadLen(p, i)), LAMBDA i : ByteAt(p, i, b))

TagCounterAtPacked(bytes, b) ==
    {[kind |-> "counter", byteIndex |-> b, confidence |-> best.confidence] :
       best \in {Surest(DetectCounter(bytes, 256), DetectCounter(Each(bytes, LAMBDA v : v % 16), 16),
                        DetectCounter(Each(bytes, LAMBDA v : v \div 16), 16))} \ {NoHit}}

ComputeChecksumPacked(scheme, p, i, b) ==
    Checksum(scheme, [j \in 1 .. PayloadLen(p, i) |-> IF j - 1 = b THEN 0 ELSE ByteAt(p, i, j - 1)],
             [j \in 1 .. b |-> ByteAt(p, i, j - 1)])

HitPacked(scheme, p, long, b) ==
    LET explained == {i \in Range(long) : ByteAt(p, i, b) = ComputeChecksumPacked(scheme, p, i, b)}
    IN  [scheme |-> scheme, confidence |-> Lowest(Cardinality(explained), Len(long))]

ChecksumInPacked(p, long, b) ==
    IF \/ Len(long) < MinFrames
       \/ \A i \in Range(long) : PayloadLen(p, i) <= 1
       \/ \A i \in Range(long) : ByteAt(p, i, b) = ByteAt(p, long[1], b)
    THEN NoHit
    ELSE FoldLeft(LAMBDA best, s : BetterHit(best, HitPacked(s, p, long, b)), NoHit, Schemes)

DetectChecksumsPacked(p, indices, width) ==
    Explained([b \in 0 .. width - 1 |->
                 ChecksumInPacked(p, SelectSeq(indices, LAMBDA i : b < PayloadLen(p, i)), b)])

TagOneIdPacked(p, indices) ==
    UNION {TagCounterAtPacked(BytesPacked(p, indices, b), b) : b \in 0 .. WidthPacked(p, indices) - 1}
    \cup DetectChecksumsPacked(p, indices, WidthPacked(p, indices))

-----------------------------------------------------------------------------

Newest(frames) == IF MaxTagFrames > 0 /\ Len(frames) > MaxTagFrames
                  THEN SubSeq(frames, Len(frames) - MaxTagFrames + 1, Len(frames))
                  ELSE frames

TagOneId(frames) ==
    UNION {TagCounterAt(frames, b) : b \in 0 .. Width(frames) - 1}
    \cup DetectChecksums(frames, Width(frames))

TagFrames(frames) == [id \in IdsOf(frames) |-> TagOneId(Newest(OfId(frames, id)))]

TagFramesPacked(p) == [id \in IdsPacked(p) |-> TagOneIdPacked(p, Newest(IndicesPacked(p, id)))]

\* The slots that a tag covers, whatever its kind.
ExcludedBytes(tags) == UNION {{<<id, tag.byteIndex>> : tag \in tags[id]} : id \in DOMAIN tags}
=============================================================================
