-------------------------------- MODULE Scans --------------------------------
(***************************************************************************)
(* The passive analysers of frontend/shared/analysis, which ask for no     *)
(* action of the operator: byte-histogram.ts, bit-activity.ts,             *)
(* id-profile.ts, auto-segmentation.ts, co-occurrence.ts,                  *)
(* signal-discovery.ts, signal-correlation.ts and synonyms.ts. Each works  *)
(* on one id at a time; an empty `allow' admits every id.                  *)
(***************************************************************************)
EXTENDS Scorers

CONSTANTS MaxBytes,            \* bytes of a payload that are looked at, 8
          ScanFrames,          \* frames an id needs, 2
          SegmentFrames,       \* and for its segmentation, 8
          MinActivity,         \* change rate of a byte that is part of a field, 1/50
          MergeRatio,          \* drop from a byte to the next significant one, 7/10
          GroupJaccard,        \* coupling of the bytes of one value, 3/5
          HubConditional,      \* coupling to a byte that drives another, 4/5
          HubMinDegree,        \* bytes that drive a hub, 3
          DiscoveryFrames,     \* samples of a signal, 12
          DiscoveryDistinct,   \* distinct values of a signal, 4
          JitterReference,     \* step at which a series is no longer smooth, 1/2
          MinPairs,            \* samples a correlation needs, 8
          CorrelationDistinct, \* distinct values it needs, 2
          MinAbsRho,           \* correlation worth showing, 1/2
          MaxCandidates,       \* candidates a sweep returns, 12
          SynonymStep, SynonymOverlap, SynonymThreshold   \* 100 ms, 20, 4/5

Admitted(frames, allow, least) ==
    {id \in IdsOf(frames) : (allow = {} \/ id \in allow) /\ Len(OfId(frames, id)) >= least}

AdmittedPacked(p, allow, least) ==
    {id \in IdsPacked(p) : (allow = {} \/ id \in allow) /\ Len(IndicesPacked(p, id)) >= least}

ByteCount(frames) == Min({Width(frames), MaxBytes})
ByteCountPacked(p, indices) == Min({WidthPacked(p, indices), MaxBytes})

\* The bytes of two frames that are compared: those both carry, up to a limit.
CommonBytesOfLater(p, prev, cur, limit) == Min({PayloadLen(p, cur), limit})
CommonBytes(p, prev, cur, limit) == Min({PayloadLen(p, prev), PayloadLen(p, cur), limit})

\* The results of a scan, `of' each id, and the ids in the order they are listed: by
\* what stands out most in the result, then by their frames, then by number.
Listed(of, size(_), peak(_)) ==
    LET before(c, d) == \/ Lt(peak(of[d]), peak(of[c]))
                        \/ peak(of[c]) = peak(of[d]) /\ size(c) > size(d)
                        \/ peak(of[c]) = peak(of[d]) /\ size(c) = size(d) /\ c < d
    IN  [ids |-> Sorted(DOMAIN of, before), of |-> of]

MostOfAll(S) == FoldSet(MostOf, Zero, S)

-----------------------------------------------------------------------------
(* Histograms, bit activity, profiles.                                     *)

\* The values of a byte, over the frames that carry it.
HistogramOf(frames, b) ==
    LET values == ColumnAt(frames, b, LAMBDA v : v)
        seen == {values[i] : i \in DOMAIN values}
    IN  [byteIndex |-> b, samples |-> Len(values), distinct |-> Cardinality(seen),
         min |-> IF seen = {} THEN -1 ELSE Min(seen), max |-> Max({-1} \cup seen),
         counts |-> [v \in seen |-> Cardinality({i \in DOMAIN values : values[i] = v})]]

PeakDistinct(profile) == <<Max({0} \cup {profile[b].distinct : b \in DOMAIN profile}), 1>>

HistogramOneId(f) == [b \in 0 .. ByteCount(f) - 1 |-> HistogramOf(f, b)]

\* The same tally down a column; a frame that is too short for the byte is passed over.
HistogramAtPacked(p, indices, b) ==
    LET sampled == {i \in Range(indices) : b < PayloadLen(p, i)}
        seen == {ByteAt(p, i, b) : i \in sampled}
    IN  [byteIndex |-> b, samples |-> Cardinality(sampled), distinct |-> Cardinality(seen),
         min |-> IF seen = {} THEN -1 ELSE Min(seen), max |-> Max({-1} \cup seen),
         counts |-> [v \in seen |-> Cardinality({i \in sampled : ByteAt(p, i, b) = v})]]

HistogramOneIdPacked(p, indices) ==
    [b \in 0 .. ByteCountPacked(p, indices) - 1 |-> HistogramAtPacked(p, indices, b)]

ByteHistogram(frames, allow) ==
    Listed([id \in Admitted(frames, allow, ScanFrames) |-> HistogramOneId(OfId(frames, id))],
           LAMBDA id : Len(OfId(frames, id)), PeakDistinct)

ByteHistogramPacked(p, allow) ==
    Listed([id \in AdmittedPacked(p, allow, ScanFrames) |-> HistogramOneIdPacked(p, IndicesPacked(p, id))],
           LAMBDA id : Len(IndicesPacked(p, id)), PeakDistinct)

\* How often a bit toggles from a frame to the next that also carries it.
ActivityOf(frames, bit) ==
    LET pairs == Pairs(frames, bit \div 8)
        flips(i) == Bit(frames[i].at[bit \div 8], bit % 8) # Bit(frames[i - 1].at[bit \div 8], bit % 8)
        transitions == {i \in pairs : flips(i)}
    IN  [pairs |-> Cardinality(pairs), transitions |-> Cardinality(transitions),
         activity |-> Rate(Cardinality(transitions), Cardinality(pairs)),
         constant |-> pairs # {} /\ transitions = {}]

PeakActivity(profile) == MostOfAll({profile[bit].activity : bit \in DOMAIN profile})

ActivityOneId(f) == [bit \in 0 .. 8 * MaxBytes - 1 |-> ActivityOf(f, bit)]

\* The same down a column: n is compared with n - 1 over the whole bytes they share.
ActivityAtPacked(p, indices, bit) ==
    LET reach(n) == 8 * CommonBytes(p, indices[n - 1], indices[n], MaxBytes)
        bitOf(n) == Bit(ByteAt(p, indices[n], bit \div 8), bit % 8)
        pairs == {n \in 2 .. Len(indices) : bit < reach(n)}
        transitions == {n \in pairs : bitOf(n) # bitOf(n - 1)}
    IN  [pairs |-> Cardinality(pairs), transitions |-> Cardinality(transitions),
         activity |-> Rate(Cardinality(transitions), Cardinality(pairs)),
         constant |-> pairs # {} /\ transitions = {}]

ActivityOneIdPacked(p, indices) == [bit \in 0 .. 8 * MaxBytes - 1 |-> ActivityAtPacked(p, indices, bit)]

BitActivity(frames, allow) ==
    Listed([id \in Admitted(frames, allow, ScanFrames) |-> ActivityOneId(OfId(frames, id))],
           LAMBDA id : Len(OfId(frames, id)), PeakActivity)

BitActivityPacked(p, allow) ==
    Listed([id \in AdmittedPacked(p, allow, ScanFrames) |-> ActivityOneIdPacked(p, IndicesPacked(p, id))],
           LAMBDA id : Len(IndicesPacked(p, id)), PeakActivity)

\* Each byte of an id: does it vary, and is it worth deducing over.
ProfileOneId(id, hist, bits, excluded) ==
    LET constant(b) == hist[b].distinct <= 1
    IN  [constantBytes |-> {b \in DOMAIN hist : constant(b)},
         candidateBytes |-> {b \in DOMAIN hist : ~constant(b) /\ <<id, b>> \notin excluded},
         constantBits |-> {bit \in DOMAIN bits : bit \div 8 \in DOMAIN hist /\ bits[bit].constant}]

Profiles(hist, bits, excluded) ==
    [id \in DOMAIN hist |-> ProfileOneId(id, hist[id], bits[id], excluded)]

IdProfile(frames, allow) ==
    Listed(Profiles(ByteHistogram(frames, allow).of, BitActivity(frames, allow).of,
                    ExcludedBytes(TagFrames(frames))),
           LAMBDA id : Len(OfId(frames, id)), LAMBDA x : <<Cardinality(x.candidateBytes), 1>>)

-----------------------------------------------------------------------------
(* Segmentation: a value of several bytes changes the less in a byte the   *)
(* more significant that byte is.                                          *)

ByteActivity(frames, b) ==
    Rate(Cardinality({i \in Pairs(frames, b) : frames[i].at[b] # frames[i - 1].at[b]}),
         Cardinality(Pairs(frames, b)))

\* The gradient from a byte to its neighbour, if it is steep enough.
StepDir(a, b) == IF Le(b, Times(a, MergeRatio)) THEN "little"
                 ELSE IF Le(a, Times(b, MergeRatio)) THEN "big" ELSE "none"

\* The segments of an id, first to last: each is as long as its gradient keeps its
\* sign over active bytes, and the next begins behind it. changes: of each byte, the
\* activity; active: the bytes that may be part of a field.
Steps(changes, n) == [b \in 0 .. n - 2 |-> StepDir(changes[b], changes[b + 1])]

SegmentEnd(dir, active, n, start) ==
    LET grows(k) == k + 1 \in active /\ dir[k] # "none" /\ dir[k] = dir[start]
    IN  Min({k \in start .. n : ~grows(k)})

Segment(dir, b, end) == [start |-> b, end |-> end, order |-> IF end = b THEN "unknown" ELSE dir[b]]

SegmentsOf(dir, active, n) ==
    LET add(segs, b) ==
            IF b \notin active \/ (segs # <<>> /\ b <= Last(segs).end) THEN segs
            ELSE Append(segs, Segment(dir, b, SegmentEnd(dir, active, n, b)))
    IN  FoldLeft(add, <<>>, [k \in 1 .. n |-> k - 1])

SegmentsIn(changes, id, n, excluded) ==
    SegmentsOf(Steps(changes, n),
               {b \in 0 .. n - 1 : Le(MinActivity, changes[b]) /\ <<id, b>> \notin excluded}, n)

SegmentOneId(frames, id, excluded) ==
    SegmentsIn([b \in 0 .. ByteCount(frames) - 1 |-> ByteActivity(frames, b)], id, ByteCount(frames), excluded)

SegmentIds(frames, allow, excluded) ==
    Listed([id \in Admitted(frames, allow, SegmentFrames) |-> SegmentOneId(OfId(frames, id), id, excluded)],
           LAMBDA id : Len(OfId(frames, id)), LAMBDA segs : <<Len(segs), 1>>)

AutoSegment(frames, allow) == SegmentIds(frames, allow, ExcludedBytes(TagFrames(frames)))

-----------------------------------------------------------------------------
(* Co-occurrence: which bytes change together.                             *)

ChangedIn(frames, b) == {i \in Pairs(frames, b) : frames[i].at[b] # frames[i - 1].at[b]}

CoTally(frames) ==
    LET bytes == 0 .. ByteCount(frames) - 1
    IN  [changed |-> [i \in bytes |-> Cardinality(ChangedIn(frames, i))],
         present |-> [i \in bytes |-> Cardinality(Pairs(frames, i))],
         coChange |-> [p \in bytes \X bytes |->
                         IF p[1] = p[2] THEN 0
                         ELSE Cardinality(ChangedIn(frames, p[1]) \cap ChangedIn(frames, p[2]))],
         coPresent |-> [p \in bytes \X bytes |->
                          IF p[1] = p[2] THEN 0
                          ELSE Cardinality(Pairs(frames, p[1]) \cap Pairs(frames, p[2]))]]

Jaccard(tally, i, j) == LET both == tally.coChange[<<i, j>>]
                        IN  Rate(both, tally.changed[i] + tally.changed[j] - both)
Conditional(tally, i, j) == Rate(tally.coChange[<<i, j>>], tally.changed[i])

\* The longest runs of neighbours that are all coupled.
FindGroups(tally, n, excluded) ==
    LET linked(b) == b \in 0 .. n - 2 /\ Le(GroupJaccard, Jaccard(tally, b, b + 1))
    IN  {[start |-> s, end |-> e, excluded |-> \E b \in s .. e : b \in excluded] :
           <<s, e>> \in {p \in (0 .. n - 1) \X (0 .. n - 1) :
                           /\ p[1] < p[2] /\ \A b \in p[1] .. p[2] - 1 : linked(b)
                           /\ ~linked(p[1] - 1) /\ ~linked(p[2])}}

\* The bytes that change when any of many others does.
FindHubs(tally, n, excluded) ==
    LET drivers(k) == {i \in 0 .. n - 1 : i # k /\ Le(HubConditional, Conditional(tally, i, k))}
    IN  {[byteIndex |-> k, drivenBy |-> drivers(k), excluded |-> k \in excluded] :
           k \in {b \in 0 .. n - 1 : Cardinality(drivers(b)) >= HubMinDegree}}

\* The pairs of columns: each pair of frames has a mask of the bytes that changed, and
\* of two bytes the later decides whether the pair carries both.
CoTallyPacked(p, indices, n) ==
    LET common(k) == CommonBytes(p, indices[k - 1], indices[k], n)
        differs(k, b) == ByteAt(p, indices[k - 1], b) # ByteAt(p, indices[k], b)
        mask == [k \in 2 .. Len(indices) |-> {b \in 0 .. common(k) - 1 : differs(k, b)}]
        reaching(b) == {k \in DOMAIN mask : b < common(k)}
        bytes == 0 .. n - 1
    IN  [changed |-> [i \in bytes |-> Cardinality({k \in DOMAIN mask : i \in mask[k]})],
         present |-> [i \in bytes |-> Cardinality(reaching(i))],
         coChange |-> [q \in bytes \X bytes |->
                         IF q[1] = q[2] THEN 0
                         ELSE Cardinality({k \in DOMAIN mask : {q[1], q[2]} \subseteq mask[k]})],
         coPresent |-> [q \in bytes \X bytes |->
                          IF q[1] = q[2] THEN 0 ELSE Cardinality(reaching(Max({q[1], q[2]})))]]

Coupled(tally, n, excluded) ==
    [tally |-> tally, excludedBytes |-> {b \in excluded : b < n},
     groups |-> FindGroups(tally, n, excluded), hubs |-> FindHubs(tally, n, excluded)]

CoupledOneId(f, excluded) == Coupled(CoTally(f), ByteCount(f), excluded)

CoupledBy(p, indices, n, excluded) == Coupled(CoTallyPacked(p, indices, n), n, excluded)
CoupledOneIdPacked(p, indices, excluded) == CoupledBy(p, indices, ByteCountPacked(p, indices), excluded)

PeakOffDiagonal(x) ==
    MostOfAll({Jaccard(x.tally, p[1], p[2]) : p \in {q \in DOMAIN x.tally.coChange : q[1] # q[2]}})

ExcludedIn(excluded, id) == {s[2] : s \in {e \in excluded : e[1] = id}}

CoOccurrence(frames, allow, excluded) ==
    Listed([id \in Admitted(frames, allow, ScanFrames) |->
              CoupledOneId(OfId(frames, id), ExcludedIn(excluded, id))],
           LAMBDA id : Len(OfId(frames, id)), PeakOffDiagonal)

CoOccurrencePacked(p, allow, excluded) ==
    Listed([id \in AdmittedPacked(p, allow, ScanFrames) |->
              CoupledOneIdPacked(p, IndicesPacked(p, id), ExcludedIn(excluded, id))],
           LAMBDA id : Len(IndicesPacked(p, id)), PeakOffDiagonal)

-----------------------------------------------------------------------------
(* The loci that signal discovery and correlation sweep, and their values. *)

WidthBytes(l) == (l.width + 7) \div 8

\* Position of bit i of the value (0 the least) among the bits of the payload.
BitIndexOf(l, i) ==
    LET down == l.width - 1 - i   \* bits after the most significant, which is bit 7 of its byte
    IN  IF l.order = "little" THEN 8 * l.byteIndex + i
        ELSE 8 * (l.byteIndex + down \div 8) + 7 - (down % 8)

\* Where a signal laid over the locus begins: a big-endian one at its highest bit.
StartBitLow(l) == 8 * l.byteIndex
StartBit(l) == 8 * l.byteIndex + IF l.order = "big" THEN 7 ELSE 0

Signed(l, raw) == IF l.signed /\ raw >= 2^(l.width - 1) THEN raw - 2^l.width ELSE raw

\* A locus counts only in frames that carry all of it.
DecodeRaw(f, l) ==
    LET bit(i) == Bit(f.at[BitIndexOf(l, i) \div 8], BitIndexOf(l, i) % 8)
    IN  Signed(l, SumOver(l.width, LAMBDA k : bit(k - 1) * 2^(k - 1)))

\* Bit k of a packed frame, 0 beyond its length, and a locus of it.
BitPacked(p, i, k) == IF k \div 8 < PayloadLen(p, i) THEN Bit(ByteAt(p, i, k \div 8), k % 8) ELSE 0

DecodeRawPacked(p, i, l) ==
    Signed(l, SumOver(l.width, LAMBDA k : BitPacked(p, i, BitIndexOf(l, k - 1)) * 2^(k - 1)))

Overlaps(id, l, excluded) ==
    \E b \in l.byteIndex .. l.byteIndex + WidthBytes(l) - 1 : <<id, b>> \in excluded

LociIn(id, n, excluded) ==
    {l \in [byteIndex : 0 .. MaxBytes - 1, width : {8, 16}, order : {"little", "big"}, signed : BOOLEAN] :
       /\ l.byteIndex + WidthBytes(l) <= n
       /\ ~(l.width = 8 /\ l.order = "big")
       /\ ~Overlaps(id, l, excluded)}

Loci(id, frames, excluded) == LociIn(id, ByteCount(frames), excluded)

Carriers(frames, l) == SelectSeq(frames, LAMBDA f : l.byteIndex + WidthBytes(l) <= f.len)
CarriersPacked(p, indices, l) == SelectSeq(indices, LAMBDA i : l.byteIndex + WidthBytes(l) <= PayloadLen(p, i))

\* Among equals the candidate whose key "id:bitStart:width:order:sign" reads first; the
\* ids are of one digit, and ':' comes behind the digits.
KeyBefore(c, d) ==
    LET text(n) == IF n < 10 THEN 11 * n + 10 ELSE 11 * (n \div 10) + (n % 10)
        start(x) == text(StartBit(x))
        rank(x) == <<x.id, start(x), IF x.width = 16 THEN 0 ELSE 1,
                     IF x.order = "big" THEN 0 ELSE 1, IF x.signed THEN 0 ELSE 1>>
    IN  \E k \in 1 .. 5 : /\ rank(c)[k] < rank(d)[k]
                          /\ \A j \in 1 .. k - 1 : rank(c)[j] = rank(d)[j]

BestFirst(candidates) ==
    LET before(c, d) == \/ Lt(d.score, c.score)
                        \/ c.score = d.score /\ c.samples > d.samples
                        \/ c.score = d.score /\ c.samples = d.samples /\ KeyBefore(c, d)
        ranked == Sorted(candidates, before)
    IN  SubSeq(ranked, 1, Min({Len(ranked), MaxCandidates}))

-----------------------------------------------------------------------------
(* Discovery: the loci that move like a physical quantity.                 *)

\* One less the typical step in units of the reference jitter.
Calm(jitter) == Minus(One, Lowest(jitter[1] * JitterReference[2], jitter[2] * JitterReference[1]))

Smoothness(values, range) ==
    Calm(Lowest(Median2([i \in 1 .. Len(values) - 1 |-> Abs(values[i + 1] - values[i])]), 2 * range))

\* The share of the score that the number of distinct values gives.
Coverage(distinct) == <<7 * (distinct + 8) + 3 * distinct, 10 * (distinct + 8)>>

ScoreValues(id, l, values, distinct) ==
    IF Len(values) < DiscoveryFrames \/ distinct < 2 \/ distinct < DiscoveryDistinct THEN {}
    ELSE {[id |-> id, byteIndex |-> l.byteIndex, width |-> l.width, order |-> l.order, signed |-> l.signed,
           score |-> Times(smooth, Coverage(distinct)), samples |-> Len(values)] :
            smooth \in {s \in {Smoothness(values, Max(Range(values)) - Min(Range(values)))} : Lt(Zero, s)}}

ScoreLocus(id, frames, l) ==
    LET values == Each(Carriers(frames, l), LAMBDA f : DecodeRaw(f, l))
    IN  ScoreValues(id, l, values, Cardinality(Range(values)))

SweepOneId(id, frames, excluded) == UNION {ScoreLocus(id, frames, l) : l \in Loci(id, frames, excluded)}

ScoreLocusPacked(id, p, indices, l) ==
    LET values == Each(CarriersPacked(p, indices, l), LAMBDA i : DecodeRawPacked(p, i, l))
    IN  ScoreValues(id, l, values, Cardinality(Range(values)))

SweepOneIdPacked(id, p, indices, excluded) ==
    UNION {ScoreLocusPacked(id, p, indices, l) : l \in LociIn(id, ByteCountPacked(p, indices), excluded)}

SignalDiscovery(frames, allow, excluded) ==
    BestFirst(UNION {SweepOneId(id, OfId(frames, id), excluded) :
                       id \in Admitted(frames, allow, DiscoveryFrames)})

SignalDiscoveryPacked(p, allow, excluded) ==
    BestFirst(UNION {SweepOneIdPacked(id, p, IndicesPacked(p, id), excluded) :
                       id \in AdmittedPacked(p, allow, DiscoveryFrames)})

-----------------------------------------------------------------------------
(* Correlation with a reference: samples [t, v].                           *)

\* The last of the samples before the first that is later than t.
HeldBefore(samples, t) == Min({k \in 1 .. Len(samples) + 1 : k = Len(samples) + 1 \/ samples[k].t >= t}) - 1
HeldAt(samples, t) == Min({k \in 1 .. Len(samples) + 1 : k = Len(samples) + 1 \/ samples[k].t > t}) - 1

SpearmanOf(xs, ys) == IF Len(xs) < 2 THEN [sign |-> 0, sq |-> Zero] ELSE RankCorrelation(xs, ys)

CorrelateHeld(id, l, paired, held) ==
    IF Len(paired) < MinPairs \/ Cardinality(Range(held)) < CorrelationDistinct THEN {}
    ELSE {[id |-> id, byteIndex |-> l.byteIndex, width |-> l.width, order |-> l.order,
           signed |-> l.signed, sign |-> rho.sign, score |-> rho.sq, samples |-> Len(paired)] :
            rho \in {r \in {SpearmanOf(ValuesOf(paired), held)} :
                       r.sign # 0 /\ Le(Square(MinAbsRho), r.sq)}}

CorrelateSamples(id, l, samples, ref) ==
    LET paired == SelectSeq(ref, LAMBDA r : HeldAt(samples, r.t) > 0)
    IN  IF Len(samples) < MinPairs THEN {}
        ELSE CorrelateHeld(id, l, paired, Each(paired, LAMBDA r : samples[HeldAt(samples, r.t)].v))

CorrelateLocus(id, frames, l, ref) ==
    CorrelateSamples(id, l, Each(Carriers(frames, l), LAMBDA f : [t |-> f.t, v |-> DecodeRaw(f, l)]), ref)

CorrelateOneId(id, f, ref, excluded) == UNION {CorrelateLocus(id, f, l, ref) : l \in Loci(id, f, excluded)}

SignalCorrelation(frames, reference, allow, excluded) ==
    LET ref == ByTime(reference)
    IN  IF Len(ref) < MinPairs THEN <<>>
        ELSE BestFirst(UNION {CorrelateOneId(id, OfId(frames, id), ref, excluded) :
                                id \in Admitted(frames, allow, 0)})

\* The same over packed columns.
CorrelateLocusPacked(id, p, indices, l, ref) ==
    CorrelateSamples(id, l, Each(CarriersPacked(p, indices, l),
                                 LAMBDA i : [t |-> p.t[i], v |-> DecodeRawPacked(p, i, l)]), ref)

CorrelateOneIdPacked(id, p, indices, ref, excluded) ==
    UNION {CorrelateLocusPacked(id, p, indices, l, ref) :
             l \in LociIn(id, ByteCountPacked(p, indices), excluded)}

SignalCorrelationPacked(p, reference, allow, excluded) ==
    LET ref == ByTime(reference)
    IN  IF Len(ref) < MinPairs THEN <<>>
        ELSE BestFirst(UNION {CorrelateOneIdPacked(id, p, IndicesPacked(p, id), ref, excluded) :
                                id \in AdmittedPacked(p, allow, 0)})

-----------------------------------------------------------------------------
(* Synonyms: fields that move with a field that is known; loci [id,        *)
(* byteIndex, bit], bit = 8 for the whole byte.                            *)

SeriesOf(frames, locus) ==
    LET long == ByTime(SelectSeq(frames, LAMBDA f : f.id = locus.id /\ locus.byteIndex < f.len))
        value(f) == IF locus.bit = 8 THEN f.at[locus.byteIndex] ELSE Bit(f.at[locus.byteIndex], locus.bit)
    IN  Each(long, LAMBDA f : [t |-> f.t, v |-> value(f)])

\* The series on a grid, each point holding the value last seen.
ResampleHold(series, from, to) ==
    [k \in 1 .. ((to - from) \div SynonymStep) + 1 |->
       LET at == HeldAt(series, from + (k - 1) * SynonymStep)
       IN  series[IF at = 0 THEN 1 ELSE at].v]

Centred(xs, total) == [i \in DOMAIN xs |-> Len(xs) * xs[i] - total]
Total(xs) == SumOver(Len(xs), LAMBDA i : xs[i])
Products(dx, dy) == Total([i \in DOMAIN dx |-> dx[i] * dy[i]])
Moments(dx, dy) == [cov |-> Products(dx, dy), va |-> Products(dx, dx), vb |-> Products(dy, dy)]

Pearson(xs, ys) == Moments(Centred(xs, Total(xs)), Centred(ys, Total(ys)))

\* r^2 = (cov / va) * (cov / vb), without the products.
Correlated(r, threshold) ==
    /\ r.va # 0 /\ r.vb # 0 /\ r.cov # 0
    /\ LET least == Square(threshold)
       IN  Le(<<least[1] * r.va, least[2] * Abs(r.cov)>>, <<Abs(r.cov), r.vb>>)

SynonymAs(c, r) ==
    IF Correlated(r, SynonymThreshold) THEN {[field |-> c, sign |-> IF r.cov < 0 THEN -1 ELSE 1]} ELSE {}

SynonymIn(c, t, s, from, to) ==
    IF from >= to \/ (to - from) \div SynonymStep + 1 < SynonymOverlap THEN {}
    ELSE SynonymAs(c, Pearson(ResampleHold(t, from, to), ResampleHold(s, from, to)))

SynonymOf(c, t, s) ==
    IF Len(t) < 2 \/ Len(s) < 2 THEN {}
    ELSE SynonymIn(c, t, s, Max({t[1].t, s[1].t}), Min({Last(t).t, Last(s).t}))

FindSynonyms(frames, target, candidates) ==
    UNION {SynonymOf(c, SeriesOf(frames, target), SeriesOf(frames, c)) : c \in candidates \ {target}}
=============================================================================
