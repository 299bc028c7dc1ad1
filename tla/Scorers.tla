------------------------------- MODULE Scorers -------------------------------
(***************************************************************************)
(* The four questions the experiments ask of a recording:                  *)
(*   event-scorer.ts        which bit flips with the operator's action,    *)
(*   flag-scorer.ts         which byte holds one value in state A and      *)
(*                          another in state B,                            *)
(*   trend-scorer.ts        which field follows a ramp (scoreTrend), and   *)
(*                          which one's level differs (compareStates),     *)
(*   equivalence-scorer.ts  which field came back to where it was.         *)
(* A candidate carries its score, a trend's the square of it: a rank       *)
(* correlation is a square root, and squares order scores as they are.     *)
(***************************************************************************)
EXTENDS Tagger

CONSTANTS CueGuard, ActionWindow, RestWindow,  \* around a cue: 300, 600, 600 ms
          EventConsistency,   \* share of trials a bit must follow, 4/5
          SegmentStability,   \* share of a segment's samples that must agree, 4/5
          FlagStability,      \* the same for a byte in a state, 4/5
          MinSamples,         \* of a state or a series, 8
          MaxChangedBytes,    \* of an id before its flags are devalued, 2
          ManyChangePenalty,  \* per further byte, 3/4
          MinSpearman,        \* trendMinSpearman, 3/5
          MaxSlopePairs,      \* pairs of samples before slopes are thinned out, 20000
          MaxStateSpread,     \* of a level, relative to its median, 1/2
          MinReturnScore      \* of an equivalence, 3/20

ASSUME ScorersAssumption == /\ MinSamples \in Nat \ {0} /\ MaxSlopePairs \in Nat \ {0}
                            /\ MaxChangedBytes \in Nat

-----------------------------------------------------------------------------
(* Events. *)

Unknown == 2   \* null: no or no steady reading

\* What the bit was in [from, to): steady enough, or unknown.
StableBit(frames, byteIndex, bit, from, to) ==
    LET seen == {i \in DOMAIN frames : from <= frames[i].t /\ frames[i].t < to
                                       /\ byteIndex < frames[i].len}
        ones == {i \in seen : Bit(frames[i].at[byteIndex], bit) = 1}
        most == Max({Cardinality(ones), Cardinality(seen \ ones)})
    IN  IF seen = {} THEN Unknown
        ELSE IF Lt(<<most, Cardinality(seen)>>, SegmentStability) THEN Unknown
        ELSE IF 2 * Cardinality(ones) >= Cardinality(seen) THEN 1 ELSE 0

\* How many of the cues flip the bit from rest to the value v.
Flips(frames, byteIndex, bit, cues, v) ==
    LET rest(at) == StableBit(frames, byteIndex, bit, at - RestWindow, at)
        action(at) == StableBit(frames, byteIndex, bit, at + CueGuard,
                                at + CueGuard + ActionWindow)
    IN  Cardinality({k \in DOMAIN cues : action(cues[k]) = v /\ rest(cues[k]) = 1 - v})

\* A bit that flips in the same direction on enough of the good cues.
BitFound(id, b, k, up, down, cues) ==
    {c \in {[mode |-> "event", id |-> id, byteIndex |-> b, bit |-> k,
             direction |-> IF up >= down THEN 1 ELSE 0, score |-> Lowest(Max({up, down}), cues)]} :
       c.score # Zero /\ Le(EventConsistency, c.score)}

BitsFound(id, frames, cues, excluded) ==
    UNION {BitFound(id, b, k, Flips(frames, b, k, cues, 1), Flips(frames, b, k, cues, 0), Len(cues)) :
             b \in {c \in 0 .. Width(frames) - 1 : <<id, c>> \notin excluded}, k \in 0 .. 7}

ScoreEvents(frames, marks, excluded) ==
    LET good == SelectSeq(marks, LAMBDA m : m.quality = "good")
    IN  IF good = <<>> THEN {}
        ELSE UNION {BitsFound(id, ByTime(OfId(frames, id)), [k \in DOMAIN good |-> good[k].at], excluded) :
                      id \in IdsOf(frames)}

-----------------------------------------------------------------------------
(* Flags. *)

NoValue == [value |-> -1, dominance |-> Zero]

\* The value a byte holds in a state, unless it chatters or was seen too seldom.
DominantOf(values, tally, top) ==
    IF Len(values) < MinSamples \/ Lt(<<top, Len(values)>>, FlagStability) THEN NoValue
    ELSE [value |-> Min({v \in DOMAIN tally : tally[v] = top}), dominance |-> Lowest(top, Len(values))]

DominantIn(values, tally) == DominantOf(values, tally, Max({0} \cup {tally[v] : v \in DOMAIN tally}))

DominantByte(frames, b) ==
    LET values == ColumnAt(frames, b, LAMBDA v : v)
    IN  DominantIn(values, [v \in Range(values) |-> Cardinality({i \in DOMAIN values : values[i] = v})])

\* The bit in which two bytes differ, if it is only one; else 8.
SingleBitFlip(a, b) ==
    IF \E k \in 0 .. 7 : (a ^^ b) = 2^k THEN CHOOSE k \in 0 .. 7 : (a ^^ b) = 2^k ELSE 8

ManyChangeDivisor(changed) ==
    IF changed <= MaxChangedBytes THEN One
    ELSE LET p == Times(ManyChangePenalty, <<changed - MaxChangedBytes, 1>>)
         IN  <<p[1] + p[2], p[2]>>

\* How clean the change is: as clean as the noisier state.
Cleanness(a, b) == LeastOf(a.dominance, b.dominance)

\* The bytes whose dominant value differs between A and B. An id of which many
\* bytes changed is more likely a mode of the car than the flag that was asked for.
Flag(id, k, a, b, bit, clean, div) ==
    [mode |-> "flag", id |-> id, byteIndex |-> k, bit |-> bit,
     direction |-> IF bit = 8 THEN Unknown ELSE Bit(b.value, bit),
     score |-> Lowest(clean[1] * div[2], clean[2] * div[1])]

FlagsFound(id, a, b, changed) ==
    {Flag(id, k, a[k], b[k], SingleBitFlip(a[k].value, b[k].value), Cleanness(a[k], b[k]),
          ManyChangeDivisor(Cardinality(changed))) : k \in changed}

Changed(id, a, b, excluded) ==
    {k \in DOMAIN a \cap DOMAIN b : /\ <<id, k>> \notin excluded
                                  /\ a[k] # NoValue /\ b[k] # NoValue /\ a[k].value # b[k].value}

DominantBytes(frames) == [k \in 0 .. Width(frames) - 1 |-> DominantByte(frames, k)]

FlagsBetween(id, a, b, excluded) == FlagsFound(id, a, b, Changed(id, a, b, excluded))

ScoreFlags(framesA, framesB, excluded) ==
    UNION {FlagsBetween(id, DominantBytes(OfId(framesA, id)), DominantBytes(OfId(framesB, id)), excluded) :
             id \in IdsOf(framesA) \cap IdsOf(framesB)}

-----------------------------------------------------------------------------
(* Fields, and the robust statistics of their values. *)

\* Mutant: only the first byte of a field is looked up.
FieldsByFirstByte(id, frames, excluded) ==
    LET width == Width(frames)
        free(b) == b < width /\ <<id, b>> \notin excluded
    IN  {[byteIndex |-> b, width |-> 8, order |-> "big"] : b \in {c \in 0 .. Stride - 1 : free(c)}}
        \cup {[byteIndex |-> b, width |-> 16, order |-> o] :
                b \in {c \in 0 .. Stride - 1 : free(c) /\ c + 1 < width}, o \in {"big", "little"}}

\* Every field that may be laid over an id's bytes and touches no excluded one.
Fields(id, frames, excluded) ==
    LET width == Width(frames)
        free(b) == b < width /\ <<id, b>> \notin excluded
    IN  {[byteIndex |-> b, width |-> 8, order |-> "big"] : b \in {c \in 0 .. Stride - 1 : free(c)}}
        \cup {[byteIndex |-> b, width |-> 16, order |-> o] :
                b \in {c \in 0 .. Stride - 1 : free(c) /\ free(c + 1)}, o \in {"big", "little"}}

DecodeField(f, field) ==
    LET first == f.at[field.byteIndex]
        second == f.at[field.byteIndex + 1]
    IN  IF field.width = 8 THEN first
        ELSE IF field.order = "big" THEN first * 256 + second ELSE second * 256 + first

\* The samples [v, t] of a field, in the order of its frames.
DecodeSeries(frames, field) ==
    LET long == SelectSeq(frames, LAMBDA f : field.byteIndex + field.width \div 8 <= f.len)
    IN  Each(long, LAMBDA f : [v |-> DecodeField(f, field), t |-> f.t])

ValuesOf(series) == Each(series, LAMBDA s : s.v)

\* Twice the median: the middle value, or the sum of the two middle ones.
Median2(values) ==
    LET s == SortSeq(values, <)
        n == Len(s)
    IN  IF n = 0 THEN 0
        ELSE IF n % 2 = 1 THEN 2 * s[n \div 2 + 1] ELSE s[n \div 2] + s[n \div 2 + 1]

\* Four times the interquartile range, each quartile interpolated.
Iqr4(values) ==
    LET s == SortSeq(values, <)
        n == Len(s)
        q4(quarters) == LET k == quarters * (n - 1)
                            lo == k \div 4 + 1
                            hi == IF k % 4 = 0 THEN lo ELSE lo + 1
                        IN  4 * s[lo] + (s[hi] - s[lo]) * (k % 4)
    IN  IF n < 2 THEN 0 ELSE q4(3) - q4(1)

\* A level: the values spread little, relative to their median where it is not small.
IsLevel(values) ==
    LET m == Abs(Median2(values))
        spread == IF m >= 2 THEN <<Iqr4(values), 2 * m>> ELSE <<Iqr4(values), 4>>
    IN  Le(spread, MaxStateSpread)

-----------------------------------------------------------------------------
(* Trends. *)

\* Twice the rank of each value, ties sharing the mean of their ranks.
Ranks2(xs) ==
    Each(xs, LAMBDA x : 2 * Cardinality({j \in DOMAIN xs : xs[j] < x})
                        + Cardinality({j \in DOMAIN xs : xs[j] = x}) + 1)

SumOver(n, f(_)) == FoldLeft(LAMBDA acc, i : acc + f(i), 0, [i \in 1 .. n |-> i])

\* A rank correlation as its sign and its square. Twice a rank has mean n + 1.
SignAndSquare(sxy, sxx, syy) ==
    IF sxx = 0 \/ syy = 0 THEN [sign |-> 0, sq |-> Zero]
    ELSE [sign |-> IF sxy < 0 THEN -1 ELSE IF sxy = 0 THEN 0 ELSE 1,
          sq |-> Times(Lowest(Abs(sxy), sxx), Lowest(Abs(sxy), syy))]

OfRanks(rx, ry, mean) ==
    LET sum(x, y) == SumOver(Len(x), LAMBDA i : (x[i] - mean) * (y[i] - mean))
    IN  SignAndSquare(sum(rx, ry), sum(rx, rx), sum(ry, ry))

RankCorrelation(xs, ys) == OfRanks(Ranks2(xs), Ranks2(ys), Len(xs) + 1)

\* The rank correlation of a series with time.
Spearman(series) == RankCorrelation(ValuesOf(series), Each(series, LAMBDA s : s.t))

\* The median of fractions in ascending order, up to a positive factor.
MedianSign(sorted) ==
    LET m == Len(sorted)
        mid == sorted[m \div 2 + 1]
        below == sorted[m \div 2]
    IN  IF m = 0 THEN 0
        ELSE IF m % 2 = 1 THEN mid[1] ELSE mid[1] * below[2] + below[1] * mid[2]

\* The sign of the median of all slopes between two samples at different times,
\* with every stride-th sample as the first of a pair once there are too many.
Stridden(total) == IF total > MaxSlopePairs THEN (total + MaxSlopePairs - 1) \div MaxSlopePairs ELSE 1

TheilSenSign(series) ==
    LET stride == Stridden((Len(series) * (Len(series) - 1)) \div 2)
        pairs == {p \in (1 .. Len(series)) \X (1 .. Len(series)) :
                    p[1] < p[2] /\ (p[1] - 1) % stride = 0 /\ series[p[1]].t # series[p[2]].t}
        slope(p) == LET dt == series[p[2]].t - series[p[1]].t
                        dv == series[p[2]].v - series[p[1]].v
                    IN  IF dt > 0 THEN <<dv, dt>> ELSE <<-dv, -dt>>
    IN  MedianSign(SortSeq(FoldSet(LAMBDA p, seq : Append(seq, slope(p)), <<>>, pairs), Lt))

\* The fields that follow time closely and whose slope has the sign of the ramp;
\* a slope of 0 counts as rising.
TrendFound(id, field, series, direction) ==
    IF Len(series) < MinSamples \/ (TheilSenSign(series) >= 0) # (direction = "up") THEN {}
    ELSE {[mode |-> "trend", id |-> id, byteIndex |-> field.byteIndex,
           width |-> field.width, order |-> field.order, rho |-> rho.sign, score |-> rho.sq] :
            rho \in {r \in {Spearman(series)} : Le(Square(MinSpearman), r.sq)}}

TrendsFound(id, frames, direction, excluded) ==
    UNION {TrendFound(id, field, DecodeSeries(frames, field), direction) :
             field \in Fields(id, frames, excluded)}

ScoreTrend(frames, window, excluded) ==
    UNION {TrendsFound(id, ByTime(OfId(Slice(frames, window), id)), window.direction, excluded) :
             id \in IdsOf(Slice(frames, window))}

\* The fields that are a level in A and in B, and differ by more than their noise.
Levels(a, b) == Len(a) >= MinSamples /\ Len(b) >= MinSamples /\ IsLevel(a) /\ IsLevel(b)

ShiftFound(id, field, a, b, delta2) ==
    IF ~Levels(a, b) THEN {}
    ELSE {c \in {[mode |-> "compare", id |-> id, byteIndex |-> field.byteIndex,
                  width |-> field.width, order |-> field.order, delta2 |-> delta2,
                  score |-> Lowest(2 * Abs(delta2), Max({Iqr4(a), Iqr4(b), 4}))]} :
            Le(MinSpearman, c.score)}

ShiftIn(id, field, a, b) == ShiftFound(id, field, a, b, Median2(a) - Median2(b))

\* The values of a field in the frames of an id.
Readings(frames, id, field) == ValuesOf(DecodeSeries(ByTime(OfId(frames, id)), field))

CompareStates(framesA, framesB, excluded) ==
    UNION {UNION {ShiftIn(id, field, Readings(framesA, id, field), Readings(framesB, id, field)) :
                    field \in Fields(id, OfId(framesA, id), excluded)} :
             id \in IdsOf(framesA) \cap IdsOf(framesB)}

-----------------------------------------------------------------------------
(* Equivalence. *)

\* The fields that hold the same level in X and in Y and left it in between:
\* closeness of the levels times the way they went, both relative to the range.
ReturnScore(range, apart2, away4) ==
    Times(LeastOf(One, Lowest(away4, 4 * range)), Minus(One, LeastOf(One, Lowest(apart2, 2 * range))))

RangeOf(values) == Max({Max(values) - Min(values), 1})

ReturnOf(id, field, x, y, z, mx, my) ==
    [mode |-> "equivalence", id |-> id, byteIndex |-> field.byteIndex,
     width |-> field.width, order |-> field.order,
     score |-> ReturnScore(RangeOf(Range(x) \cup Range(y) \cup Range(z)), Abs(mx - my),
                           Max({0} \cup {Abs(4 * v - (mx + my)) : v \in Range(z)}))]

ReturnFound(id, field, x, y, z) ==
    IF ~Levels(x, y) THEN {}
    ELSE {c \in {ReturnOf(id, field, x, y, z, Median2(x), Median2(y))} : Le(MinReturnScore, c.score)}

Seen(frames, id, field) == ValuesOf(DecodeSeries(OfId(frames, id), field))

ScoreEquivalence(framesX, framesY, between, excluded) ==
    UNION {UNION {ReturnFound(id, field, Seen(framesX, id, field), Seen(framesY, id, field),
                              Seen(between, id, field)) :
                    field \in Fields(id, OfId(framesX, id), excluded)} :
             id \in IdsOf(framesX) \cap IdsOf(framesY)}
=============================================================================
