----------------------------- MODULE Experiment -----------------------------
(***************************************************************************)
(* shared/analysis/run-experiment.ts, logbook.ts and field-run.ts: one     *)
(* question put to one recording, and the two analyses of whole runs that  *)
(* are made of such questions and of a negative control.                   *)
(***************************************************************************)
EXTENDS Scorers

CONSTANTS NoiseFailRate,   \* change rate from which a control fails, 1/2
          Alpha,           \* chance level below which a candidate is significant, 1/20
          RestBefore       \* the second before a stimulus that counts as rest

-----------------------------------------------------------------------------
(* One question. The marks that are present decide, in this order. *)

Answered(frames, marks, excluded) ==
    IF "events" \in DOMAIN marks /\ marks.events # <<>>
    THEN ScoreEvents(frames, marks.events, excluded)
    ELSE IF "trend" \in DOMAIN marks
    THEN ScoreTrend(frames, marks.trend, excluded)
    ELSE IF "compare" \in DOMAIN marks
    THEN CompareStates(Slice(frames, marks.compare.a), Slice(frames, marks.compare.b), excluded)
    ELSE IF "flags" \in DOMAIN marks
    THEN ScoreFlags(Slice(frames, marks.flags.a), Slice(frames, marks.flags.b), excluded)
    ELSE {}

RunExperiment(frames, marks, known) == Answered(frames, marks, ExcludedBytes(TagFrames(frames)) \cup known)

-----------------------------------------------------------------------------
(* The negative control, the same in logbook.ts and field-run.ts. The       *)
(* frames of all control windows are strung together, so that a change      *)
(* from one window to the next counts as well.                              *)

SliceId(frames, id, windows) ==
    ByTime(SelectSeq(frames, LAMBDA f : f.id = id /\ InAny(f.t, windows)))

Transitions(f, b, moved) == Rate(Cardinality(moved), Cardinality(Pairs(f, b)))

ByteChanges(f, b) == Transitions(f, b, {i \in Pairs(f, b) : f[i].at[b] # f[i - 1].at[b]})
ByteChangeRate(frames, id, b, windows) == ByteChanges(SliceId(frames, id, windows), b)

BitChanges(f, b, bit) ==
    Transitions(f, b, {i \in Pairs(f, b) : Bit(f[i].at[b], bit) # Bit(f[i - 1].at[b], bit)})
BitChangeRate(frames, id, b, bit, windows) == BitChanges(SliceId(frames, id, windows), b, bit)

-----------------------------------------------------------------------------
(* A logbook run: windows [role, rep, from, to]. *)

WithRole(run, roles) == SelectSeq(run.windows, LAMBDA w : w.role \in roles)
SetOf(windows) == {windows[i] : i \in DOMAIN windows}

\* What a candidate's bit (or byte, where bit = 8) was in the windows, in order.
ValuesIn(frames, c, bit, windows) ==
    LET seen == SelectSeq(frames, LAMBDA f : /\ f.id = c.id /\ InAny(f.t, windows)
                                             /\ c.byteIndex < f.len)
    IN  [i \in DOMAIN seen |-> IF bit = 8 THEN seen[i].at[c.byteIndex]
                               ELSE Bit(seen[i].at[c.byteIndex], bit)]

\* The value that is first to reach the highest count; none of an empty sequence.
ModeAt(values, top, count(_, _)) ==
    values[Min({k \in DOMAIN values : count(values[k], k) = top})]

ModeOf(values) ==
    LET count(v, k) == Cardinality({i \in 1 .. k : values[i] = v})
    IN  IF values = <<>> THEN {}
        ELSE {ModeAt(values, Max({count(values[i], Len(values)) : i \in DOMAIN values}), count)}

\* How the candidate answered one stimulus: back in the observation (pulse), not
\* back (level), only then (delayed), or not at all.
Shape(rest, stim, obs) ==
    IF rest = {} \/ stim = {} THEN "none"
    ELSE IF stim # rest THEN IF obs \in {{}, rest} THEN "pulse" ELSE "level"
    ELSE IF obs \notin {{}, rest} THEN "delayed" ELSE "none"

ResponseTo(frames, run, c, sw) ==
    LET held(windows) == ModeOf(ValuesIn(frames, c, IF c.mode = "event" THEN c.bit ELSE 8, windows))
        after == SelectSeq(run.windows, LAMBDA w : w.role = "observe" /\ w.rep = sw.rep)
    IN  Shape(held({[from |-> sw.from - RestBefore, to |-> sw.from]}), held({sw}),
              IF after = <<>> THEN {} ELSE held({after[1]}))

\* The answer that most repetitions gave.
Majority(answers) ==
    LET votes(kind) == Cardinality({i \in DOMAIN answers : answers[i] = kind})
        better(best, kind) == IF votes(kind) > (IF best = "inconclusive" THEN 0 ELSE votes(best))
                              THEN kind ELSE best
    IN  FoldLeft(better, "inconclusive", <<"pulse", "level", "delayed">>)

ClassifyType(frames, run, c) ==
    IF c.mode = "trend" THEN "trend"
    ELSE Majority(Each(WithRole(run, {"stimulus"}), LAMBDA sw : ResponseTo(frames, run, c, sw)))

\* How likely the bit would show the action's value by chance in every repetition.
Chance(off, direction, times) ==
    LET power(q) == FoldLeft(Times, One, [i \in 1 .. times |-> q])
    IN  IF off = <<>> THEN One
        ELSE power(Rate(Cardinality({i \in DOMAIN off : off[i] = direction}), Len(off)))

ChanceLevel(frames, run, c) ==
    Chance(ValuesIn(frames, c, c.bit, SetOf(WithRole(run, {"baseline", "noise", "wait"}))),
           c.direction, Max({1, Len(WithRole(run, {"stimulus"}))}))

Significant(frames, run, c) == c.mode = "event" => Lt(ChanceLevel(frames, run, c), Alpha)

Noise(frames, run, c) ==
    LET control == SetOf(WithRole(run, {"noise", "baseline"}))
    IN  IF c.mode = "event" THEN BitChangeRate(frames, c.id, c.byteIndex, c.bit, control)
        ELSE ByteChangeRate(frames, c.id, c.byteIndex, control)

\* Position of a candidate in the order in which its scorer returns it.
Before(c, d) ==
    LET sameSlot == c.score = d.score /\ c.id = d.id /\ c.byteIndex = d.byteIndex
    IN  \/ Lt(d.score, c.score)
        \/ c.score = d.score /\ c.id < d.id
        \/ c.score = d.score /\ c.id = d.id /\ c.byteIndex < d.byteIndex
        \/ sameSlot /\ c.mode \in {"event", "flag"} /\ c.bit < d.bit
        \/ sameSlot /\ c.mode \in {"trend", "compare"} /\ c.width < d.width
        \/ sameSlot /\ c.mode \in {"trend", "compare"} /\ c.width = d.width
           /\ c.order = "big" /\ d.order = "little"

\* The candidates of a run: those that clear control and chance first, then by the
\* score that is left when the noise is taken off, then as the scorer ranked them.
Judged(frames, run, c, noise, quiet) ==
    [locus |-> c, noise |-> noise, type |-> ClassifyType(frames, run, c),
     cleared |-> Lt(noise, NoiseFailRate) /\ Significant(frames, run, c),
     score |-> Times(c.score, IF c.mode = "trend" THEN Square(quiet) ELSE quiet)]

Weighed(frames, run, c, noise) == Judged(frames, run, c, noise, Minus(One, LeastOf(One, noise)))

Cleaner(c, d) ==
    \/ c.cleared /\ ~d.cleared
    \/ c.cleared = d.cleared /\ Lt(d.score, c.score)
    \/ c.cleared = d.cleared /\ c.score = d.score /\ Before(c.locus, d.locus)

\* The marks of a run that has stimuli.
MarksOf(run, stim) ==
    IF run.stimulusKind = "trend"
    THEN [trend |-> [from |-> stim[1].from, to |-> stim[1].to, direction |-> run.trendDirection]]
    ELSE [events |-> [i \in DOMAIN stim |-> [at |-> stim[i].from, quality |-> "good"]]]

AnalyzeRun(run, frames, known) ==
    LET stim == WithRole(run, {"stimulus"})
    IN  IF stim = <<>> THEN <<>>
        ELSE Sorted({Weighed(frames, run, c, Noise(frames, run, c)) :
                       c \in RunExperiment(frames, MarksOf(run, stim), known)}, Cleaner)

-----------------------------------------------------------------------------
(* A field run: spans [name, type, from, to, same], `same' the names of the *)
(* spans it is asserted to equal.                                           *)

OfType(spans, types) == SelectSeq(spans, LAMBDA s : s.type \in types)

\* A bit or a field, whichever scorer it came from.
LocusOf(c) ==
    IF c.mode \in {"event", "flag"} /\ c.bit # 8
    THEN [id |-> c.id, byteIndex |-> c.byteIndex, bit |-> c.bit, width |-> 1, order |-> "none"]
    ELSE IF c.mode = "flag"
    THEN [id |-> c.id, byteIndex |-> c.byteIndex, bit |-> 8, width |-> 8, order |-> "little"]
    ELSE [id |-> c.id, byteIndex |-> c.byteIndex, bit |-> 8, width |-> c.width, order |-> c.order]

\* The pairs of spans an equivalence is asked for: each once, the earlier first.
EquivalentPairs(spans) ==
    LET asserted == {p \in (DOMAIN spans) \X (DOMAIN spans) :
                       spans[p[1]].name # spans[p[2]].name /\ spans[p[2]].name \in spans[p[1]].same}
        earlier(p) == spans[p[1]].from <= spans[p[2]].from
    IN  {IF earlier(p) THEN <<spans[p[1]], spans[p[2]]>> ELSE <<spans[p[2]], spans[p[1]]>> :
           p \in asserted}

\* What the run asks: every ramp, every level against the first stable span, and all events
\* together.
FieldRunQuestions(spans) ==
    LET window(s) == [from |-> s.from, to |-> s.to]
        stable == OfType(spans, {"stable"})
        events == OfType(spans, {"event"})
    IN  {[trend |-> [from |-> s.from, to |-> s.to, direction |-> IF s.type = "rampUp" THEN "up" ELSE "down"]] :
           s \in SetOf(OfType(spans, {"rampUp", "rampDown"}))}
        \cup {[compare |-> [a |-> window(stable[1]), b |-> window(s)]] :
                s \in IF stable = <<>> THEN {} ELSE SetOf(OfType(spans, {"level"}))}
        \cup (IF events = <<>> THEN {}
              ELSE {[events |-> [i \in DOMAIN events |-> [at |-> events[i].from, quality |-> "good"]]]})

\* What every question of the run found, as sets of candidates.
FieldRunAnswers(spans, frames, known) ==
    {RunExperiment(frames, marks, known) : marks \in FieldRunQuestions(spans)}
    \cup {ScoreEquivalence(Slice(frames, p[1]), Slice(frames, p[2]),
                           SelectSeq(frames, LAMBDA f : p[1].to < f.t /\ f.t < p[2].from), known) :
             p \in EquivalentPairs(spans)}

\* The square of a score, at most 1.
Clamped(c) == IF c.mode = "trend" THEN c.score ELSE Square(LeastOf(One, c.score))

\* One candidate per locus with its best score, held against the stable spans. A
\* field of two bytes is judged by its first byte alone.
LocusNoise(l, frames, stable) ==
    IF l.bit # 8 THEN BitChangeRate(frames, l.id, l.byteIndex, l.bit, stable)
    ELSE ByteChangeRate(frames, l.id, l.byteIndex, stable)

LocusFound(l, scores, noise) ==
    [locus |-> l, score |-> CHOOSE s \in scores : \A r \in scores : Le(r, s), noise |-> noise,
     passesControl |-> Lt(noise, NoiseFailRate)]

LociFound(found, frames, stable) ==
    {LocusFound(l, {Clamped(c) : c \in {d \in found : LocusOf(d) = l}}, LocusNoise(l, frames, stable)) :
       l \in {LocusOf(c) : c \in found}}

AnalyzeFieldRun(spans, frames, known) ==
    LociFound(UNION FieldRunAnswers(spans, frames, known), frames, SetOf(OfType(spans, {"stable"})))
=============================================================================
