-------------------------------- MODULE Hunt --------------------------------
(***************************************************************************)
(* The analyses of the cockpit over one recording, and what the operator   *)
(* makes of their answers: runHuntScan of worker/analysis.worker.ts with   *)
(* the adapters under hunt/, the promote handlers of HuntPanel,            *)
(* LogbookPanel, MarkhuntPanel and FindingsPanel, and the project that     *)
(* collects signals and findings, with its way through a DBC file.         *)
(*                                                                         *)
(* ring holds the frames with all the bytes of their slots: at[b] for      *)
(* b >= len is what an older frame left there. One answer is shown at a    *)
(* time; a question is answered at once (the panels' races are HuntPanel's *)
(* subject).                                                               *)
(***************************************************************************)
EXTENDS Signals, Experiment

CONSTANTS
  Recordings, \* recordings, each a sequence of frames in the order of time
  Projects,   \* projects the operator may start with
  Questions,  \* per recording: the marks of experiments,
  Runs,       \* logbook runs,
  FieldRuns,  \* and the spans of field runs
  Labels,     \* value tables the operator may give a signal
  DependenceFrames, \* frames a dependence is judged over, 24
  AutoSamples, AutoMin, AutoMax, \* frames and distinct values of a message id: 8, 2 to 8
  Pad,        \* event window: the second before the first and after the last mark
  Seconds,    \* and the span of recent history it always takes in
  Shown,      \* candidates of an experiment that are listed, 5
  Rolling,    \* per recording: the slots of its counters and checksums
  Copies,     \* per recording: the slots that repeat another, [of, at]
  Nothing,    \* no answer
  FrameName,  \* name of a frame that a promotion defines
  MaxAsked,   \* bound: questions asked
  MaxRow,     \* bound: rows of an answer the operator takes something from
  MaxKept     \* bound: signals, findings and value tables the operator adds

VARIABLES
  ring,     \* the recorded frames
  project,  \* the frame definitions
  findings, \* sequence of [id, ext, byteIndex, bit, excludeFromHunt, synonyms]
  answer,   \* what the panel shows
  asked,    \* questions asked
  kept      \* things added

vars == <<ring, project, findings, answer, asked, kept>>

-----------------------------------------------------------------------------
(* The recording, as the worker hands it to an analysis. *)

\* windowPacked copies whole slots.
WindowPacked(frames) ==
    [FramesToPacked(frames) EXCEPT
       !.data = [k \in DOMAIN @ |-> frames[(k - 1) \div Stride + 1].at[(k - 1) % Stride]]]

\* The window of a question. Marks of events may lie before the recent history.
WindowOf(marks) ==
    LET newest == Last(ring).t
        around(a, b) == [from |-> Min({a.from, b.from}), to |-> Max({a.to, b.to})]
        cues == Range(marks.events)
    IN  CASE "events" \in DOMAIN marks ->
               [from |-> Min({newest - Seconds, Min(cues) - Pad}), to |-> Max({newest, Max(cues) + Pad})]
          [] "trend" \in DOMAIN marks -> marks.trend
          [] "compare" \in DOMAIN marks -> around(marks.compare.a, marks.compare.b)
          [] "flags" \in DOMAIN marks -> around(marks.flags.a, marks.flags.b)

SharedMarks(marks) ==
    IF "events" \in DOMAIN marks
    THEN [events |-> [i \in DOMAIN marks.events |-> [at |-> marks.events[i], quality |-> "good"]]]
    ELSE marks

\* Whether an id is extended: by its last frame for an experiment, by its first for a scan.
LastExt(frames, id) == Last(OfId(frames, id)).ext
FirstExt(frames, id) == Head(OfId(frames, id)).ext

\* The frames of a window, of the ids that are asked for.
Admit(w, allow) == SelectSeq(Slice(ring, w), LAMBDA f : allow = {} \/ f.id \in allow)

SpanOf(windows) == [from |-> Min({windows[i].from : i \in DOMAIN windows}),
                    to |-> Max({windows[i].to : i \in DOMAIN windows})]

\* The slots of the findings the operator excluded, whole bytes.
ExcludedSlots(known) == {<<f.id, f.byteIndex>> : f \in {g \in Range(known) : g.excludeFromHunt}}

-----------------------------------------------------------------------------
(* Questions. *)

Ask(next) == /\ asked < MaxAsked /\ asked' = asked + 1
             /\ answer' = next
             /\ UNCHANGED <<ring, project, findings, kept>>

\* Bound: what depends on the recording alone is asked first; asked later it would get
\* the answer it got.
AskOfRing(next) == asked = 0 /\ Ask(next)

\* The candidates of a comparison are listed by the size of their difference.
ByDelta(c, d) == \/ Abs(c.delta2) > Abs(d.delta2)
                 \/ Abs(c.delta2) = Abs(d.delta2) /\ Before(c, d)

Ranked(marks, found) == IF "compare" \in DOMAIN marks THEN Sorted(found, ByDelta) ELSE Sorted(found, Before)

ExperimentAnswer(marks, allow, found) ==
    [kind |-> "experiment", marks |-> marks, allow |-> allow, window |-> WindowOf(marks),
     list |-> SubSeq(Ranked(marks, found), 1, Min({Cardinality(found), Shown}))]

AskedExperiment(marks, allow) ==
    ExperimentAnswer(marks, allow, RunExperiment(Admit(WindowOf(marks), allow), SharedMarks(marks), {}))

AskExperiment == \E marks \in Questions[ring], allow \in {{}} \cup {{id} : id \in IdsOf(ring)} :
                   AskOfRing(AskedExperiment(marks, allow))

\* Every scan of the panel over the same packed window.
ScannedWith(p, allow, sweepAllow, tags, excluded) ==
    [activity |-> BitActivityPacked(p, allow), histogram |-> ByteHistogramPacked(p, allow),
     discovery |-> SignalDiscoveryPacked(p, sweepAllow, excluded),
     coOccurrence |-> CoOccurrencePacked(p, allow, excluded), tags |-> tags]

Scanned(p, allow, sweepAllow) ==
    ScannedWith(p, allow, sweepAllow, TagFramesPacked(p), ExcludedBytes(TagFramesPacked(p)))

ScanAnswer(allow, scan) == [kind |-> "scan", allow |-> allow, scan |-> scan, list |-> scan.discovery]

AskScan == \E allow \in {{}} \cup {{id} : id \in IdsOf(ring)} :
             AskOfRing(ScanAnswer(allow, Scanned(WindowPacked(ring), allow, allow)))

CorrelatedPacked(p, reference) ==
    SignalCorrelationPacked(p, DecodeReferenceSeries([i \in 1 .. p.count |-> ViewAt(p, i)], reference),
                            {}, ExcludedBytes(TagFramesPacked(p)))

AskCorrelation ==
    \E reference \in UNION {Range(project[i].signals) : i \in DOMAIN project} :
      Ask([kind |-> "correlation", reference |-> reference,
           list |-> CorrelatedPacked(WindowPacked(ring), reference)])

\* scanAutoSegment; no panel calls it yet.
AskSegments == AskOfRing([kind |-> "segments", list |-> AutoSegment(ring, {}).of])

\* The span of a byte's bits that are not constant.
NonConstant(profile, b) ==
    LET moving == {k \in 0 .. 7 : 8 * b + k \notin profile.constantBits}
    IN  [start |-> 8 * b + Min(moving), len |-> Max(moving) - Min(moving) + 1,
         order |-> "little", signed |-> FALSE]

\* The lowest candidate byte whose moving bits hold few values, and on which the
\* payload depends.
Detected(b, field, values) == [byteIndex |-> b, field |-> field, distinct |-> Cardinality(values)]

ValuesUnder(frames, b, field) == {ExtractRaw(f, field) : f \in {g \in Range(frames) : b < g.len}}

\* The candidate a byte makes, if it makes one.
DetectedAt(frames, b, field) ==
    IF Len(ColumnAt(frames, b, LAMBDA v : v)) < AutoSamples THEN {}
    ELSE {d \in {Detected(b, field, ValuesUnder(frames, b, field))} : d.distinct \in AutoMin .. AutoMax}

Lowermost(candidates) == {c \in candidates : \A d \in candidates : c.byteIndex <= d.byteIndex}

DetectIn(frames, profile, refused) ==
    IF Len(frames) < AutoSamples THEN {}
    ELSE Lowermost(UNION {DetectedAt(frames, b, NonConstant(profile, b)) :
                            b \in profile.candidateBytes \ refused})

DetectMessageId(frames, id, refused) == DetectIn(frames, IdProfile(frames, {id}).of[id], refused)

\* The bytes among the targets over which a field of byte b is judged: they vary in
\* enough of the frames that carry both.
JudgedOver(frames, b, targets) ==
    LET both(j) == {i \in DOMAIN frames : b < frames[i].len /\ j < frames[i].len}
        varies(j) == \E i, k \in both(j) : frames[i].at[j] # frames[k].at[j]
    IN  {j \in targets \ {b} : j < MaxBytes /\ Cardinality(both(j)) >= DependenceFrames /\ varies(j)}

\* Whether the payload depends on a field is a statistic, which may refuse any byte that
\* it could judge; one that it could not judge it lets pass.
Refusable(frames, candidates) == {b \in candidates : JudgedOver(frames, b, candidates) # {}}

AskMessageId ==
    \E id \in IdsOf(ring) :
      \E refused \in SUBSET Refusable(OfId(ring, id), IdProfile(OfId(ring, id), {id}).of[id].candidateBytes) :
        AskOfRing([kind |-> "messageId", id |-> id, list |-> DetectMessageId(OfId(ring, id), id, refused)])

AskLogbook ==
    \E run \in Runs[ring] :
      Ask([kind |-> "logbook", run |-> run, window |-> SpanOf(run.windows),
           list |-> AnalyzeRun(run, Slice(ring, SpanOf(run.windows)), ExcludedSlots(findings)),
           detail |-> {}])

FieldRunAnswer(spans, found) ==
    LET first(c, d) == \/ c.passesControl /\ ~d.passesControl
                       \/ c.passesControl = d.passesControl /\ Lt(d.score, c.score)
    IN  [kind |-> "fieldRun", spans |-> spans, window |-> SpanOf(spans), list |-> SetToSortSeq(found, first)]

AskFieldRun ==
    \E spans \in FieldRuns[ring] :
      Ask(FieldRunAnswer(spans, AnalyzeFieldRun(spans, Slice(ring, SpanOf(spans)), ExcludedSlots(findings))))

-----------------------------------------------------------------------------
(* What the operator makes of an answer. *)

SignalsOf(frames) == FlattenSeq([i \in DOMAIN frames |-> frames[i].signals])

Adds == kept < MaxKept /\ kept' = kept + 1

Keep(sig) == /\ Adds
             /\ project' = AddSignal(project, sig, FrameName)
             /\ UNCHANGED <<ring, findings, answer, asked>>

Rows == {i \in DOMAIN answer.list : i <= MaxRow}

\* A promoted signal is named after its frame and its start alone.
Promote ==
    /\ answer.kind = "experiment"
    /\ \E i \in Rows :
         LET c == answer.list[i]
         IN  Keep(PromotedExperiment(c, LastExt(Slice(ring, answer.window), c.id),
                                     <<"hunt", c.id, ToSeamCandidate(c).start>>))

PromoteSweep ==
    /\ answer.kind = "scan"
    /\ \E i \in Rows :
         LET c == answer.list[i]
         IN  Keep(PromotedLocus(c, FirstExt(ring, c.id), <<"sweep", c.id, StartBit(c), c.width>>))

PromoteCorr ==
    /\ answer.kind = "correlation"
    /\ \E i \in Rows :
         LET c == answer.list[i]
         IN  Keep(PromotedLocus(c, FirstExt(ring, c.id), <<"corr", c.id, StartBit(c), c.width>>))

ToSignal == \E i \in DOMAIN findings : Keep(FindingSignal(findings[i], <<"finding", findings[i].id>>))

\* A candidate as the field that synonyms are looked up by.
FieldOf(c) == [id |-> c.id, byteIndex |-> c.byteIndex, bit |-> IF c.mode = "event" THEN c.bit ELSE 8]

SelectCandidate ==
    /\ answer.kind = "logbook"
    /\ \E i \in Rows :
         LET c == answer.list[i].locus
             others == {FieldOf(answer.list[k].locus) : k \in DOMAIN answer.list \ {i}}
                       \cup {[id |-> f.id, byteIndex |-> f.byteIndex, bit |-> f.bit] : f \in Range(findings)}
         IN  answer' = [answer EXCEPT !.detail =
                          {[of |-> FieldOf(c), like |-> FindSynonyms(Slice(ring, answer.window), FieldOf(c), others)]}]
    /\ UNCHANGED <<ring, project, findings, asked, kept>>

Note(c, ext, synonyms) ==
    /\ Adds
    /\ findings' = Append(findings, [id |-> c.id, ext |-> ext, byteIndex |-> c.byteIndex, bit |-> c.bit,
                                     excludeFromHunt |-> FALSE, synonyms |-> synonyms])
    /\ UNCHANGED <<ring, project, answer, asked>>

\* What is known to lie there, and what was seen to move with it if it is selected.
PromoteLogbook ==
    /\ answer.kind = "logbook"
    /\ \E i \in Rows :
         LET c == answer.list[i].locus
             f == FieldOf(c)
             known == KnownSignalsAt(project, f.id, f.byteIndex, f.bit, IF c.mode = "trend" THEN c.width ELSE 8)
             seen == UNION {{s.field : s \in d.like} : d \in {e \in answer.detail : e.of = f}}
         IN  Note(f, FirstExt(Slice(ring, answer.window), f.id), [known |-> known, seen |-> seen])

PromoteFieldRun ==
    /\ answer.kind = "fieldRun"
    /\ \E i \in Rows :
         LET c == answer.list[i].locus
         IN  Note(c, FirstExt(Slice(ring, answer.window), c.id), [known |-> {}, seen |-> {}])

ToggleExclude ==
    /\ \E i \in DOMAIN findings :
         findings' = [findings EXCEPT ![i].excludeFromHunt = ~@]
    /\ UNCHANGED <<ring, project, answer, asked, kept>>

\* The signal editor gives a signal a value table.
Label == /\ Adds
         /\ \E i \in DOMAIN project, labels \in Labels :
              \E k \in DOMAIN project[i].signals :
                 /\ project[i].signals[k].labels = NoText
                 /\ project' = [project EXCEPT ![i].signals[k].labels = labels]
         /\ UNCHANGED <<ring, findings, answer, asked>>

\* The project is downloaded as a DBC file and loaded again; findings do not travel in one.
ReloadDbc == /\ project' = ImportDbc(ExportDbc(project))
             /\ findings' = <<>>
             /\ UNCHANGED <<ring, answer, asked, kept>>

-----------------------------------------------------------------------------

Init == /\ ring \in Recordings
        /\ project \in Projects
        /\ findings = <<>>
        /\ answer = [kind |-> Nothing]
        /\ asked = 0
        /\ kept = 0

Next == \/ AskExperiment \/ AskScan \/ AskCorrelation \/ AskLogbook \/ AskFieldRun
        \/ AskSegments \/ AskMessageId
        \/ Promote \/ PromoteSweep \/ PromoteCorr \/ ToSignal
        \/ SelectCandidate \/ PromoteLogbook \/ PromoteFieldRun \/ ToggleExclude
        \/ Label \/ ReloadDbc

Spec == Init /\ [][Next]_vars

-----------------------------------------------------------------------------
(* What a candidate claims. *)

\* The value the analyser read in a frame that carries the candidate.
ReadBy(f, c) ==
    CASE answer.kind \in {"scan", "correlation"} -> DecodeRaw(f, c)
      [] c.mode \in {"event", "flag"} /\ c.bit # 8 -> Bit(f.at[c.byteIndex], c.bit)
      [] c.mode = "flag" /\ c.bit = 8 -> f.at[c.byteIndex]
      [] OTHER -> DecodeField(f, c)

WidthOf(c) == IF answer.kind = "experiment" /\ c.mode \in {"event", "flag"} THEN 8 ELSE c.width

CarriersOf(c) == {f \in Range(ring) : f.id = c.id /\ c.byteIndex + WidthOf(c) \div 8 <= f.len}

SignalOf(c) == IF answer.kind = "experiment" THEN PromotedExperiment(c, FALSE, FrameName)
               ELSE PromotedLocus(c, FALSE, FrameName)

ReadsAsScored(c) ==
    \A f \in CarriersOf(c) : DecodeSignal(f, SignalOf(c)) = [value |-> ReadBy(f, c), truncated |-> FALSE]

Promotable == IF answer.kind \in {"experiment", "scan", "correlation"} THEN Range(answer.list) ELSE {}

OthersReadAsScored ==
    \A c \in Promotable :
      (answer.kind = "experiment" /\ c.mode \in {"trend", "compare"} => c.order = "little") => ReadsAsScored(c)

FormulaIsSignal ==
    \A s \in Range(SignalsOf(project)), f \in Range(ring) :
      SignalToFormula(s) # NoFormula => EvalFormula(SignalToFormula(s), f) = DecodeSignal(f, s).value

(* Every program reads a field the same. In all frames that carry a candidate, the signal
   promoted from it, by its listed bit range, reads the analyser's value (the field
   scorers' candidates that are not little-endian are left to PromotedReadsAsScored); and
   the formula written for a signal computes what the signal decodes to, in frames of
   every length, whose missing bytes both see as 0. *)
ReadersAgree == OthersReadAsScored /\ FormulaIsSignal

(* hunt.ts:110 calls bitStart and bitLength of a candidate the proposed bit range within
   the payload, and decode.ts:13 has a big-endian range begin at its highest bit. *)
PromotedReadsAsScored == \A c \in Promotable : ReadsAsScored(c)

\* The bytes an answer speaks of.
Covered ==
    LET bytes(c, width) == {<<c.id, b>> : b \in c.byteIndex .. c.byteIndex + width \div 8 - 1}
    IN  CASE answer.kind \in {"experiment", "scan", "correlation"} ->
               UNION {bytes(c, WidthOf(c)) : c \in Range(answer.list)}
          [] answer.kind = "logbook" ->
               UNION {bytes(c.locus, IF c.locus.mode = "event" THEN 8 ELSE c.locus.width) : c \in Range(answer.list)}
          [] answer.kind = "segments" ->
               UNION {UNION {{<<id, b>> : b \in seg.start .. seg.end} : seg \in Range(answer.list[id])} :
                        id \in DOMAIN answer.list}
          [] answer.kind = "messageId" -> {<<answer.id, d.byteIndex>> : d \in answer.list}
          [] OTHER -> {}

(* No analysis offers the operator a rolling counter or a checksum: the bytes that were
   laid into the recording as such are in no answer, whichever question was asked and
   however wide the candidate. *)
RollingNeverSurfaces == Covered \cap Rolling[ring] = {}

\* What the analysers that take frames one by one say.
ScannedByIndex(frames, allow, tags, excluded) ==
    [activity |-> BitActivity(frames, allow), histogram |-> ByteHistogram(frames, allow),
     discovery |-> SignalDiscovery(frames, allow, excluded),
     coOccurrence |-> CoOccurrence(frames, allow, excluded), tags |-> tags]

(* The packed analysers of the worker, which read bits and bytes out of columns, and the
   analysers that take frames one by one say the same of the same frames, whatever older
   frames left in the slots beyond the payloads: every scan, and the correlation with any
   signal of the project. *)
PackedAgrees ==
    /\ answer.kind = "scan" =>
         /\ answer.scan = ScannedByIndex(ring, answer.allow, TagFrames(ring), ExcludedBytes(TagFrames(ring)))
         /\ answer.scan = Scanned(FramesToPacked(ring), answer.allow, answer.allow)
    /\ answer.kind = "correlation" =>
         answer.list = SignalCorrelation(ring, DecodeReferenceSeries(ring, answer.reference), {},
                                         ExcludedBytes(TagFrames(ring)))

\* A signal that is the byte of a slot.
IsByte(sig, slot) == /\ sig.order = "little" /\ sig.len = 8
                     /\ sig.id = slot[1] /\ sig.start = 8 * slot[2]

(* A frame that repeats the reference is found: where the same bytes travel under another
   id at the same times, they are among the candidates and correlate fully. *)
CopyIsFound ==
    answer.kind = "correlation" =>
      \A copy \in {x \in Copies[ring] : IsByte(answer.reference, x.of)} :
        \E c \in Range(answer.list) :
           c.id = copy.at[1] /\ c.byteIndex = copy.at[2] /\ c.width = 8 /\ c.score = One

\* What a project says of the bus, names aside.
Meaning(frames) ==
    [i \in DOMAIN frames |->
       [id |-> frames[i].id, ext |-> frames[i].ext, comment |-> frames[i].comment,
        signals |-> [k \in DOMAIN frames[i].signals |->
                       [frames[i].signals[k] EXCEPT !.name = Nothing]]]]

\* No two signals of a frame that carry a value table have one name with another.
TablesNamed ==
    \A i \in DOMAIN project : \A j, k \in DOMAIN project[i].signals :
      LET s == project[i].signals
      IN  j # k /\ s[j].labels # NoText => s[j].name # s[k].name

(* A project that goes through a DBC file means the same afterwards: bit ranges, byte
   order, sign, scaling, multiplexing, value tables and comments of every signal, as long
   as the names in the file tell the signals with tables apart. *)
DbcKeepsMeaning == [][ReloadDbc /\ TablesNamed => Meaning(project') = Meaning(project)]_vars
=============================================================================
