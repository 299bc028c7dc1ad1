------------------------------ MODULE HuntDesk ------------------------------
(***************************************************************************)
(* The Hunt panel (components/HuntPanel.svelte) but for its guided series: *)
(* the captures by hand, the questions put to the analysis worker, their   *)
(* answers, which the worker gives in the order asked, and the signals     *)
(* promoted from them. The guided series is WizardHost's subject; here it  *)
(* ends with the marks it confirmed. What an answer says is Hunt's; here   *)
(* an answer is known by its question.                                     *)
(***************************************************************************)
EXTENDS Cockpit

CONSTANTS
  MaxMarks, \* bound: event marks
  MaxAsked, \* bound: questions that wait for an answer when another is asked
  MaxTurns  \* bound: per desk, in a visit, captures that are started and questions

VARIABLE hunt \* what the panel keeps while it is shown

Questions == {"event", "trend", "2pt", "flag"}
TwoWindow(mode) == mode \in {"2pt", "flag"}

NoCapture == [step |-> "idle", from |-> Null, to |-> Null]
NoPair == [step |-> "idleA", from |-> Null, a |-> Null, b |-> Null]

\* shown: the question whose candidates are listed; scan, corr: those of the scan and of the
\* correlation on show. asked: the questions under way. last: history, the experiment asked
\* last. moot: history, what is shown or not though its question was discarded, or lost.
IdlePanel == [mode |-> "event", lead |-> Null, trend |-> NoCapture, pair |-> NoPair, marks |-> <<>>,
              ramp |-> [from |-> Null, to |-> Null], reference |-> Null,
              shown |-> Null, promoted |-> {}, scan |-> Null, corr |-> Null, corrPromoted |-> {},
              asked |-> <<>>, last |-> Null, moot |-> {}, turns |-> 0]

canRun == maxTUs > 0

\* A step of the panel alone.
AtHunt == Panel("hunt") /\ At({"captures", "scans"})
AtScans == At({"scans"})

Turns(panel) ==
    /\ AtHunt
    /\ hunt' = panel
    /\ UNCHANGED cockpitVars

Span(x, y) == [from |-> IF x < y THEN x ELSE y, to |-> IF x < y THEN y ELSE x]

-----------------------------------------------------------------------------
(* The question of an experiment: a window of the ring and the marks in it. The window of an
   event run looks back one batch; it is widened to the marks with as much before and after. *)

WindowSeconds == 1

EventWindow(marks) ==
    IF marks = {} THEN [from |-> maxTUs - WindowSeconds, to |-> maxTUs]
    ELSE LET first == CHOOSE m \in marks : \A n \in marks : m <= n
             final == CHOOSE m \in marks : \A n \in marks : n <= m
             widest == Span(maxTUs - WindowSeconds, first - 1)
         IN  [from |-> widest.from, to |-> Span(maxTUs, final + 1).to]

Experiment(h) ==
    LET marks == Range(h.marks)
        ramp == Span(IF h.ramp.from = Null THEN maxTUs - WindowSeconds ELSE h.ramp.from,
                     IF h.ramp.to = Null THEN maxTUs ELSE h.ramp.to)
    IN  IF h.mode = "event" THEN [kind |-> "event", window |-> EventWindow(marks), marks |-> marks]
        ELSE IF TwoWindow(h.mode) /\ h.pair.a # Null /\ h.pair.b # Null
        THEN [kind |-> h.mode, marks |-> {h.pair.a.from, h.pair.a.to, h.pair.b.from, h.pair.b.to},
              window |-> [from |-> Span(h.pair.a.from, h.pair.b.from).from,
                          to |-> Span(h.pair.a.to, h.pair.b.to).to]]
        ELSE [kind |-> "trend", window |-> ramp, marks |-> {ramp.from, ramp.to}]

About(question) == IF question.kind \in {"scanAll", "correlation"} THEN "corr" ELSE "shown"
Pending(h, about) == \E i \in DOMAIN h.asked : About(h.asked[i]) = about

Asks(h, question) == [h EXCEPT !.asked = Append(@, question), !.moot = @ \ {About(question)},
                               !.turns = @ + 1]
runAnalysis(h) == [Asks(h, Experiment(h)) EXCEPT !.last = Experiment(h)]
MayAsk == AtHunt /\ Len(hunt.asked) < MaxAsked /\ hunt.turns < MaxTurns[desk]

-----------------------------------------------------------------------------
(* Captures by hand. A lead-in counts down before each start, unless it is switched off. *)

Started(h, what) ==
    CASE what = "trend" -> [h EXCEPT !.trend = [step |-> "capturing", from |-> maxTUs, to |-> Null]]
      [] what = "A" -> [h EXCEPT !.pair.step = "capturingA", !.pair.from = maxTUs]
      [] what = "B" -> [h EXCEPT !.pair.step = "capturingB", !.pair.from = maxTUs]

\* The starts the panel offers.
Offered(h) ==
    CASE h.mode = "event" -> {}
      [] h.mode = "trend" -> IF h.trend.step = "idle" THEN {"trend"} ELSE {}
      [] OTHER -> IF h.pair.step = "idleA" THEN {"A"} ELSE IF h.pair.step = "idleB" THEN {"B"} ELSE {}

startWithWarmup(what, led) ==
    /\ At({"captures"}) /\ canRun /\ hunt.lead = Null /\ what \in Offered(hunt) /\ hunt.turns < MaxTurns[desk]
    /\ LET turned == [hunt EXCEPT !.turns = @ + 1]
       IN  Turns(IF led THEN [turned EXCEPT !.lead = what] ELSE Started(turned, what))

\* The lead-in is over. Only a change of the mode cancels it; without a frame nothing starts.
LeadInEnds ==
    LET over == [hunt EXCEPT !.lead = Null]
    IN  /\ hunt.lead # Null
        /\ Turns(IF canRun THEN Started(over, hunt.lead) ELSE over)

stopTrendCapture ==
    /\ hunt.mode = "trend" /\ hunt.trend.step = "capturing" /\ MayAsk
    /\ LET ended == [hunt EXCEPT !.trend.to = maxTUs, !.trend.step = "review",
                                 !.ramp = [from |-> hunt.trend.from, to |-> maxTUs]]
       IN  Turns(runAnalysis(ended))

keepTrend ==
    /\ hunt.mode = "trend" /\ hunt.trend.step = "review"
    /\ Turns([hunt EXCEPT !.trend = NoCapture])

\* The results are discarded; an answer still under way is shown all the same.
Discarded(h) == [h EXCEPT !.shown = Null, !.promoted = {}, !.last = Null,
                          !.moot = IF Pending(h, "shown") THEN @ \cup {"shown"} ELSE @]

redoTrend ==
    /\ hunt.mode = "trend" /\ hunt.trend.step = "review"
    /\ Turns(Discarded([hunt EXCEPT !.trend = NoCapture, !.ramp = [from |-> Null, to |-> Null]]))

stopCaptureA ==
    /\ TwoWindow(hunt.mode) /\ hunt.pair.step = "capturingA"
    /\ Turns([hunt EXCEPT !.pair = [@ EXCEPT !.step = "idleB", !.from = Null,
                                             !.a = Span(hunt.pair.from, maxTUs)]])

stopCaptureB ==
    /\ TwoWindow(hunt.mode) /\ hunt.pair.step = "capturingB" /\ MayAsk
    /\ LET ended == [hunt EXCEPT !.pair = [@ EXCEPT !.step = "review", !.from = Null,
                                                    !.b = Span(hunt.pair.from, maxTUs)]]
       IN  Turns(runAnalysis(ended))

keepCmp ==
    /\ TwoWindow(hunt.mode) /\ hunt.pair.step = "review"
    /\ Turns([hunt EXCEPT !.pair.step = "idleA"])

redoCmp ==
    /\ TwoWindow(hunt.mode) /\ hunt.pair.step = "review"
    /\ Turns(Discarded([hunt EXCEPT !.pair = NoPair]))

\* Another kind of experiment. The two windows are kept between 2-point and flag.
setHuntMode(mode) ==
    /\ At({"captures"}) /\ mode # hunt.mode
    /\ Turns([hunt EXCEPT !.mode = mode, !.lead = Null,
                          !.trend = IF mode = "trend" THEN @ ELSE NoCapture,
                          !.pair = IF TwoWindow(hunt.mode) /\ ~TwoWindow(mode) THEN NoPair ELSE @])

markEventNow ==
    /\ At({"captures"}) /\ hunt.mode = "event" /\ canRun /\ Len(hunt.marks) < MaxMarks
    /\ Turns([hunt EXCEPT !.marks = Append(@, maxTUs)])

clearEventMarks ==
    /\ hunt.mode = "event" /\ hunt.marks # <<>>
    /\ Turns([hunt EXCEPT !.marks = <<>>])

RunAnalysis ==
    /\ hunt.mode = "event" /\ canRun /\ MayAsk
    /\ Turns(runAnalysis(hunt))

\* A guided series is over, which began with frames to be seen: its marks take the place of
\* those there were, and the experiment of the mode that is set by then is asked.
finishGuided(marks) ==
    /\ At({"captures"}) /\ canRun /\ MayAsk
    /\ LET marked == [hunt EXCEPT !.marks = marks]
       IN  Turns(IF marks = <<>> THEN marked ELSE runAnalysis(marked))

-----------------------------------------------------------------------------
(* Scans, and the correlation with a signal that is known. *)

SignalsKnown == UNION {Project.frames[k].signals : k \in DOMAIN Project.frames}
Reference(h, id) == IF \E s \in SignalsKnown : s.id = id THEN id ELSE Null

\* Mutant: a scan correlates with the reference whose answer is on show.
ReferenceShown(h) == h.corr

corrReference(h) == Reference(h, h.reference)

runScan ==
    /\ AtScans /\ canRun /\ MayAsk
    /\ Turns(Asks(hunt, [kind |-> "scanAll", reference |-> corrReference(hunt)]))

\* Without a reference the correlation is cleared; an answer under way is shown all the same.
pickCorrReference(id) ==
    LET picked == [hunt EXCEPT !.reference = id]
    IN  /\ AtScans
        /\ IF Reference(hunt, id) = Null \/ ~canRun
           THEN Turns([picked EXCEPT !.corr = Null,
                                     !.moot = IF Pending(hunt, "corr") THEN @ \cup {"corr"} ELSE @])
           ELSE MayAsk /\ Turns(Asks(picked, [kind |-> "correlation", reference |-> id]))

-----------------------------------------------------------------------------
(* Answers. *)

Answered(h, question) ==
    CASE question.kind = "scanAll" ->
           [h EXCEPT !.scan = question, !.corr = question.reference, !.corrPromoted = {}]
      [] question.kind = "correlation" -> [h EXCEPT !.corr = question.reference, !.corrPromoted = {}]
      [] OTHER -> [h EXCEPT !.shown = question, !.promoted = {}]

TakesAnswer ==
    /\ hunt.asked # <<>>
    /\ Turns(Answered([hunt EXCEPT !.asked = Tail(@)], Head(hunt.asked)))

\* The worker raises: its error names no question, so nothing is answered.
AnswerIsLost ==
    /\ hunt.asked # <<>>
    /\ Turns([hunt EXCEPT !.asked = Tail(@), !.moot = @ \cup {About(Head(hunt.asked))}])

-----------------------------------------------------------------------------
(* Promotion: the signal is added to its frame, which is selected. *)

Promotes(k, panel) ==
    LET p == addSignal(Project, k, MakeSignal(FreshId, 0, FALSE))
        st == [stores EXCEPT !.project = p]
    IN  /\ AtHunt /\ AtScans
        /\ EditMoving(p, <<SetSelected(st, k)>>)
        /\ TableStays
        /\ hunt' = panel

promote(k) == hunt.shown # Null /\ Promotes(k, [hunt EXCEPT !.promoted = @ \cup {k}])
promoteSweep(k) == hunt.scan # Null /\ Promotes(k, hunt)
promoteCorr(k) == hunt.corr # Null /\ Promotes(k, [hunt EXCEPT !.corrPromoted = @ \cup {k}])

\* A row of the heatmap.
pickScanId(k) ==
    /\ AtHunt /\ hunt.scan # Null
    /\ Shows(<<SetSelected(stores, k)>>)
    /\ TableStays /\ UNCHANGED hunt

\* The panel is made anew with every visit.
PanelFollows == hunt' = IF stores'.mode = "hunt" /\ stores.mode = "hunt" THEN hunt ELSE IdlePanel
=============================================================================
