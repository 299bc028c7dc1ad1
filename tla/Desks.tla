------------------------------- MODULE Desks -------------------------------
(***************************************************************************)
(* The cockpit's page with all its panels, and what it promises the        *)
(* operator who moves between them.                                        *)
(***************************************************************************)
EXTENDS Workbench, HuntDesk, FieldDesk

vars == <<cockpitVars, chosen, field, astray, hunt>>

Rowed == 1 .. Cardinality(Keys)
Named == BOOLEAN

ConnectionStep ==
    \/ connect \/ emitSnapshot \/ ShowsSnapshot \/ Ticks \/ TakesReply
    \/ Ingests(Keys)
    \/ \E file \in Loads : Load(file)
    \/ \E file \in Loads \cup {Null} : Reload(file)

MovingStep ==
    \/ \E mode \in Modes : SetMode(mode)
    \/ \E sub \in Subs : PickSub(sub)
    \/ \E i \in Rowed, how \in {"plain", "ctrl", "shift"} : onRowClick(i, how)
    \/ selectAll \/ snapshotSort \/ clearSort
    \/ \E k \in Keys : selectOne(k)
    \/ \E mux \in Muxes \cup {Null} : selectMessage(mux) \/ selectSignal(mux)
    \/ \E card \in clusterCards(Project) : inspect(card)
    \/ \E seconds \in Windows : setWindow(seconds)
    \/ \E link \in Pasted : onHashChange(link)

FrameStep ==
    \/ \E mode \in {"auto", "forced", "none"}, byte \in Bytes : setMode(mode, byte)
    \/ \E k \in Keys : commitName(k)
    \/ addNewSignal \/ addNewDerived \/ del \/ toggleMux \/ remove
    \/ \E byte \in Bytes, under \in Muxes \cup {Null} : commit(byte, under)
    \/ \E mux \in Muxes \cup {Null}, named \in Named : commitEdit(mux, named)
    \/ \E text \in Texts \cup {Null} : Types("custom", text) \/ Types("tab", text)
    \/ \E hides \in {{}} \cup {{k} : k \in Keys} : Types("filter", hides)
    \/ \E needle \in BOOLEAN : AsksName(needle)

TabStep ==
    \/ addTab \/ onDropAdd \/ newTabFromSelection \/ ShowAll \/ HideAll
    \/ \E v \in DOMAIN Project.views : onDrop(v) \/ setActiveView(v) \/ onDelete(v) \/ toggleIn(v)
    \/ \E v \in DOMAIN Project.views, mux \in Muxes \cup {Null} : assignTo(v, mux) \/ onDropMessage(v, mux)

ScenarioStep ==
    \/ newScenario
    \/ \E i \in DOMAIN scenarios :
         \/ deleteScenario(scenarios[i].id) \/ TickScenario(scenarios[i].id)
         \/ ChooseScenario(scenarios[i].id)
         \/ \E j \in DOMAIN scenarios : reorderScenario(i, j)
    \/ \E kind \in StepKinds : addStep(kind)
    \/ \E i \in 1 .. MaxEdits[desk] : delStep(i) \/ toggleAdvance(i)
    \/ \E i, j \in 1 .. MaxEdits[desk] : moveStep(i, j)

ShelfStep ==
    \/ \E i \in DOMAIN findings :
         \/ toggleStatus(findings[i].id) \/ toggleExclude(findings[i].id)
         \/ deleteFinding(findings[i].id) \/ toSignal(findings[i].id)
    \/ newFieldRun
    \/ \E i \in DOMAIN fieldRuns :
         \/ deleteFieldRun(fieldRuns[i].id) \/ ChooseFieldRun(fieldRuns[i].id)
         \/ \E j \in DOMAIN fieldRuns : reorderFieldRun(i, j)

FieldStep ==
    \/ addLabel \/ beginRecording \/ stopRun \/ setLinkMode \/ delSpan \/ TakesResult
    \/ \E led \in BOOLEAN : startRun(led)
    \/ \E r \in Open : \/ \E label \in r.labels : delLabel(label) \/ onLabelTap(label)
                       \/ \E s \in r.spans : pickSpan(s.id)
    \/ \E type \in SpanTypes : setSpanType(type)
    \/ \E raises \in BOOLEAN : analyze(raises)
    \/ \E k \in Keys : promoteField(k)

HuntStep ==
    \/ LeadInEnds \/ stopTrendCapture \/ keepTrend \/ redoTrend
    \/ stopCaptureA \/ stopCaptureB \/ keepCmp \/ redoCmp
    \/ \E what \in {"trend", "A", "B"}, led \in BOOLEAN : startWithWarmup(what, led)
    \/ \E mode \in Questions : setHuntMode(mode)
    \/ markEventNow \/ clearEventMarks \/ RunAnalysis
    \/ \E marks \in {<<>>, <<maxTUs>>} : finishGuided(marks)
    \/ runScan \/ TakesAnswer \/ AnswerIsLost
    \/ \E id \in {s.id : s \in SignalsKnown} \cup {Null} : pickCorrReference(id)

PromotingStep == \E k \in Keys : promote(k) \/ promoteSweep(k) \/ promoteCorr(k) \/ pickScanId(k)

Init == /\ CockpitInit
        /\ chosen = NoneChosen /\ field = IdleRun /\ astray = {} /\ hunt = IdlePanel

Next ==
    \/ /\ ConnectionStep \/ MovingStep \/ FrameStep \/ TabStep
       /\ UNCHANGED <<chosen, astray>> /\ PanelFollows /\ FieldFollows
    \/ /\ ScenarioStep \/ ShelfStep
       /\ UNCHANGED astray /\ PanelFollows /\ FieldFollows
    \/ FieldStep /\ UNCHANGED hunt
    \/ HuntStep /\ UNCHANGED <<chosen, field, astray>>
    \/ PromotingStep /\ UNCHANGED <<chosen, astray>> /\ FieldFollows

Spec == Init /\ [][Next]_vars

-----------------------------------------------------------------------------
(* What is promised. *)

\* The workers and the panels know what the stores hold (state/store.ts:458-485, 1280-1296,
\* ComputeEditor.svelte:58-78): the analysis worker works on the frame selected, with its
\* definition and window, and watches the tiles shown; the rows are those of that frame as
\* soon as no reply is under way; an editor shows the text of its own target. Excused are the
\* watch after a project is loaded in Cluster or the first connect there, and an editor after
\* a project is loaded under its target.
InStep ==
    /\ bridge.started =>
         /\ Selecting(stores) = [sel |-> bridge.sel.sel, def |-> bridge.sel.def, window |-> bridge.sel.window]
         /\ "watch" \notin excused =>
              bridge.watch = IF Panel("cluster") THEN clusterCards(Project) ELSE {}
         /\ bridge.replies = <<>> => messages.rows = Selecting(stores)
    /\ \A w \in Editors :
         Panel("explore") /\ w \notin excused =>
           editor[w] = [for |-> Target(stores, w), text |-> Kept(stores, w)]

\* The project keeps its shape through every edit (state/store.ts:638-722, 757-870): a frame
\* has one multiplexor at most, the canonical tab is there once and has no members, and the
\* tab that is open exists.
ProjectSound ==
    /\ OneMultiplexor(Project)
    /\ OneCanonical(Project)
    /\ stores.activeView \in DOMAIN Project.views

\* The link the cockpit writes leads back (state/urlState.ts:50-122): a page that starts with
\* it shows the mode, the sub-tab, and in Explore the frame, message and signal shown now.
LinkRestores ==
    ~pasted =>
      LET st == applyHash(FreshStores, hash)
      IN  /\ st.mode = stores.mode
          /\ Panel("logbook") => st.sub = stores.sub
          /\ Panel("explore") => /\ st.selected = Sel
                                 /\ st.mux = stores.mux /\ st.signal = stores.signal

\* An experiment is asked about a window that holds its marks; and once nothing is under way,
\* the candidates listed answer the experiment asked last, and the correlation is with the
\* signal picked (HuntPanel.svelte:463-512, 580-681). Excused is what the operator discarded
\* while it was under way, and what the worker failed to answer.
AnswersSettle ==
    /\ hunt.last # Null =>
         \A m \in hunt.last.marks : hunt.last.window.from <= m /\ m <= hunt.last.window.to
    /\ ~Pending(hunt, "shown") /\ "shown" \notin hunt.moot => hunt.shown = hunt.last
    /\ ~Pending(hunt, "corr") /\ "corr" \notin hunt.moot => hunt.corr \in {Null, hunt.reference}
    /\ hunt.shown = Null => hunt.promoted = {}

\* The spans of a field run are painted with labels of that run, in the order of time, and
\* overlap by the microsecond at most that a span lasts at least (MarkhuntPanel.svelte:73-80,
\* 129-168); but for recordings during which another run, project or session was taken up.
SpansFitLabels == \A r \in Range(fieldRuns) : SpansFollow(r, astray)
=============================================================================
