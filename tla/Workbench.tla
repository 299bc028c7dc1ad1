----------------------------- MODULE Workbench -----------------------------
(***************************************************************************)
(* The panels of Explore: what the operator edits there. Frames, signals   *)
(* and messages (Inspector, SignalEditor, DerivedSignalEditor,             *)
(* MessageList), formulas and filters (ComputeEditor, FilterBar), tabs     *)
(* (ViewTabs, ViewAssign), and the project that is loaded (ProjectBar).    *)
(***************************************************************************)
EXTENDS Cockpit

CONSTANT Bytes \* where a signal may be put

\* The panels beside the table, of the frame selected.
Inspected == Panel("explore") /\ Sel # Null

-----------------------------------------------------------------------------
(* Frames and their signals. *)

\* Inspector.setMode and onForcedByteChange: the byte is the multiplexor's, the detector's,
\* or typed.
setMode(mode, byte) ==
    /\ Inspected /\ At({"signals"})
    /\ Edit(setMessageIdMode(Project, Sel, mode, byte, FreshId))
    /\ TableStays

\* A name in the table, or the Inspector's.
commitName(k) ==
    /\ Panel("explore") /\ At({"tabs"}) /\ (k \in Range(TableRows) \/ k = Sel)
    /\ Edit(renameFrame(Project, k, TRUE))
    /\ TableStays

addNewSignal ==
    /\ Inspected /\ At({"signals", "links"})
    /\ EditMoving(addSignal(Project, Sel, MakeSignal(FreshId, 0, FALSE)),
                  <<[stores EXCEPT !.project = addSignal(Project, Sel, MakeSignal(FreshId, 0, FALSE)),
                                   !.signal = FreshId]>>)
    /\ TableStays

addNewDerived ==
    /\ Inspected /\ At({"signals"})
    /\ EditMoving(addDerivedSignal(Project, Sel, FreshId),
                  <<[stores EXCEPT !.project = addDerivedSignal(Project, Sel, FreshId),
                                   !.signal = FreshId]>>)
    /\ TableStays

\* The signal the editor shows.
Edited == {s \in IF Inspected /\ Defined(Project, Sel) THEN Project.frames[Sel].signals ELSE {} :
             s.id = stores.signal}

\* SignalEditor: its place and its message id; and its tick for the multiplexor.
commit(byte, under) ==
    /\ At({"signals"})
    /\ \E s \in Edited : Edit(updateSignal(Project, Sel, [s EXCEPT !.at = byte, !.under = under]))
    /\ TableStays

del ==
    /\ At({"signals", "links"})
    /\ \E s \in Edited : Edit(removeSignal(Project, Sel, s.id))
    /\ TableStays

toggleMux ==
    /\ At({"signals"})
    /\ \E s \in Edited : Edit(setMultiplexor(Project, Sel, IF s.isMultiplexor THEN Null ELSE s.id))
    /\ TableStays

\* DerivedSignalEditor.
remove ==
    /\ Inspected /\ At({"signals"}) /\ stores.signal \in Range(Project.derivedSignals[Sel])
    /\ LET p == removeDerivedSignal(Project, Sel, stores.signal)
       IN  EditMoving(p, <<[stores EXCEPT !.project = p, !.signal = Null]>>)
    /\ TableStays

\* MessageList: a message is named, or put in a tab. The rows may still be those of the frame
\* selected before; what is done is done to the one selected now.
commitEdit(mux, named) ==
    /\ Inspected /\ At({"signals"}) /\ messages.rows.sel # Null
    /\ Edit(setMessageName(Project, Message(Sel, mux), named))
    /\ TableStays

assignTo(v, mux) ==
    /\ Inspected /\ At({"tabs"}) /\ messages.rows.sel # Null
    /\ v \in DOMAIN Project.views /\ ~Project.views[v].locked
    /\ Edit(setFramesInView(Project, v, {Message(Sel, mux)}, TRUE))
    /\ TableStays

-----------------------------------------------------------------------------
(* Editors that keep their own text. *)

Written(p, which, text) ==
    IF which = "custom" THEN setFrameFormula(p, Sel, text)
    ELSE IF which = "tab" THEN setViewFormula(p, stores.activeView, text)
    ELSE mutateFilter(p, stores.activeView, text, p.views[stores.activeView].filter.needle)

\* What is typed is written through to the target; a FilterBar writes every criterion it
\* shows. A tick of which = "filter" with nothing to hide is also its reset.
Types(which, text) ==
    /\ Panel("explore") /\ At(IF which = "custom" THEN {"signals"} ELSE {"tabs"})
    /\ Target(stores, which) # Null /\ text # editor[which].text
    /\ Spends
    /\ stores' = [stores EXCEPT !.project = Written(Project, which, text)]
    /\ bridge' = Posted(bridge, stores, <<stores'>>)
    /\ editor' = [editor EXCEPT ![which].text = text]
    /\ excused' = excused \ {which}
    /\ TableStays
    /\ UNCHANGED <<messages, parserVars, desk, hash, pasted>>

\* The name a tab asks for is read from the project and written to it.
AsksName(needle) ==
    /\ Panel("explore") /\ At({"tabs"})
    /\ LET filter == Project.views[stores.activeView].filter
       IN  Edit(mutateFilter(Project, stores.activeView, filter.hides, needle))
    /\ TableStays

-----------------------------------------------------------------------------
(* Tabs. *)

\* Frames are dragged from the table to a tab: into it, or with the canonical tab out of the
\* tab that is open. (A row dragged that is not selected is selected first, as by a click.)
onDrop(v) ==
    /\ Panel("explore") /\ At({"tabs"}) /\ v \in DOMAIN Project.views
    /\ selection \cap Range(TableRows) # {}
    /\ LET keys == {Whole(k) : k \in selection}
       IN  Edit(IF Project.views[v].locked THEN setFramesInView(Project, stores.activeView, keys, FALSE)
                ELSE setFramesInView(Project, v, keys, TRUE))
    /\ TableStays

\* A message is dragged, which selects it, to a tab.
onDropMessage(v, mux) ==
    LET key == {Message(Sel, mux)}
        p == IF Project.views[v].locked THEN setFramesInView(Project, stores.activeView, key, FALSE)
             ELSE setFramesInView(Project, v, key, TRUE)
    IN  /\ Inspected /\ At({"tabs"}) /\ messages.rows.sel # Null
        /\ EditMoving(p, <<[SetMux(stores, mux) EXCEPT !.project = p]>>)
        /\ TableStays

\* A new tab is opened: empty, with the frames dragged to the plus, or with those selected.
Marked == selection \cup ({Sel} \ {Null})

Opens(keys) ==
    LET p == createView(Project, FreshId, {Whole(k) : k \in keys})
    IN  /\ Panel("explore") /\ At({"tabs"})
        /\ Spends
        /\ Handler(<<[stores EXCEPT !.project = p], [stores EXCEPT !.project = p, !.activeView = FreshId]>>)
        /\ TableStays
        /\ UNCHANGED <<messages, parserVars, desk, hash, pasted>>

addTab == Opens({})
onDropAdd == selection \cap Range(TableRows) # {} /\ Opens(selection)
newTabFromSelection == Sel # Null /\ Opens(Marked)

\* A tab is opened.
setActiveView(v) ==
    /\ Panel("explore") /\ At({"tabs"}) /\ v \in DOMAIN Project.views
    /\ Handler(<<[stores EXCEPT !.activeView = v]>>)
    /\ TableStays
    /\ UNCHANGED <<messages, parserVars, desk, used, hash, pasted>>

\* A tab is deleted; from the one that is open, to the canonical one.
onDelete(v) ==
    LET p == deleteView(Project, v)
        left == IF stores.activeView = v THEN Canonical(p) ELSE stores.activeView
    IN  /\ Panel("explore") /\ At({"tabs"}) /\ v \in DOMAIN Project.views
        /\ Spends
        /\ Handler(<<[stores EXCEPT !.project = p, !.activeView = left]>>)
        /\ TableStays
        /\ UNCHANGED <<messages, parserVars, desk, hash, pasted>>

\* Show all and hide all.
ShowAll ==
    /\ Panel("explore") /\ At({"tabs"})
    /\ Edit(tagAllVisible(Project, stores.activeView, frameRows))
    /\ TableStays

HideAll ==
    /\ Panel("explore") /\ At({"tabs"})
    /\ Edit(clearViewMembers(Project, stores.activeView))
    /\ TableStays

\* ViewAssign: the frames selected go in, or out if all are in. A frame that is in by one of
\* its messages counts as in, and stays when the frames are taken out.
toggleIn(v) ==
    /\ Inspected /\ At({"tabs"})
    /\ v \in DOMAIN Project.views /\ ~Project.views[v].locked
    /\ LET in == Marked \subseteq FramesOf(Project.views[v])
       IN  Edit(setFramesInView(Project, v, {Whole(k) : k \in Marked}, ~in))
    /\ TableStays

-----------------------------------------------------------------------------
(* ProjectBar: another project. The tiles have not followed yet when the watch is posted,
   and an editor whose target has the same name keeps its text. *)
Load(file) ==
    LET st == Loaded(stores, file)
    IN  /\ At({"signals", "tabs", "painting", "review", "library"})
        /\ Spends
        /\ Settles(<<[stores EXCEPT !.project = st.project], st>>)
        /\ excused' = (excused \ Fresh(st))
                       \cup {w \in Editors \ Fresh(st) : editor[w].text # Kept(st, w)}
                       \cup (IF Panel("cluster") THEN {"watch"} ELSE {})
        /\ TableStays
        /\ UNCHANGED <<messages, parserVars, desk, hash, pasted>>
=============================================================================
