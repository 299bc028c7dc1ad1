----------------------------- MODULE DesksProofs -----------------------------
(***************************************************************************)
(* Proofs about Desks, the cockpit's page: the link it writes leads back,  *)
(* the answers the Hunt panel shows settle, the project keeps its shape,   *)
(* the workers and the editors are in step with the stores, and the spans  *)
(* of a field run fit its labels, for any frames, projects, pasted links   *)
(* and delays of the workers.                                              *)
(*                                                                         *)
(* What a step does is classified once, per subject: to the link (Stays,   *)
(* Relinks, Pastes), and with it what it leaves of the parser; to the      *)
(* project, an edit (Replaces) or none (Rests); to the workers and the     *)
(* editors, a handler that keeps what they are about (Followed) or nothing *)
(* (Idle); to the field runs, none (RunsStay) or a change of the list      *)
(* (RunsEdited).  An invariant then needs only the classes and the few     *)
(* steps that are of none.  Each edit is a lemma of its own about          *)
(* projects, whatever the page.                                            *)
(***************************************************************************)
EXTENDS Desks, WellFoundedInduction, SequenceTheorems, TLAPS

-----------------------------------------------------------------------------
(* What a step does to the link and to what it says, and to the parser.      *)

\* The stores are a record of these fields; without a frame there is neither message nor
\* signal.
Shown(st) ==
  /\ st \in [project : {st.project}, activeView : {st.activeView}, selected : {st.selected},
             mux : {st.mux}, signal : {st.signal}, mode : {st.mode}, sub : {st.sub},
             window : {st.window}]
  /\ st.selected = Null => st.mux = Null /\ st.signal = Null
  /\ st.sub \in Subs

\* A link nobody pasted is the one the stores would write.
LinkInv ==
  /\ Shown(stores)
  /\ hash.sub \in Subs \cup {Null}
  /\ ~pasted => hash = buildHash(stores)

\* What the link says stays.
Alike(st) ==
  /\ st.selected = stores.selected /\ st.mux = stores.mux /\ st.signal = stores.signal
  /\ st.mode = stores.mode /\ st.sub = stores.sub

Stays == hash' = hash /\ pasted' = pasted /\ Shown(stores') /\ Alike(stores')
Relinks == hash' = buildHash(stores') /\ pasted' = FALSE /\ Shown(stores')
Pastes == hash' \in Pasted /\ pasted' = TRUE /\ Shown(stores')
Quiet == UNCHANGED parserVars
LinkStep == (Stays \/ Relinks \/ Pastes) /\ Quiet

\* A link that is written says what the stores say.
LEMMA LinkKeeps == LinkInv /\ (Stays \/ Relinks \/ Pastes) => LinkInv'
<1> SUFFICES ASSUME LinkInv, Stays \/ Relinks \/ Pastes PROVE LinkInv'
  OBVIOUS
<1>1. CASE Stays
  <2>1. buildHash(stores') = buildHash(stores)
    BY <1>1 DEF Stays, Alike, buildHash
  <2> QED BY <1>1, <2>1 DEF Stays, LinkInv
<1>2. CASE Relinks
  <2>1. buildHash(stores').sub \in Subs \cup {Null}
    BY <1>2 DEF Relinks, Shown, buildHash
  <2> QED BY <1>2, <2>1 DEF Relinks, LinkInv
<1>3. CASE Pastes
  BY <1>3, CockpitConstants DEF Pastes, LinkInv
<1> QED BY <1>1, <1>2, <1>3

-----------------------------------------------------------------------------
(* Values the stores are given.                                            *)

\* A project is set.
LEMMA ShownProject ==
  ASSUME NEW st, Shown(st), NEW p
  PROVE  LET s == [st EXCEPT !.project = p]
         IN  Shown(s) /\ s.selected = st.selected /\ s.mux = st.mux /\ s.signal = st.signal
             /\ s.mode = st.mode /\ s.sub = st.sub /\ s.project = p
             /\ s.activeView = st.activeView /\ s.window = st.window
BY DEF Shown

\* A frame is selected.
LEMMA ShownSelected ==
  ASSUME NEW st, Shown(st), NEW k
  PROVE  LET s == SetSelected(st, k)
         IN  Shown(s) /\ s.selected = k /\ s.signal = Null /\ s.mode = st.mode /\ s.sub = st.sub
             /\ s.mux = (IF k = st.selected THEN st.mux ELSE Null) /\ s.project = st.project
             /\ s.activeView = st.activeView /\ s.window = st.window
BY DEF Shown, SetSelected

\* A message is selected, of a frame.
LEMMA ShownMux ==
  ASSUME NEW st, Shown(st), NEW mux, st.selected # Null \/ mux = Null
  PROVE  LET s == SetMux(st, mux)
         IN  Shown(s) /\ s.selected = st.selected /\ s.mux = mux /\ s.mode = st.mode
             /\ s.sub = st.sub /\ s.signal = (IF mux = st.mux THEN st.signal ELSE Null)
             /\ s.project = st.project /\ s.activeView = st.activeView /\ s.window = st.window
BY DEF Shown, SetMux

\* A signal is selected, of a frame, or none.
LEMMA ShownSignal ==
  ASSUME NEW st, Shown(st), NEW id, st.selected # Null \/ id = Null
  PROVE  Shown([st EXCEPT !.signal = id])
BY DEF Shown

\* The mode or the sub-tab changes.
LEMMA ShownMode == ASSUME NEW st, Shown(st), NEW mode PROVE Shown([st EXCEPT !.mode = mode])
BY DEF Shown

\* The logbook's sub-tab is one of its three.
LEMMA ShownSub == ASSUME NEW st, Shown(st), NEW sub \in Subs PROVE Shown([st EXCEPT !.sub = sub])
BY DEF Shown

\* A row of the table is clicked.
LEMMA ShownPrimary ==
  ASSUME NEW st, Shown(st), NEW k PROVE Shown(setPrimary(st, k))
BY ShownSelected, ShownMux DEF setPrimary

\* A link is applied.
LEMMA ShownLink ==
  ASSUME NEW st, Shown(st), NEW link, link.sub \in Subs \cup {Null}
  PROVE  Shown(applyHash(st, link))
<1> DEFINE moved == [st EXCEPT !.mode = link.mode]
           framed == SetSelected(moved, link.frame)
           muxed == Part(framed, link.mux, SetMux)
<1>1. Shown(moved)
  BY ShownMode
<1>2. CASE link.mode = "logbook"
  <2>1. applyHash(st, link) = IF link.sub = Null THEN moved ELSE [moved EXCEPT !.sub = link.sub]
    BY <1>2 DEF applyHash, Part, SetSub
  <2> HIDE DEF moved
  <2> QED BY <1>1, <2>1, ShownSub
<1>3. CASE link.mode = "explore" /\ link.frame # Null
  <2>1. Shown(framed) /\ framed.selected # Null
    <3> HIDE DEF moved
    <3> QED BY <1>1, <1>3, ShownSelected
  <2>2. Shown(muxed) /\ muxed.selected # Null
    <3> HIDE DEF framed
    <3>1. Shown(SetMux(framed, link.mux)) /\ SetMux(framed, link.mux).selected = framed.selected
      BY <2>1, ShownMux
    <3> QED BY <2>1, <3>1 DEF Part
  <2>3. applyHash(st, link) = IF link.signal = Null THEN muxed ELSE [muxed EXCEPT !.signal = link.signal]
    BY <1>3 DEF applyHash, Part, FrameParts, SetSignal
  <2> HIDE DEF muxed
  <2> QED BY <2>2, <2>3, ShownSignal
<1>4. CASE link.mode # "logbook" /\ ~(link.mode = "explore" /\ link.frame # Null)
  BY <1>1, <1>4 DEF applyHash
<1> QED BY <1>2, <1>3, <1>4

\* Another project is loaded.
LEMMA ShownLoaded == ASSUME NEW st, Shown(st), NEW file
  PROVE LET s == Loaded(st, file)
        IN  Shown(s) /\ s.selected = st.selected /\ s.mux = st.mux /\ s.signal = st.signal
            /\ s.mode = st.mode /\ s.sub = st.sub
<1> DEFINE p == ensureViews(file)
           v == Canonical(p)
<1>1. Loaded(st, file) = [st EXCEPT !.project = p, !.activeView = v]
  BY DEF Loaded
<1> HIDE DEF p, v
<1> QED BY <1>1 DEF Shown

\* The stores of a page that has just opened are such a record.
LEMMA ShownFresh == Shown(FreshStores)
BY DEF Shown, FreshStores, Subs

-----------------------------------------------------------------------------
(* What each action does to the link.                                      *)

\* The last of the values a handler gives the stores.
LEMMA Finally ==
  ASSUME NEW a, NEW b
  PROVE  Last(<<a>>) = a /\ Last(<<a, b>>) = b /\ Last(<<a>> \o <<b>>) = b
BY DEF Last

\* The same for a handler that gives three.
LEMMA FinallyThird == ASSUME NEW a, NEW b, NEW c PROVE Last(<<a>> \o <<b, c>>) = c
BY DEF Last

\* An edit keeps the link.
LEMMA EditStays == ASSUME LinkInv, NEW p, Edit(p) PROVE Stays /\ Quiet
<1> DEFINE st == [stores EXCEPT !.project = p]
<1>1. Shown(stores)
  BY DEF LinkInv
<1>2. stores' = st /\ hash' = hash /\ pasted' = pasted /\ Quiet
  BY Finally DEF Edit, Rewrites, Handler, Settles, Quiet
<1>3. Shown(st) /\ Alike(st)
  BY <1>1, ShownProject DEF Alike
<1> HIDE DEF st
<1> QED BY <1>2, <1>3 DEF Stays, Alike

\* A move writes it.
LEMMA MoveRelinks ==
  ASSUME LinkInv, NEW values, Moves(values), Shown(Last(values)) PROVE Relinks /\ Quiet
BY DEF Moves, Handler, Settles, Relinks, Quiet

\* So does an edit that moves.
LEMMA EditMoveRelinks ==
  ASSUME LinkInv, NEW p, NEW values, EditMoving(p, values),
         Shown(Last(<<[stores EXCEPT !.project = p]>> \o values))
  PROVE  Relinks /\ Quiet
BY MoveRelinks DEF EditMoving

\* The connection, the parser and the tick touch neither the link nor the stores.
LEMMA ConnectionLinks ==
  ASSUME LinkInv,
         connect \/ emitSnapshot \/ ShowsSnapshot \/ Ticks \/ TakesReply \/ Ingests(Keys)
  PROVE  Stays
<1>1. hash' = hash /\ pasted' = pasted /\ stores' = stores
  BY DEF connect, emitSnapshot, ShowsSnapshot, Ticks, TakesReply, Ingests, pageVars
<1> QED BY <1>1 DEF Stays, Alike, LinkInv

\* Loading a file replaces the project and leaves the link as it was.
LEMMA LoadLinks == ASSUME LinkInv, NEW file, Load(file) PROVE Stays /\ Quiet
<1> DEFINE st == Loaded(stores, file)
           first == [stores EXCEPT !.project = st.project]
<1>1. Shown(stores)
  BY DEF LinkInv
<1>2. Shown(st) /\ Alike(st)
  BY <1>1, ShownLoaded DEF Alike
<1>3. stores' = Last(<<first, st>>) /\ hash' = hash /\ pasted' = pasted /\ Quiet
  BY DEF Load, Settles, Quiet
<1> HIDE DEF st, first
<1>4. stores' = st
  BY <1>3, Finally
<1> QED BY <1>2, <1>3, <1>4 DEF Stays, Alike

\* A page that reloads applies its link and writes it again.
LEMMA ReloadLinks == ASSUME LinkInv, NEW file, Reload(file) PROVE Relinks
<1> DEFINE booted == IF file = Null THEN FreshStores ELSE Loaded(FreshStores, file)
<1>1. Shown(booted)
  BY ShownFresh, ShownLoaded
<1>2. stores' = applyHash(booted, hash) /\ hash' = buildHash(stores') /\ pasted' = FALSE
  BY DEF Reload, Starts
<1> HIDE DEF booted
<1>3. Shown(applyHash(booted, hash))
  BY <1>1, ShownLink DEF LinkInv
<1> QED BY <1>2, <1>3 DEF Relinks

\* Going about the page: selecting, switching mode and tab, pasting a link.
LEMMA MovingLinks == ASSUME LinkInv, MovingStep PROVE LinkStep
<1> USE DEF LinkStep
<1>0. Shown(stores)
  BY DEF LinkInv
<1>1. ASSUME NEW mode \in Modes, SetMode(mode) PROVE LinkStep
  <2> DEFINE v == [stores EXCEPT !.mode = mode]
  <2>1. Moves(<<v>>) /\ Shown(v)
    BY <1>0, <1>1, ShownMode DEF SetMode, Shows
  <2> HIDE DEF v
  <2> QED BY <2>1, Finally, MoveRelinks
<1>2. ASSUME NEW sub \in Subs, PickSub(sub) PROVE LinkStep
  <2> DEFINE v == [stores EXCEPT !.sub = sub]
  <2>1. Moves(<<v>>) /\ Shown(v)
    BY <1>0, <1>2, ShownSub DEF PickSub, Shows
  <2> HIDE DEF v
  <2> QED BY <2>1, Finally, MoveRelinks
<1>3. ASSUME NEW i \in Rowed, NEW how \in {"plain", "ctrl", "shift"}, onRowClick(i, how)
      PROVE  LinkStep
  <2> DEFINE k == TableRows[i]
  <2>1. Moves(<<SetSelected(stores, k), setPrimary(stores, k)>>)
    BY <1>3 DEF onRowClick, Shows
  <2> DEFINE u == SetSelected(stores, k)
             v == setPrimary(stores, k)
  <2>2. Moves(<<u, v>>) /\ Shown(v)
    BY <1>0, <2>1, ShownPrimary
  <2> HIDE DEF u, v
  <2> QED BY <2>2, Finally, MoveRelinks
<1>4. CASE selectAll
  <2>1. Moves(<<SetSelected(stores, TableRows[1]), setPrimary(stores, TableRows[1])>>)
    BY <1>4 DEF selectAll, Shows
  <2> DEFINE u == SetSelected(stores, TableRows[1])
             v == setPrimary(stores, TableRows[1])
  <2>2. Moves(<<u, v>>) /\ Shown(v)
    BY <1>0, <2>1, ShownPrimary
  <2> HIDE DEF u, v
  <2> QED BY <2>2, Finally, MoveRelinks
<1>5. CASE snapshotSort \/ clearSort
  BY <1>0, <1>5 DEF snapshotSort, clearSort, Stays, Alike, Quiet
<1>6. ASSUME NEW k \in Keys, selectOne(k) PROVE LinkStep
  <2>1. Moves(<<SetSelected(stores, k)>>)
    BY <1>6 DEF selectOne, Shows
  <2> DEFINE v == SetSelected(stores, k)
  <2>2. Moves(<<v>>) /\ Shown(v)
    BY <1>0, <2>1, ShownSelected
  <2> HIDE DEF v
  <2> QED BY <2>2, Finally, MoveRelinks
<1>7. ASSUME NEW mux, selectMessage(mux) PROVE LinkStep
  <2>1. Moves(<<SetMux(stores, mux)>>) /\ stores.selected # Null
    BY <1>7 DEF selectMessage, Shows, Sel
  <2> DEFINE v == SetMux(stores, mux)
  <2>2. Moves(<<v>>) /\ Shown(v)
    BY <1>0, <2>1, ShownMux
  <2> HIDE DEF v
  <2> QED BY <2>2, Finally, MoveRelinks
<1>8. ASSUME NEW mux, selectSignal(mux) PROVE LinkStep
  <2>1. PICK id : Moves(<<[stores EXCEPT !.signal = id]>>)
    BY <1>8 DEF selectSignal, Shows, SetSignal
  <2>2. stores.selected # Null
    BY <1>8 DEF selectSignal, Sel
  <2> DEFINE v == [stores EXCEPT !.signal = id]
  <2>3. Moves(<<v>>) /\ Shown(v)
    BY <1>0, <2>1, <2>2, ShownSignal
  <2> HIDE DEF v
  <2> QED BY <2>3, Finally, MoveRelinks
<1>9. ASSUME NEW card, inspect(card) PROVE LinkStep
  <2> DEFINE st == SetSelected(stores, card.frame)
             v == [st EXCEPT !.mode = "explore"]
  <2>1. Moves(<<st, v>>)
    BY <1>9 DEF inspect, Shows
  <2>2. Shown(st)
    BY <1>0, ShownSelected
  <2> HIDE DEF st
  <2>3. Shown(v)
    BY <2>2, ShownMode
  <2> HIDE DEF v
  <2> QED BY <2>1, <2>3, Finally, MoveRelinks
<1>10. ASSUME NEW seconds, setWindow(seconds) PROVE LinkStep
  <2> DEFINE st == [stores EXCEPT !.window = seconds]
  <2>1. stores' = st /\ hash' = hash /\ pasted' = pasted /\ Quiet
    BY <1>10, Finally DEF setWindow, Handler, Settles, Quiet
  <2>2. Shown(st) /\ Alike(st)
    BY <1>0 DEF Shown, Alike
  <2> HIDE DEF st
  <2> QED BY <2>1, <2>2 DEF Stays, Alike
<1>11. ASSUME NEW link \in Pasted, onHashChange(link) PROVE LinkStep
  <2>1. stores' = applyHash(stores, link) /\ hash' = link /\ pasted' = TRUE /\ Quiet
    BY <1>11, Finally DEF onHashChange, Handler, Settles, Quiet
  <2> QED BY <1>0, <1>11, <2>1, ShownLink, CockpitConstants DEF Pastes
<1> QED BY <1>1, <1>2, <1>3, <1>4, <1>5, <1>6, <1>7, <1>8, <1>9, <1>10, <1>11 DEF MovingStep

\* Editing a frame, its messages and its signals.
LEMMA FrameLinks == ASSUME LinkInv, FrameStep PROVE LinkStep
<1> USE DEF LinkStep
<1>0. Shown(stores)
  BY DEF LinkInv
<1>1. ASSUME NEW mode, NEW byte, setMode(mode, byte) PROVE LinkStep
  BY <1>1, EditStays DEF setMode
<1>2. ASSUME NEW k, commitName(k) PROVE LinkStep
  BY <1>2, EditStays DEF commitName
<1>3. ASSUME NEW p, Sel # Null,
             EditMoving(p, <<[stores EXCEPT !.project = p, !.signal = FreshId]>>)
      PROVE  LinkStep
  <2> DEFINE v == [stores EXCEPT !.project = p, !.signal = FreshId]
             u == [stores EXCEPT !.project = p]
  <2>1. Shown(v)
    BY <1>0, <1>3 DEF Shown, Sel
  <2>2. Last(<<u>> \o <<v>>) = v
    BY Finally
  <2>3. EditMoving(p, <<v>>)
    BY <1>3
  <2>4. Shown(Last(<<[stores EXCEPT !.project = p]>> \o <<v>>))
    BY <2>1, <2>2
  <2> HIDE DEF u, v
  <2> QED BY <2>3, <2>4, EditMoveRelinks
<1>4. CASE addNewSignal \/ addNewDerived
  BY <1>3, <1>4 DEF addNewSignal, addNewDerived, Inspected
<1>5. CASE del \/ toggleMux
  BY <1>5, EditStays DEF del, toggleMux
<1>6. CASE remove
  <2> DEFINE p == removeDerivedSignal(Project, Sel, stores.signal)
  <2>1. EditMoving(p, <<[stores EXCEPT !.project = p, !.signal = Null]>>)
    BY <1>6 DEF remove
  <2> HIDE DEF p
  <2> DEFINE v == [stores EXCEPT !.project = p, !.signal = Null]
             u == [stores EXCEPT !.project = p]
  <2>2. Shown(v)
    BY <1>0 DEF Shown
  <2>3. Last(<<u>> \o <<v>>) = v
    BY Finally
  <2>4. Shown(Last(<<[stores EXCEPT !.project = p]>> \o <<v>>))
    BY <2>2, <2>3
  <2> HIDE DEF u, v
  <2>5. EditMoving(p, <<v>>)
    BY <2>1 DEF v
  <2> QED BY <2>4, <2>5, EditMoveRelinks
<1>7. ASSUME NEW byte, NEW under, commit(byte, under) PROVE LinkStep
  BY <1>7, EditStays DEF commit
<1>8. ASSUME NEW mux, NEW named, commitEdit(mux, named) PROVE LinkStep
  BY <1>8, EditStays DEF commitEdit
<1>9. ASSUME NEW which, NEW text, Types(which, text) PROVE LinkStep
  <2> DEFINE p == Written(Project, which, text)
             st == [stores EXCEPT !.project = p]
  <2>1. stores' = st /\ hash' = hash /\ pasted' = pasted /\ Quiet
    BY <1>9 DEF Types, Quiet
  <2> HIDE DEF p
  <2>2. Shown(st) /\ Alike(st)
    BY <1>0, ShownProject DEF Alike
  <2> HIDE DEF st
  <2> QED BY <2>1, <2>2 DEF Stays, Alike
<1>10. ASSUME NEW needle, AsksName(needle) PROVE LinkStep
  BY <1>10, EditStays DEF AsksName
<1> QED BY <1>1, <1>2, <1>4, <1>5, <1>6, <1>7, <1>8, <1>9, <1>10 DEF FrameStep

\* Editing the views, the tabs above the plot.
LEMMA TabLinks == ASSUME LinkInv, TabStep PROVE LinkStep
<1> USE DEF LinkStep
<1>0. Shown(stores)
  BY DEF LinkInv
<1>1. ASSUME NEW keys, Opens(keys) PROVE LinkStep
  <2> DEFINE p == createView(Project, FreshId, {Whole(k) : k \in keys})
             u == [stores EXCEPT !.project = p]
             v == [stores EXCEPT !.project = p, !.activeView = FreshId]
  <2>1. Handler(<<u, v>>) /\ hash' = hash /\ pasted' = pasted /\ Quiet
    BY <1>1 DEF Opens, Quiet
  <2> HIDE DEF p
  <2>2. Shown(v) /\ Alike(v)
    BY <1>0 DEF Shown, Alike
  <2> HIDE DEF u, v
  <2>3. stores' = v
    BY <2>1, Finally DEF Handler, Settles
  <2> QED BY <2>1, <2>2, <2>3 DEF Stays, Alike
<1>2. CASE addTab \/ onDropAdd \/ newTabFromSelection
  BY <1>1, <1>2 DEF addTab, onDropAdd, newTabFromSelection
<1>3. CASE ShowAll \/ HideAll
  BY <1>3, EditStays DEF ShowAll, HideAll
<1>4. ASSUME NEW v, onDrop(v) \/ toggleIn(v) PROVE LinkStep
  BY <1>4, EditStays DEF onDrop, toggleIn
<1>5. ASSUME NEW view, setActiveView(view) PROVE LinkStep
  <2> DEFINE v == [stores EXCEPT !.activeView = view]
  <2>1. Handler(<<v>>) /\ hash' = hash /\ pasted' = pasted /\ Quiet
    BY <1>5 DEF setActiveView, Quiet
  <2>2. Shown(v) /\ Alike(v)
    BY <1>0 DEF Shown, Alike
  <2> HIDE DEF v
  <2>3. stores' = v
    BY <2>1, Finally DEF Handler, Settles
  <2> QED BY <2>1, <2>2, <2>3 DEF Stays, Alike
<1>6. ASSUME NEW view, onDelete(view) PROVE LinkStep
  <2> DEFINE p == deleteView(Project, view)
             left == IF stores.activeView = view THEN Canonical(p) ELSE stores.activeView
             v == [stores EXCEPT !.project = p, !.activeView = left]
  <2>1. Handler(<<v>>) /\ hash' = hash /\ pasted' = pasted /\ Quiet
    BY <1>6 DEF onDelete, Quiet
  <2> HIDE DEF p, left
  <2>2. Shown(v) /\ Alike(v)
    BY <1>0 DEF Shown, Alike
  <2> HIDE DEF v
  <2>3. stores' = v
    BY <2>1, Finally DEF Handler, Settles
  <2> QED BY <2>1, <2>2, <2>3 DEF Stays, Alike
<1>7. ASSUME NEW v, NEW mux, assignTo(v, mux) PROVE LinkStep
  BY <1>7, EditStays DEF assignTo
<1>8. ASSUME NEW view, NEW mux, onDropMessage(view, mux) PROVE LinkStep
  <2> DEFINE key == {Message(Sel, mux)}
             p == IF Project.views[view].locked
                  THEN setFramesInView(Project, stores.activeView, key, FALSE)
                  ELSE setFramesInView(Project, view, key, TRUE)
  <2>1. EditMoving(p, <<[SetMux(stores, mux) EXCEPT !.project = p]>>) /\ stores.selected # Null
    BY <1>8 DEF onDropMessage, Inspected, Sel
  <2> HIDE DEF p
  <2> DEFINE u == [stores EXCEPT !.project = p]
             m == SetMux(stores, mux)
             v == [m EXCEPT !.project = p]
  <2>2. EditMoving(p, <<v>>)
    BY <2>1
  <2>3. Shown(m)
    BY <1>0, <2>1, ShownMux
  <2> HIDE DEF m
  <2>4. Shown(v)
    BY <2>3, ShownProject
  <2> HIDE DEF v
  <2>5. Last(<<u>> \o <<v>>) = v
    BY Finally
  <2> HIDE DEF u
  <2>6. Shown(Last(<<u>> \o <<v>>))
    BY <2>4, <2>5
  <2> QED BY <2>2, <2>6, EditMoveRelinks DEF u
<1> QED BY <1>2, <1>3, <1>4, <1>5, <1>6, <1>7, <1>8 DEF TabStep

\* The libraries, and a finding that becomes a signal.
LEMMA LibraryLinks == ASSUME LinkInv, ScenarioStep \/ ShelfStep PROVE LinkStep
<1> USE DEF LinkStep
<1>0. Shown(stores)
  BY DEF LinkInv
<1>1. ASSUME NEW p, Keeps(p) PROVE LinkStep
  BY <1>1, EditStays DEF Keeps
<1>2. ASSUME NEW selected, Chooses(selected) PROVE LinkStep
  BY <1>0, <1>2 DEF Chooses, cockpitVars, pageVars, Stays, Alike, Quiet
<1>3. ASSUME NEW id, toSignal(id) PROVE LinkStep
  <2>1. PICK p, k : LET st == SetSelected([stores EXCEPT !.project = p], k)
                    IN  EditMoving(p, <<st, [st EXCEPT !.mode = "explore"]>>)
    BY <1>3 DEF toSignal
  <2> DEFINE u == [stores EXCEPT !.project = p]
             st == SetSelected(u, k)
             v == [st EXCEPT !.mode = "explore"]
  <2>2. EditMoving(p, <<st, v>>)
    BY <2>1
  <2>3. Shown(u)
    BY <1>0, ShownProject
  <2> HIDE DEF u
  <2>4. Shown(st)
    BY <2>3, ShownSelected
  <2> HIDE DEF st
  <2>5. Shown(v)
    BY <2>4, ShownMode
  <2> HIDE DEF v
  <2>6. Shown(Last(<<u>> \o <<st, v>>))
    <3>1. Last(<<u>> \o <<st, v>>) = v
      BY FinallyThird
    <3> QED BY <2>5, <3>1
  <2> QED BY <2>2, <2>6, EditMoveRelinks DEF u
<1>4. CASE newScenario
  BY <1>1, <1>4 DEF newScenario
<1>5. ASSUME NEW id, deleteScenario(id) PROVE LinkStep
  BY <1>1, <1>5 DEF deleteScenario
<1>6. ASSUME NEW id, TickScenario(id) PROVE LinkStep
  BY <1>1, <1>6 DEF TickScenario, mutateScenario
<1>7. ASSUME NEW id, ChooseScenario(id) \/ ChooseFieldRun(id) PROVE LinkStep
  BY <1>2, <1>7 DEF ChooseScenario, ChooseFieldRun
<1>8. ASSUME NEW i, NEW j, reorderScenario(i, j) \/ reorderFieldRun(i, j) PROVE LinkStep
  BY <1>1, <1>8 DEF reorderScenario, reorderFieldRun
<1>9. ASSUME NEW kind, addStep(kind) PROVE LinkStep
  BY <1>1, <1>9 DEF addStep, mutateScenario
<1>10. ASSUME NEW i, delStep(i) \/ toggleAdvance(i) PROVE LinkStep
  BY <1>1, <1>10 DEF delStep, toggleAdvance, mutateScenario
<1>11. ASSUME NEW i, NEW j, moveStep(i, j) PROVE LinkStep
  BY <1>1, <1>11 DEF moveStep, mutateScenario
<1>12. ASSUME NEW id, toggleStatus(id) \/ toggleExclude(id) PROVE LinkStep
  BY <1>1, <1>12 DEF toggleStatus, toggleExclude, mutateFinding
<1>13. ASSUME NEW id, deleteFinding(id) PROVE LinkStep
  BY <1>1, <1>13 DEF deleteFinding
<1>14. CASE newFieldRun
  BY <1>1, <1>14 DEF newFieldRun
<1>15. ASSUME NEW id, deleteFieldRun(id) PROVE LinkStep
  BY <1>1, <1>15 DEF deleteFieldRun
<1>16. CASE ScenarioStep
  BY <1>16, <1>4, <1>5, <1>6, <1>7, <1>8, <1>9, <1>10, <1>11 DEF ScenarioStep
<1>17. CASE ShelfStep
  BY <1>17, <1>3, <1>7, <1>8, <1>12, <1>13, <1>14, <1>15 DEF ShelfStep
<1> QED BY <1>16, <1>17

\* A field run.
LEMMA FieldLinks == ASSUME LinkInv, FieldStep PROVE LinkStep
<1> USE DEF LinkStep
<1>0. Shown(stores)
  BY DEF LinkInv
<1>1. ASSUME NEW p, Keeps(p) PROVE LinkStep
  BY <1>1, EditStays DEF Keeps
<1>2. ASSUME NEW r, NEW panel, Changes(r, panel) PROVE LinkStep
  BY <1>1, <1>2 DEF Changes
<1>3. ASSUME NEW panel, TurnsField(panel) PROVE LinkStep
  BY <1>0, <1>3 DEF TurnsField, cockpitVars, pageVars, Stays, Alike, Quiet
<1>4. ASSUME NEW r, NEW panel, Paints(r, panel) PROVE LinkStep
  BY <1>1, <1>4 DEF Paints
<1>5. ASSUME NEW p, Rewrites(p) PROVE LinkStep
  <2> DEFINE st == [stores EXCEPT !.project = p]
  <2>1. stores' = st /\ hash' = hash /\ pasted' = pasted /\ Quiet
    BY <1>5, Finally DEF Rewrites, Handler, Settles, Quiet
  <2>2. Shown(st) /\ Alike(st)
    BY <1>0, ShownProject DEF Alike
  <2> HIDE DEF st
  <2> QED BY <2>1, <2>2 DEF Stays, Alike
<1>6. CASE addLabel
  BY <1>6, <1>2 DEF addLabel
<1>7. CASE beginRecording \/ TakesResult
  BY <1>7, <1>3 DEF beginRecording, TakesResult
<1>8. CASE stopRun
  BY <1>8, <1>3, <1>4 DEF stopRun
<1>9. CASE setLinkMode
  BY <1>9, <1>3 DEF setLinkMode
<1>10. CASE delSpan
  BY <1>10, <1>2 DEF delSpan
<1>11. ASSUME NEW led, startRun(led) PROVE LinkStep
  BY <1>11, <1>5 DEF startRun
<1>12. ASSUME NEW label, delLabel(label) PROVE LinkStep
  BY <1>12, <1>2 DEF delLabel
<1>13. ASSUME NEW label, onLabelTap(label) PROVE LinkStep
  BY <1>13, <1>3, <1>4 DEF onLabelTap
<1>14. ASSUME NEW id, pickSpan(id) PROVE LinkStep
  BY <1>14, <1>2, <1>3 DEF pickSpan
<1>15. ASSUME NEW type, setSpanType(type) PROVE LinkStep
  BY <1>15, <1>2 DEF setSpanType
<1>16. ASSUME NEW raises, analyze(raises) PROVE LinkStep
  BY <1>16, <1>3 DEF analyze
<1>17. ASSUME NEW k, promoteField(k) PROVE LinkStep
  BY <1>17, <1>1 DEF promoteField
<1> QED BY <1>6, <1>7, <1>8, <1>9, <1>10, <1>11, <1>12, <1>13, <1>14, <1>15, <1>16, <1>17
        DEF FieldStep

\* The Hunt panel.
LEMMA HuntLinks == ASSUME LinkInv, HuntStep PROVE LinkStep
<1> USE DEF LinkStep
<1>0. Shown(stores)
  BY DEF LinkInv
<1>1. ASSUME NEW panel, Turns(panel) PROVE LinkStep
  BY <1>0, <1>1 DEF Turns, cockpitVars, pageVars, Stays, Alike, Quiet
<1>2. CASE LeadInEnds \/ stopTrendCapture \/ keepTrend \/ redoTrend
  BY <1>1, <1>2 DEF LeadInEnds, stopTrendCapture, keepTrend, redoTrend
<1>3. CASE stopCaptureA \/ stopCaptureB \/ keepCmp \/ redoCmp
  BY <1>1, <1>3 DEF stopCaptureA, stopCaptureB, keepCmp, redoCmp
<1>4. ASSUME NEW what, NEW led, startWithWarmup(what, led) PROVE LinkStep
  BY <1>1, <1>4 DEF startWithWarmup
<1>5. ASSUME NEW mode, setHuntMode(mode) PROVE LinkStep
  BY <1>1, <1>5 DEF setHuntMode
<1>6. CASE markEventNow \/ clearEventMarks \/ RunAnalysis
  BY <1>1, <1>6 DEF markEventNow, clearEventMarks, RunAnalysis
<1>7. ASSUME NEW marks, finishGuided(marks) PROVE LinkStep
  BY <1>1, <1>7 DEF finishGuided
<1>8. CASE runScan \/ TakesAnswer \/ AnswerIsLost
  BY <1>1, <1>8 DEF runScan, TakesAnswer, AnswerIsLost
<1>9. ASSUME NEW id, pickCorrReference(id) PROVE LinkStep
  BY <1>1, <1>9 DEF pickCorrReference
<1> QED BY <1>2, <1>3, <1>4, <1>5, <1>6, <1>7, <1>8, <1>9 DEF HuntStep

\* Promoting what an analysis found: a project edit that also moves the selection.
LEMMA PromotingLinks == ASSUME LinkInv, PromotingStep PROVE LinkStep
<1> USE DEF LinkStep
<1>0. Shown(stores)
  BY DEF LinkInv
<1>1. ASSUME NEW k, NEW panel, Promotes(k, panel) PROVE LinkStep
  <2>1. PICK p : EditMoving(p, <<SetSelected([stores EXCEPT !.project = p], k)>>)
    BY <1>1 DEF Promotes
  <2> DEFINE u == [stores EXCEPT !.project = p]
             v == SetSelected(u, k)
  <2>2. EditMoving(p, <<v>>)
    BY <2>1
  <2>3. Shown(u)
    BY <1>0, ShownProject
  <2> HIDE DEF u
  <2>4. Shown(v)
    BY <2>3, ShownSelected
  <2> HIDE DEF v
  <2>5. Shown(Last(<<u>> \o <<v>>))
    BY <2>4, Finally
  <2> QED BY <2>2, <2>5, EditMoveRelinks DEF u
<1>2. ASSUME NEW k, promote(k) \/ promoteSweep(k) \/ promoteCorr(k) PROVE LinkStep
  BY <1>1, <1>2 DEF promote, promoteSweep, promoteCorr
<1>3. ASSUME NEW k, pickScanId(k) PROVE LinkStep
  <2>1. Moves(<<SetSelected(stores, k)>>)
    BY <1>3 DEF pickScanId, Shows
  <2> DEFINE v == SetSelected(stores, k)
  <2>2. Moves(<<v>>) /\ Shown(v)
    BY <1>0, <2>1, ShownSelected
  <2> HIDE DEF v
  <2> QED BY <2>2, Finally, MoveRelinks
<1> QED BY <1>2, <1>3 DEF PromotingStep

-----------------------------------------------------------------------------
(* The link leads back. *)

\* A page that opens writes the link of what it shows.
LEMMA LinkFirst == Init => LinkInv
<1> SUFFICES ASSUME Init PROVE LinkInv
  OBVIOUS
<1>1. stores = FreshStores /\ hash = buildHash(FreshStores) /\ pasted = FALSE
  BY DEF Init, CockpitInit
<1>2. buildHash(FreshStores).sub \in Subs \cup {Null}
  BY ShownFresh DEF Shown, buildHash
<1> QED BY <1>1, <1>2, ShownFresh DEF LinkInv

\* Whatever happens on the page, a link nobody pasted says what the page shows.
LEMMA LinkNext == LinkInv /\ [Next]_vars => LinkInv'
<1> SUFFICES ASSUME LinkInv, [Next]_vars PROVE Stays \/ Relinks \/ Pastes
  BY LinkKeeps
<1>1. CASE ConnectionStep
  BY <1>1, ConnectionLinks, LoadLinks, ReloadLinks DEF ConnectionStep
<1>2. CASE MovingStep \/ FrameStep \/ TabStep \/ ScenarioStep \/ ShelfStep \/ FieldStep
           \/ HuntStep \/ PromotingStep
  BY <1>2, MovingLinks, FrameLinks, TabLinks, LibraryLinks, FieldLinks, HuntLinks,
     PromotingLinks DEF LinkStep
<1>3. CASE UNCHANGED vars
  BY <1>3 DEF vars, cockpitVars, pageVars, Stays, Alike, LinkInv
<1> QED BY <1>1, <1>2, <1>3 DEF Next

\* A link that says what the stores say brings a fresh page there.
LEMMA LinkLeads == LinkInv => LinkRestores
<1> SUFFICES ASSUME LinkInv, ~pasted
             PROVE  LET st == applyHash(FreshStores, hash)
                    IN  /\ st.mode = stores.mode
                        /\ Panel("logbook") => st.sub = stores.sub
                        /\ Panel("explore") => /\ st.selected = Sel
                                               /\ st.mux = stores.mux /\ st.signal = stores.signal
  BY DEF LinkRestores
<1> DEFINE st == applyHash(FreshStores, hash)
           moved == [FreshStores EXCEPT !.mode = hash.mode]
           framed == SetSelected(moved, hash.frame)
           muxed == Part(framed, hash.mux, SetMux)
<1>1. hash = buildHash(stores) /\ Shown(stores)
  BY DEF LinkInv
<1>2. /\ Shown(moved) /\ moved.mode = hash.mode /\ moved.selected = Null /\ moved.mux = Null
      /\ moved.signal = Null /\ moved.sub = "storyboard"
  BY ShownFresh, ShownMode DEF FreshStores
<1>3. hash.mode = stores.mode
  BY <1>1 DEF buildHash
<1>4. CASE stores.mode = "logbook"
  <2>1. hash.sub = stores.sub /\ stores.sub \in Subs /\ stores.sub # Null
    BY <1>1, <1>4, CockpitConstants DEF buildHash, Shown
  <2>2. st = [moved EXCEPT !.sub = hash.sub]
    BY <1>3, <1>4, <2>1 DEF applyHash, Part, SetSub
  <2>3. st.mode = stores.mode /\ st.sub = stores.sub
    <3> HIDE DEF moved
    <3> QED BY <1>2, <1>3, <2>1, <2>2 DEF Shown
  <2> QED BY <1>4, <2>3 DEF Panel
<1>5. CASE stores.mode = "explore" /\ stores.selected # Null
  <2>1. hash.frame = stores.selected /\ hash.mux = stores.mux /\ hash.signal = stores.signal
    BY <1>1, <1>5 DEF buildHash
  <2>2. /\ Shown(framed) /\ framed.selected = stores.selected /\ framed.mux = Null
        /\ framed.signal = Null /\ framed.mode = stores.mode
    <3> HIDE DEF moved
    <3> QED BY <1>2, <1>3, <2>1, ShownSelected
  <2>3. /\ Shown(muxed) /\ muxed.selected = stores.selected /\ muxed.mux = stores.mux
        /\ muxed.signal = Null /\ muxed.mode = stores.mode
    <3> HIDE DEF framed
    <3>1. LET s == SetMux(framed, hash.mux)
          IN  Shown(s) /\ s.selected = stores.selected /\ s.mux = stores.mux
              /\ s.signal = Null /\ s.mode = stores.mode
      BY <1>5, <2>1, <2>2, ShownMux
    <3> QED BY <2>1, <2>2, <3>1 DEF Part
  <2>4. st = IF hash.signal = Null THEN muxed ELSE [muxed EXCEPT !.signal = hash.signal]
    BY <1>3, <1>5, <2>1 DEF applyHash, Part, FrameParts, SetSignal
  <2>5. /\ st.selected = stores.selected /\ st.mux = stores.mux /\ st.signal = stores.signal
        /\ st.mode = stores.mode
    <3> HIDE DEF muxed
    <3> QED BY <2>1, <2>3, <2>4 DEF Shown
  <2> QED BY <1>5, <2>5 DEF Panel, Sel
<1>6. CASE stores.mode # "logbook" /\ ~(stores.mode = "explore" /\ stores.selected # Null)
  <2>1. hash.frame = Null
    BY <1>1, <1>6 DEF buildHash
  <2>2. st = moved
    BY <1>3, <1>6, <2>1 DEF applyHash
  <2>3. st.mode = stores.mode /\ st.selected = Null /\ st.mux = Null /\ st.signal = Null
    <3> HIDE DEF moved, st
    <3> QED BY <1>2, <1>3, <2>2
  <2>4. stores.selected = Null => stores.mux = Null /\ stores.signal = Null
    BY <1>1 DEF Shown
  <2> QED BY <1>6, <2>3, <2>4 DEF Panel, Sel
<1> QED BY <1>4, <1>5, <1>6

\* Whatever was done on the page, and however often it was loaded again, the link in the
\* address bar, unless it was pasted, brings a fresh page to the mode, the sub-tab, the frame,
\* the message and the signal that are shown.
THEOREM LinkLeadsBack == Spec => []LinkRestores
<1>1. Spec => []LinkInv
  BY LinkFirst, LinkNext, PTL DEF Spec
<1> QED BY <1>1, LinkLeads, PTL

-----------------------------------------------------------------------------
(* The clock the page shows.                                               *)

\* The page's clock and the parser's are times.
ClockInv ==
  /\ maxTUs \in Nat
  /\ parser \in [seen : {parser.seen}, maxTUs : Nat, batches : {parser.batches},
                 snapshot : {parser.snapshot}]
  /\ parser.snapshot # Null => parser.snapshot.maxTUs \in Nat

\* The clock is a number.
LEMMA ClockFirst == Init => ClockInv
BY DEF Init, CockpitInit, IdleParser, ClockInv

\* The parser's clock only counts on; a reload starts it at zero.
LEMMA ClockNext == LinkInv /\ ClockInv /\ [Next]_vars => ClockInv'
<1> SUFFICES ASSUME LinkInv, ClockInv, [Next]_vars PROVE ClockInv'
  OBVIOUS
<1>1. CASE Quiet
  BY <1>1 DEF Quiet, parserVars, ClockInv
<1>2. CASE connect
  BY <1>2 DEF connect, ClockInv
<1>3. CASE Ingests(Keys)
  <2>1. maxTUs' = maxTUs /\ parser.maxTUs + 1 \in Nat
    BY <1>3 DEF Ingests, ClockInv
  <2>2. PICK seen, batches :
          parser' = [parser EXCEPT !.seen = seen, !.maxTUs = parser.maxTUs + 1, !.batches = batches]
    BY <1>3 DEF Ingests
  <2>3. /\ parser' \in [seen : {parser'.seen}, maxTUs : Nat, batches : {parser'.batches},
                       snapshot : {parser'.snapshot}]
        /\ parser'.snapshot = parser.snapshot
    BY <2>1, <2>2 DEF ClockInv
  <2> QED BY <2>1, <2>3 DEF ClockInv
<1>4. CASE emitSnapshot
  BY <1>4 DEF emitSnapshot, ClockInv
<1>5. CASE ShowsSnapshot
  BY <1>5 DEF ShowsSnapshot, ClockInv
<1>6. CASE Ticks \/ TakesReply
  BY <1>6, <1>1 DEF Ticks, TakesReply, Quiet
<1>7. ASSUME NEW file, Reload(file) PROVE ClockInv'
  BY <1>7 DEF Reload, IdleParser, ClockInv
<1>8. CASE ConnectionStep
  BY <1>8, <1>1, <1>2, <1>3, <1>4, <1>5, <1>6, <1>7, LoadLinks DEF ConnectionStep
<1>9. CASE MovingStep \/ FrameStep \/ TabStep \/ ScenarioStep \/ ShelfStep \/ FieldStep
           \/ HuntStep \/ PromotingStep
  BY <1>9, <1>1, MovingLinks, FrameLinks, TabLinks, LibraryLinks, FieldLinks, HuntLinks,
     PromotingLinks DEF LinkStep
<1>10. CASE UNCHANGED vars
  BY <1>10, <1>1 DEF vars, cockpitVars, Quiet
<1> QED BY <1>8, <1>9, <1>10 DEF Next

-----------------------------------------------------------------------------
(* Questions under way, and the newest of a kind.                          *)

\* A question of a kind is under way; i is the newest one; a question is added at the end.
Awaits(asked, about) == \E i \in DOMAIN asked : About(asked[i]) = about

Newest(asked, about, i) ==
  /\ i \in DOMAIN asked /\ About(asked[i]) = about
  /\ \A j \in DOMAIN asked : j > i => About(asked[j]) # about

Adds(longer, asked, q) == (\E S : asked \in Seq(S)) /\ longer = Append(asked, q)

\* A question that is added is the newest of its kind.
LEMMA NewestAppended ==
  ASSUME NEW longer, NEW asked, NEW q, Adds(longer, asked, q), NEW about, NEW i,
         Newest(longer, about, i)
  PROVE  /\ About(q) = about => longer[i] = q
         /\ About(q) # about => Newest(asked, about, i) /\ longer[i] = asked[i]
<1>0. PICK S : asked \in Seq(S)
  BY DEF Adds
<1>1. Len(asked) \in Nat /\ DOMAIN asked = 1 .. Len(asked) /\ DOMAIN longer = 1 .. Len(asked) + 1
  BY <1>0 DEF Adds
<1>2. \A j \in DOMAIN asked : longer[j] = asked[j]
  BY <1>0 DEF Adds
<1>3. longer[Len(asked) + 1] = q
  BY <1>0 DEF Adds
<1>4. CASE About(q) = about
  <2>1. ~(Len(asked) + 1 > i)
    BY <1>1, <1>3, <1>4 DEF Newest
  <2>2. i = Len(asked) + 1
    BY <1>1, <2>1 DEF Newest
  <2> QED BY <1>3, <1>4, <2>2
<1>5. CASE About(q) # about
  <2>1. i # Len(asked) + 1 /\ i \in DOMAIN longer
    BY <1>3, <1>5 DEF Newest
  <2>2. i \in DOMAIN asked
    BY <1>1, <2>1
  <2>3. Newest(asked, about, i)
    BY <1>1, <1>2, <2>2 DEF Newest
  <2> QED BY <1>2, <1>5, <2>2, <2>3
<1> QED BY <1>4, <1>5

\* A kind is awaited after a question is added if it was, or if that question is of it.
LEMMA AwaitsAppended ==
  ASSUME NEW longer, NEW asked, NEW q, Adds(longer, asked, q), NEW about
  PROVE  Awaits(longer, about) <=> About(q) = about \/ Awaits(asked, about)
<1>0. PICK S : asked \in Seq(S)
  BY DEF Adds
<1>1. Len(asked) \in Nat /\ DOMAIN asked = 1 .. Len(asked) /\ DOMAIN longer = 1 .. Len(asked) + 1
  BY <1>0 DEF Adds
<1>2. \A j \in DOMAIN asked : longer[j] = asked[j]
  BY <1>0 DEF Adds
<1>3. longer[Len(asked) + 1] = q
  BY <1>0 DEF Adds
<1> QED BY <1>1, <1>2, <1>3 DEF Awaits

\* What is left when the first question is answered.
LEMMA NewestLeft ==
  ASSUME NEW S, NEW asked \in Seq(S), asked # <<>>, NEW about
  PROVE  /\ \A i : Newest(Tail(asked), about, i) =>
                   i \in Nat /\ Newest(asked, about, i + 1) /\ Tail(asked)[i] = asked[i + 1]
         /\ Awaits(asked, about) <=> About(Head(asked)) = about \/ Awaits(Tail(asked), about)
         /\ About(Head(asked)) = about /\ ~Awaits(Tail(asked), about) => Newest(asked, about, 1)
<1> DEFINE rest == Tail(asked)
<1>1. /\ Len(asked) \in Nat \ {0} /\ DOMAIN asked = 1 .. Len(asked)
      /\ DOMAIN rest = 1 .. Len(asked) - 1
  OBVIOUS
<1>2. \A j \in DOMAIN rest : rest[j] = asked[j + 1]
  OBVIOUS
<1>3. Head(asked) = asked[1]
  OBVIOUS
<1> HIDE DEF rest
<1>4. \A j \in DOMAIN asked : j = 1 \/ (j - 1 \in DOMAIN rest /\ asked[j] = rest[j - 1])
  BY <1>1, <1>2
<1>5. ASSUME NEW i, Newest(rest, about, i)
      PROVE  i \in Nat /\ Newest(asked, about, i + 1) /\ rest[i] = asked[i + 1]
  <2>1. i \in DOMAIN rest /\ i \in Nat /\ i + 1 \in DOMAIN asked /\ rest[i] = asked[i + 1]
    BY <1>1, <1>2, <1>5 DEF Newest
  <2>2. ASSUME NEW j \in DOMAIN asked, j > i + 1 PROVE About(asked[j]) # about
    <3>1. j # 1 /\ j \in Int
      BY <1>1, <2>1, <2>2
    <3>2. j - 1 \in DOMAIN rest /\ asked[j] = rest[j - 1] /\ j - 1 > i
      BY <1>4, <2>1, <2>2, <3>1
    <3> QED BY <1>5, <3>2 DEF Newest
  <2> QED BY <1>5, <2>1, <2>2 DEF Newest
<1>6. Awaits(asked, about) <=> About(Head(asked)) = about \/ Awaits(rest, about)
  <2>1. ASSUME NEW j \in DOMAIN rest PROVE j + 1 \in DOMAIN asked /\ rest[j] = asked[j + 1]
    BY <1>1, <1>2
  <2> QED BY <1>1, <1>3, <1>4, <2>1 DEF Awaits
<1>7. ASSUME About(Head(asked)) = about, ~Awaits(rest, about) PROVE Newest(asked, about, 1)
  <2>1. ASSUME NEW j \in DOMAIN asked, j > 1 PROVE About(asked[j]) # about
    BY <1>1, <1>4, <1>7, <2>1 DEF Awaits
  <2> QED BY <1>1, <1>3, <1>7, <2>1 DEF Newest
<1> QED BY <1>5, <1>6, <1>7 DEF rest

-----------------------------------------------------------------------------
(* The panel, and the windows it asks about.                               *)

\* Stretches of time, and times that may be unset.
Stretches == {s \in [from : Nat, to : Nat] : s.from <= s.to}
Times == Nat \cup {Null}

\* What the panel keeps of its captures.
Typed(h) ==
  /\ h \in [mode : Questions, lead : {Null, "trend", "A", "B"},
            trend : [step : {"idle", "capturing", "review"}, from : Times, to : Times],
            pair : [step : {"idleA", "capturingA", "idleB", "capturingB", "review"},
                    from : Times, a : Stretches \cup {Null}, b : Stretches \cup {Null}],
            marks : Seq(Nat), ramp : [from : Times, to : Times], reference : {h.reference},
            shown : {h.shown}, promoted : {h.promoted}, scan : {h.scan}, corr : {h.corr},
            corrPromoted : {h.corrPromoted}, asked : {h.asked}, last : {h.last},
            moot : {h.moot}, turns : {h.turns}]
  /\ h.trend.step = "capturing" => h.trend.from \in Nat
  /\ h.pair.step \in {"capturingA", "capturingB"} => h.pair.from \in Nat
  /\ \E b \in Nat : \A i \in DOMAIN h.marks : h.marks[i] <= b

\* The window asked about holds every mark asked about.
Holding(q) == \A m \in q.marks : q.window.from <= m /\ m <= q.window.to

\* What the panel shows, and what it waits for.
Settled(h) ==
  /\ \E S : h.asked \in Seq(S)
  /\ h.last # Null => Holding(h.last)
  /\ "shown" \notin h.moot =>
       IF Awaits(h.asked, "shown")
       THEN \A i : Newest(h.asked, "shown", i) => h.asked[i] = h.last
       ELSE h.shown = h.last
  /\ "corr" \notin h.moot =>
       IF Awaits(h.asked, "corr")
       THEN \A i : Newest(h.asked, "corr", i) => h.asked[i].reference \in {Null, h.reference}
       ELSE h.corr \in {Null, h.reference}
  /\ h.shown = Null => h.promoted = {}

\* The inductive invariant: answers settle, and captures are well formed.
HuntInv == Typed(hunt) /\ Settled(hunt)

\* The invariant implies the property.
LEMMA SettledAnswers == HuntInv => AnswersSettle
BY DEF HuntInv, Settled, AnswersSettle, Holding, Pending, Awaits

\* Every set of numbers that is not empty has a least one.
LEMMA LeastNumber ==
  ASSUME NEW T \in SUBSET Nat, T # {}
  PROVE  \E n \in T : \A m \in T : n <= m
<1> DEFINE R == {p \in Nat \X Nat : p[1] < p[2]}
<1>1. IsWellFoundedOn(R, Nat)
  BY NatLessThanWellFounded DEF OpToRel
<1>2. PICK x \in T : \A y \in T : ~(<<y, x>> \in R)
  BY <1>1, WFMin
<1>3. ASSUME NEW m \in T PROVE x <= m
  <2>1. x \in Nat /\ m \in Nat
    BY <1>2
  <2>2. ~(<<m, x>> \in R)
    BY <1>2
  <2>3. ~(m < x)
    BY <2>1, <2>2
  <2> HIDE DEF R
  <2>4. QED
    BY <2>1, <2>3
<1> HIDE DEF R
<1>4. QED
  BY <1>2, <1>3

\* A set of numbers with a bound has a greatest one.
LEMMA GreatestNumber ==
  ASSUME NEW T \in SUBSET Nat, T # {}, NEW b \in Nat, \A m \in T : m <= b
  PROVE  \E n \in T : \A m \in T : m <= n
<1> DEFINE U == {b - m : m \in T}
<1>1. U \in SUBSET Nat /\ U # {}
  <2>1. ASSUME NEW m \in T PROVE b - m \in Nat
    <3>1. m \in Nat /\ m <= b
      OBVIOUS
    <3> QED BY <3>1
  <2> QED BY <2>1
<1>2. PICK u \in U : \A w \in U : u <= w
  BY <1>1, LeastNumber
<1>3. PICK n \in T : u = b - n
  BY <1>2
<1>4. ASSUME NEW m \in T PROVE m <= n
  <2>1. u <= b - m
    BY <1>2
  <2> QED BY <1>3, <2>1
<1> QED BY <1>4

\* A span runs from the smaller of its ends to the larger.
LEMMA SpanOrders ==
  ASSUME NEW x \in Int, NEW y \in Int
  PROVE  LET s == Span(x, y)
         IN  /\ s.from \in {x, y} /\ s.to \in {x, y} /\ s.from <= x /\ s.from <= y
             /\ x <= s.to /\ y <= s.to
BY DEF Span

\* A span of two times is a stretch.
LEMMA SpanStretches == ASSUME NEW x \in Nat, NEW y \in Nat PROVE Span(x, y) \in Stretches
BY DEF Span, Stretches

\* The window of an event run holds every mark.
LEMMA EventWindowHolds ==
  ASSUME maxTUs \in Nat, NEW marks \in SUBSET Nat, NEW b \in Nat, \A m \in marks : m <= b
  PROVE  \A m \in marks : EventWindow(marks).from <= m /\ m <= EventWindow(marks).to
<1> SUFFICES ASSUME NEW m \in marks
             PROVE  EventWindow(marks).from <= m /\ m <= EventWindow(marks).to
  OBVIOUS
<1> DEFINE first == CHOOSE x \in marks : \A n \in marks : x <= n
           final == CHOOSE x \in marks : \A n \in marks : n <= x
           before == Span(maxTUs - WindowSeconds, first - 1)
           after == Span(maxTUs, final + 1)
<1>1. first \in marks /\ \A n \in marks : first <= n
  BY LeastNumber
<1>2. final \in marks /\ \A n \in marks : n <= final
  BY GreatestNumber
<1>3. EventWindow(marks) = [from |-> before.from, to |-> after.to]
  BY DEF EventWindow
<1> HIDE DEF first, final
<1>4. maxTUs - WindowSeconds \in Int /\ first \in Int /\ final \in Int /\ first - 1 \in Int
      /\ final + 1 \in Int /\ m \in Int
  BY <1>1, <1>2 DEF WindowSeconds
<1>5. before.from <= first - 1 /\ before.from \in Int
  <2> DEFINE x == maxTUs - WindowSeconds
             y == first - 1
  <2>1. x \in Int /\ y \in Int
    BY <1>4
  <2> HIDE DEF x, y
  <2>2. Span(x, y).from <= y /\ Span(x, y).from \in Int
    BY <2>1, SpanOrders
  <2> QED BY <2>2 DEF x, y
<1>6. final + 1 <= after.to /\ after.to \in Int
  <2> DEFINE y == final + 1
  <2>1. y \in Int /\ maxTUs \in Int
    BY <1>4
  <2> HIDE DEF y
  <2>2. y <= Span(maxTUs, y).to /\ Span(maxTUs, y).to \in Int
    BY <2>1, SpanOrders
  <2> QED BY <2>2 DEF y
<1>7. first <= m /\ m <= final
  BY <1>1, <1>2
<1> HIDE DEF before, after
<1> QED BY <1>3, <1>4, <1>5, <1>6, <1>7

\* So does that of every experiment.
LEMMA ExperimentHolds ==
  ASSUME maxTUs \in Nat, NEW h, Typed(h)
  PROVE  Holding(Experiment(h)) /\ About(Experiment(h)) = "shown"
<1>1. CASE h.mode = "event"
  <2> DEFINE marks == Range(h.marks)
  <2>1. Experiment(h) = [kind |-> "event", window |-> EventWindow(marks), marks |-> marks]
    BY <1>1 DEF Experiment
  <2>2. h.marks \in Seq(Nat) /\ \E b \in Nat : \A i \in DOMAIN h.marks : h.marks[i] <= b
    BY DEF Typed
  <2>3. marks \in SUBSET Nat /\ \E b \in Nat : \A m \in marks : m <= b
    BY <2>2 DEF Range
  <2> HIDE DEF marks
  <2>4. \A m \in marks : EventWindow(marks).from <= m /\ m <= EventWindow(marks).to
    BY <2>3, EventWindowHolds
  <2> QED BY <2>1, <2>4 DEF Holding, About
<1>2. CASE h.mode # "event" /\ TwoWindow(h.mode) /\ h.pair.a # Null /\ h.pair.b # Null
  <2> DEFINE a == h.pair.a
             b == h.pair.b
             w == [from |-> Span(a.from, b.from).from, to |-> Span(a.to, b.to).to]
  <2>1. Experiment(h) = [kind |-> h.mode, marks |-> {a.from, a.to, b.from, b.to}, window |-> w]
    BY <1>2 DEF Experiment
  <2>2. a \in Stretches /\ b \in Stretches /\ h.mode \in {"2pt", "flag"}
    BY <1>2 DEF Typed, TwoWindow, Questions
  <2> HIDE DEF a, b
  <2>3. a.from \in Int /\ a.to \in Int /\ b.from \in Int /\ b.to \in Int
        /\ a.from <= a.to /\ b.from <= b.to
    BY <2>2 DEF Stretches
  <2>4. w.from <= a.from /\ w.from <= b.from /\ a.to <= w.to /\ b.to <= w.to
        /\ w.from \in Int /\ w.to \in Int
    BY <2>3, SpanOrders
  <2> HIDE DEF w
  <2> QED BY <2>1, <2>2, <2>3, <2>4 DEF Holding, About
<1>3. CASE h.mode # "event" /\ ~(TwoWindow(h.mode) /\ h.pair.a # Null /\ h.pair.b # Null)
  <2> DEFINE x == IF h.ramp.from = Null THEN maxTUs - WindowSeconds ELSE h.ramp.from
             y == IF h.ramp.to = Null THEN maxTUs ELSE h.ramp.to
             ramp == Span(x, y)
  <2>1. Experiment(h) = [kind |-> "trend", window |-> ramp, marks |-> {ramp.from, ramp.to}]
    BY <1>3 DEF Experiment
  <2>2. x \in Int /\ y \in Int
    BY DEF Typed, Times, WindowSeconds
  <2> HIDE DEF x, y
  <2>3. ramp.from \in Int /\ ramp.to \in Int /\ ramp.from <= ramp.to
    BY <2>2, SpanOrders
  <2> HIDE DEF ramp
  <2> QED BY <2>1, <2>3 DEF Holding, About
<1> QED BY <1>1, <1>2, <1>3

-----------------------------------------------------------------------------
(* The steps of the panel.                                                 *)

\* A step of the captures leaves the answers alone.
SameAnswers(h, g) ==
  /\ g.asked = h.asked /\ g.last = h.last /\ g.shown = h.shown /\ g.corr = h.corr
  /\ g.reference = h.reference /\ g.promoted = h.promoted /\ g.moot = h.moot

\* What settles does not depend on the captures.
LEMMA CapturesSettle == ASSUME NEW h, NEW g, Settled(h), SameAnswers(h, g) PROVE Settled(g)
BY DEF Settled, SameAnswers

\* A panel nobody has used awaits nothing and shows nothing.
LEMMA IdleHolds == Typed(IdlePanel) /\ Settled(IdlePanel)
<1>1. IdlePanel.marks = <<>> /\ <<>> \in Seq(Nat) /\ \A i \in DOMAIN <<>> : <<>>[i] <= 0
  BY DEF IdlePanel
<1>2. Typed(IdlePanel)
  BY <1>1 DEF Typed, IdlePanel, Questions, Times, NoCapture, NoPair
<1>3. IdlePanel.asked \in Seq({})
  BY DEF IdlePanel
<1>4. ~Awaits(IdlePanel.asked, "shown") /\ ~Awaits(IdlePanel.asked, "corr")
  BY DEF Awaits, IdlePanel
<1>5. Settled(IdlePanel)
  BY <1>3, <1>4 DEF Settled, IdlePanel
<1> QED BY <1>2, <1>5

\* An experiment is asked.
LEMMA ExperimentSettles ==
  ASSUME maxTUs \in Nat, NEW h, Typed(h), Settled(h)
  PROVE  Typed(runAnalysis(h)) /\ Settled(runAnalysis(h))
<1> DEFINE q == Experiment(h)
           g == runAnalysis(h)
<1>1. Holding(q) /\ About(q) = "shown"
  BY ExperimentHolds
<1> HIDE DEF q
<1>2. /\ g.asked = Append(h.asked, q) /\ g.moot = h.moot \ {"shown"} /\ g.last = q
      /\ g.shown = h.shown /\ g.corr = h.corr /\ g.reference = h.reference
      /\ g.promoted = h.promoted
  BY <1>1 DEF runAnalysis, Asks, Typed, q
<1>3. Typed(g)
  BY ZenonT(90) DEF runAnalysis, Asks, Typed
<1> HIDE DEF g
<1>4. PICK S : h.asked \in Seq(S)
  BY DEF Settled
<1>5. g.asked \in Seq(S \cup {q})
  BY <1>2, <1>4
<1>6. /\ Awaits(g.asked, "shown")
      /\ \A i : Newest(g.asked, "shown", i) => g.asked[i] = q
      /\ Awaits(g.asked, "corr") <=> Awaits(h.asked, "corr")
      /\ \A i : Newest(g.asked, "corr", i) =>
               Newest(h.asked, "corr", i) /\ g.asked[i] = h.asked[i]
  <2>0. Adds(g.asked, h.asked, q)
    BY <1>2, <1>4 DEF Adds
  <2>1. Awaits(g.asked, "shown") /\ (Awaits(g.asked, "corr") <=> Awaits(h.asked, "corr"))
    BY <2>0, <1>1, AwaitsAppended
  <2>2. ASSUME NEW i, Newest(g.asked, "shown", i) PROVE g.asked[i] = q
    BY <2>0, <1>1, <2>2, NewestAppended
  <2>3. ASSUME NEW i, Newest(g.asked, "corr", i)
        PROVE  Newest(h.asked, "corr", i) /\ g.asked[i] = h.asked[i]
    BY <2>0, <1>1, <2>3, NewestAppended
  <2> QED BY <2>1, <2>2, <2>3
<1>7. Settled(g)
  BY <1>1, <1>2, <1>5, <1>6 DEF Settled
<1> QED BY <1>3, <1>7 DEF g

\* A scan or a correlation is asked, about the reference that is picked or about none.
LEMMA ScanSettles ==
  ASSUME NEW h, Typed(h), Settled(h), NEW q, About(q) = "corr", q.reference \in {Null, h.reference}
  PROVE  Typed(Asks(h, q)) /\ Settled(Asks(h, q))
<1> DEFINE g == Asks(h, q)
<1>2. /\ g.asked = Append(h.asked, q) /\ g.moot = h.moot \ {"corr"} /\ g.last = h.last
      /\ g.shown = h.shown /\ g.corr = h.corr /\ g.reference = h.reference
      /\ g.promoted = h.promoted
  BY DEF Asks, Typed
<1>3. Typed(g)
  BY ZenonT(90) DEF Asks, Typed
<1> HIDE DEF g
<1>4. PICK S : h.asked \in Seq(S)
  BY DEF Settled
<1>5. g.asked \in Seq(S \cup {q})
  BY <1>2, <1>4
<1>6. /\ Awaits(g.asked, "corr")
      /\ \A i : Newest(g.asked, "corr", i) => g.asked[i] = q
      /\ Awaits(g.asked, "shown") <=> Awaits(h.asked, "shown")
      /\ \A i : Newest(g.asked, "shown", i) =>
               Newest(h.asked, "shown", i) /\ g.asked[i] = h.asked[i]
  <2>0. Adds(g.asked, h.asked, q)
    BY <1>2, <1>4 DEF Adds
  <2>1. Awaits(g.asked, "corr") /\ (Awaits(g.asked, "shown") <=> Awaits(h.asked, "shown"))
    BY <2>0, AwaitsAppended
  <2>2. ASSUME NEW i, Newest(g.asked, "corr", i) PROVE g.asked[i] = q
    BY <2>0, <2>2, NewestAppended
  <2>3. ASSUME NEW i, Newest(g.asked, "shown", i)
        PROVE  Newest(h.asked, "shown", i) /\ g.asked[i] = h.asked[i]
    BY <2>0, <2>3, NewestAppended
  <2> QED BY <2>1, <2>2, <2>3
<1>7. Settled(g)
  BY <1>2, <1>5, <1>6 DEF Settled
<1> QED BY <1>3, <1>7 DEF g

\* The results are discarded.
LEMMA DiscardSettles ==
  ASSUME NEW h, Typed(h), Settled(h) PROVE Typed(Discarded(h)) /\ Settled(Discarded(h))
<1> DEFINE g == Discarded(h)
<1>1. /\ g.asked = h.asked /\ g.last = Null /\ g.shown = Null /\ g.promoted = {}
      /\ g.corr = h.corr /\ g.reference = h.reference
      /\ g.moot = IF Awaits(h.asked, "shown") THEN h.moot \cup {"shown"} ELSE h.moot
  BY DEF Discarded, Typed, Pending, Awaits
<1>2. Typed(g)
  BY DEF Discarded, Typed
<1> HIDE DEF g
<1>3. Settled(g)
  BY <1>1 DEF Settled
<1> QED BY <1>2, <1>3 DEF g

\* The first question is answered, or its answer is lost.
LEMMA AnswerSettles ==
  ASSUME NEW h, Typed(h), Settled(h), h.asked # <<>>
  PROVE  LET g == Answered([h EXCEPT !.asked = Tail(@)], Head(h.asked))
             l == [h EXCEPT !.asked = Tail(@), !.moot = @ \cup {About(Head(h.asked))}]
         IN  Typed(g) /\ Settled(g) /\ Typed(l) /\ Settled(l)
<1> DEFINE q == Head(h.asked)
           rest == Tail(h.asked)
           g == Answered([h EXCEPT !.asked = rest], q)
           l == [h EXCEPT !.asked = rest, !.moot = @ \cup {About(q)}]
<1>1. PICK S : h.asked \in Seq(S)
  BY DEF Settled
<1>2. rest \in Seq(S) /\ h.asked[1] = q
  BY <1>1
<1>3. \A about :
        /\ \A i : Newest(rest, about, i) =>
                 Newest(h.asked, about, i + 1) /\ rest[i] = h.asked[i + 1]
        /\ Awaits(h.asked, about) <=> About(q) = about \/ Awaits(rest, about)
        /\ About(q) = about /\ ~Awaits(rest, about) => Newest(h.asked, about, 1)
  BY ZenonT(90), <1>1, NewestLeft
<1> HIDE DEF q, rest
<1>4. Typed(l)
  BY ZenonT(90) DEF Typed
<1>5. /\ l.asked = rest /\ l.last = h.last /\ l.shown = h.shown /\ l.promoted = h.promoted
      /\ l.corr = h.corr /\ l.reference = h.reference /\ l.moot = h.moot \cup {About(q)}
  BY DEF Typed
<1>6. Settled(l)
  <2> HIDE DEF l
  <2> QED BY <1>2, <1>3, <1>5 DEF Settled
<1>7. Typed(g)
  BY ZenonT(90) DEF Typed, Answered
<1>8. CASE About(q) = "corr"
  <2>1. q.kind \in {"scanAll", "correlation"}
    BY <1>8 DEF About
  <2>2. /\ g.asked = rest /\ g.last = h.last /\ g.shown = h.shown /\ g.promoted = h.promoted
        /\ g.corr = q.reference /\ g.reference = h.reference /\ g.moot = h.moot
    BY <2>1 DEF Typed, Answered
  <2> HIDE DEF g
  <2>3. Settled(g)
    BY <1>2, <1>3, <1>8, <2>2 DEF Settled
  <2> QED BY <1>4, <1>6, <1>7, <2>3 DEF g, q, rest
<1>9. CASE About(q) # "corr"
  <2>1. About(q) = "shown" /\ q.kind # "scanAll" /\ q.kind # "correlation"
    BY <1>9 DEF About
  <2>2. /\ g.asked = rest /\ g.last = h.last /\ g.shown = q /\ g.promoted = {}
        /\ g.corr = h.corr /\ g.reference = h.reference /\ g.moot = h.moot
    BY <2>1 DEF Typed, Answered
  <2> HIDE DEF g
  <2>3. Settled(g)
    BY <1>2, <1>3, <2>1, <2>2 DEF Settled
  <2> QED BY <1>4, <1>6, <1>7, <2>3 DEF g, q, rest
<1> QED BY <1>8, <1>9

\* A step of the panel that asks nothing and is answered nothing.
LEMMA CaptureHolds ==
  ASSUME HuntInv, NEW g, Typed(g), SameAnswers(hunt, g), hunt' = g PROVE HuntInv'
BY CapturesSettle DEF HuntInv

\* Starting a capture leaves a capture, and every answer as it was.
LEMMA StartedTyped ==
  ASSUME maxTUs \in Nat, NEW h, Typed(h), NEW what \in {"trend", "A", "B"}
  PROVE  Typed(Started(h, what)) /\ SameAnswers(h, Started(h, what))
<1>1. CASE what = "trend"
  BY ZenonT(90), <1>1 DEF Started, Typed, SameAnswers, Times
<1>2. CASE what = "A"
  BY ZenonT(90), <1>2 DEF Started, Typed, SameAnswers, Times
<1>3. CASE what = "B"
  BY ZenonT(90), <1>3 DEF Started, Typed, SameAnswers, Times
<1> QED BY <1>1, <1>2, <1>3

\* New marks leave everything else as it was.
LEMMA MarksTyped ==
  ASSUME NEW h, Typed(h), NEW more \in Seq(Nat),
         \E b \in Nat : \A i \in DOMAIN more : more[i] <= b
  PROVE  Typed([h EXCEPT !.marks = more]) /\ SameAnswers(h, [h EXCEPT !.marks = more])
<1> DEFINE g == [h EXCEPT !.marks = more]
<1>1. g.marks = more /\ g.trend = h.trend /\ g.pair = h.pair /\ SameAnswers(h, g)
  BY DEF Typed, SameAnswers
<1>2. g \in [mode : Questions, lead : {Null, "trend", "A", "B"},
            trend : [step : {"idle", "capturing", "review"}, from : Times, to : Times],
            pair : [step : {"idleA", "capturingA", "idleB", "capturingB", "review"},
                    from : Times, a : Stretches \cup {Null}, b : Stretches \cup {Null}],
            marks : Seq(Nat), ramp : [from : Times, to : Times], reference : {g.reference},
            shown : {g.shown}, promoted : {g.promoted}, scan : {g.scan},
            corr : {g.corr}, corrPromoted : {g.corrPromoted}, asked : {g.asked},
            last : {g.last}, moot : {g.moot}, turns : {g.turns}]
  BY DEF Typed
<1>3. /\ \E b \in Nat : \A i \in DOMAIN g.marks : g.marks[i] <= b
      /\ g.trend.step = "capturing" => g.trend.from \in Nat
      /\ g.pair.step \in {"capturingA", "capturingB"} => g.pair.from \in Nat
  BY <1>1 DEF Typed
<1> HIDE DEF g
<1>4. Typed(g)
  BY <1>2, <1>3 DEF Typed
<1> QED BY <1>1, <1>4 DEF g

\* Marking, keeping, starting and ending a first window ask nothing.
LEMMA CaptureNext ==
  ASSUME HuntInv, maxTUs \in Nat,
         \/ LeadInEnds \/ keepTrend \/ stopCaptureA \/ keepCmp \/ markEventNow \/ clearEventMarks
         \/ \E what \in {"trend", "A", "B"}, led \in BOOLEAN : startWithWarmup(what, led)
         \/ \E mode \in Questions : setHuntMode(mode)
  PROVE  HuntInv'
<1>0. Typed(hunt) /\ Settled(hunt)
  BY DEF HuntInv
<1>1. CASE LeadInEnds
  <2> DEFINE over == [hunt EXCEPT !.lead = Null]
  <2>1. Typed(over) /\ SameAnswers(hunt, over)
    BY <1>0 DEF Typed, SameAnswers
  <2>2. hunt.lead \in {"trend", "A", "B"}
    BY <1>0, <1>1 DEF Typed, LeadInEnds
  <2>3. hunt' = IF canRun THEN Started(over, hunt.lead) ELSE over
    BY <1>1 DEF LeadInEnds, Turns
  <2> HIDE DEF over
  <2>4. Typed(Started(over, hunt.lead)) /\ SameAnswers(over, Started(over, hunt.lead))
    BY <2>1, <2>2, StartedTyped
  <2>5. Typed(hunt') /\ SameAnswers(hunt, hunt')
    BY <2>1, <2>3, <2>4 DEF SameAnswers
  <2> QED BY <2>5, CaptureHolds
<1>2. CASE keepTrend
  <2>1. hunt' = [hunt EXCEPT !.trend = NoCapture]
    BY <1>2 DEF keepTrend, Turns
  <2>2. Typed(hunt') /\ SameAnswers(hunt, hunt')
    BY ZenonT(90), <1>0, <2>1 DEF Typed, SameAnswers, NoCapture, Times
  <2> QED BY <2>2, CaptureHolds
<1>3. CASE stopCaptureA
  <2> DEFINE w == Span(hunt.pair.from, maxTUs)
  <2>1. hunt' = [hunt EXCEPT !.pair = [@ EXCEPT !.step = "idleB", !.from = Null, !.a = w]]
    BY <1>3 DEF stopCaptureA, Turns
  <2>2. w \in Stretches
    BY <1>0, <1>3, SpanStretches DEF Typed, stopCaptureA
  <2> HIDE DEF w
  <2> DEFINE p == [hunt.pair EXCEPT !.step = "idleB", !.from = Null, !.a = w]
  <2>3. /\ p \in [step : {"idleA", "capturingA", "idleB", "capturingB", "review"},
                  from : Times, a : Stretches \cup {Null}, b : Stretches \cup {Null}]
        /\ p.step = "idleB"
    BY <1>0, <2>2 DEF Typed, Times
  <2>4. hunt' = [hunt EXCEPT !.pair = p]
    BY <2>1
  <2> HIDE DEF p
  <2>5. Typed(hunt') /\ SameAnswers(hunt, hunt')
    BY ZenonT(90), <1>0, <2>3, <2>4 DEF Typed, SameAnswers
  <2> QED BY <2>5, CaptureHolds
<1>4. CASE keepCmp
  <2>1. hunt' = [hunt EXCEPT !.pair.step = "idleA"]
    BY <1>4 DEF keepCmp, Turns
  <2>2. Typed(hunt') /\ SameAnswers(hunt, hunt')
    BY <1>0, <2>1 DEF Typed, SameAnswers
  <2> QED BY <2>2, CaptureHolds
<1>5. CASE markEventNow
  <2> DEFINE more == Append(hunt.marks, maxTUs)
  <2>1. hunt' = [hunt EXCEPT !.marks = more]
    BY <1>5 DEF markEventNow, Turns
  <2>2. more \in Seq(Nat) /\ \E b \in Nat : \A i \in DOMAIN more : more[i] <= b
    <3>1. PICK b \in Nat : \A i \in DOMAIN hunt.marks : hunt.marks[i] <= b
      BY <1>0 DEF Typed
    <3>2. hunt.marks \in Seq(Nat)
      BY <1>0 DEF Typed
    <3> DEFINE c == IF b < maxTUs THEN maxTUs ELSE b
    <3>3. c \in Nat /\ b <= c /\ maxTUs <= c
      BY <3>1
    <3>5. more \in Seq(Nat)
      BY <3>2
    <3> HIDE DEF c
    <3>4. ASSUME NEW i \in DOMAIN more PROVE more[i] <= c
      <4>1. CASE i = Len(hunt.marks) + 1
        BY <3>2, <3>3, <4>1
      <4>2. CASE i # Len(hunt.marks) + 1
        <5>1. i \in DOMAIN hunt.marks /\ more[i] = hunt.marks[i] /\ hunt.marks[i] \in Nat
          BY <3>2, <4>2
        <5>2. hunt.marks[i] <= b
          BY <3>1, <5>1
        <5> QED BY <3>1, <3>3, <5>1, <5>2
      <4> QED BY <4>1, <4>2
    <3> HIDE DEF more
    <3> QED BY <3>3, <3>4, <3>5
  <2> HIDE DEF more
  <2>3. Typed(hunt') /\ SameAnswers(hunt, hunt')
    BY <1>0, <2>1, <2>2, MarksTyped
  <2> QED BY <2>3, CaptureHolds
<1>6. CASE clearEventMarks
  <2>1. hunt' = [hunt EXCEPT !.marks = <<>>]
    BY <1>6 DEF clearEventMarks, Turns
  <2> DEFINE none == <<>>
  <2>3. none \in Seq(Nat) /\ \A i \in DOMAIN none : none[i] <= 0
    OBVIOUS
  <2>4. hunt' = [hunt EXCEPT !.marks = none]
    BY <2>1
  <2> HIDE DEF none
  <2>2. Typed(hunt') /\ SameAnswers(hunt, hunt')
    BY <1>0, <2>3, <2>4, MarksTyped
  <2> QED BY <2>2, CaptureHolds
<1>7. ASSUME NEW what \in {"trend", "A", "B"}, NEW led \in BOOLEAN, startWithWarmup(what, led)
      PROVE  HuntInv'
  <2> DEFINE turned == [hunt EXCEPT !.turns = @ + 1]
             led2 == [turned EXCEPT !.lead = what]
  <2>1. Typed(turned) /\ SameAnswers(hunt, turned)
    BY ZenonT(90), <1>0 DEF Typed, SameAnswers
  <2>2. hunt' = IF led THEN led2 ELSE Started(turned, what)
    BY <1>7 DEF startWithWarmup, Turns
  <2> HIDE DEF turned
  <2>3. Typed(led2) /\ SameAnswers(turned, led2)
    BY <2>1 DEF Typed, SameAnswers
  <2> HIDE DEF led2
  <2>4. Typed(Started(turned, what)) /\ SameAnswers(turned, Started(turned, what))
    BY <2>1, StartedTyped
  <2>5. Typed(hunt') /\ SameAnswers(hunt, hunt')
    BY <2>1, <2>2, <2>3, <2>4 DEF SameAnswers
  <2> QED BY <2>5, CaptureHolds
<1>8. ASSUME NEW mode \in Questions, setHuntMode(mode) PROVE HuntInv'
  <2> DEFINE t == IF mode = "trend" THEN hunt.trend ELSE NoCapture
             p == IF TwoWindow(hunt.mode) /\ ~TwoWindow(mode) THEN NoPair ELSE hunt.pair
  <2>1. hunt' = [hunt EXCEPT !.mode = mode, !.lead = Null, !.trend = t, !.pair = p]
    BY <1>8 DEF setHuntMode, Turns
  <2>2. /\ t \in [step : {"idle", "capturing", "review"}, from : Times, to : Times]
        /\ t.step = "capturing" => t.from \in Nat
    BY <1>0 DEF Typed, NoCapture, Times
  <2>3. /\ p \in [step : {"idleA", "capturingA", "idleB", "capturingB", "review"},
                  from : Times, a : Stretches \cup {Null}, b : Stretches \cup {Null}]
        /\ p.step \in {"capturingA", "capturingB"} => p.from \in Nat
    BY <1>0 DEF Typed, NoPair, Times
  <2> HIDE DEF t, p
  <2> DEFINE u == [hunt EXCEPT !.mode = mode, !.lead = Null]
             v == [u EXCEPT !.trend = t]
  <2>4. Typed(u) /\ SameAnswers(hunt, u)
    BY ZenonT(90), <1>0, <1>8 DEF Typed, SameAnswers
  <2>5. hunt' = [v EXCEPT !.pair = p]
    BY <2>1
  <2> HIDE DEF u
  <2>6. Typed(v) /\ SameAnswers(u, v)
    BY SMTT(60), <2>2, <2>4 DEF Typed, SameAnswers
  <2> HIDE DEF v
  <2>7. Typed(hunt') /\ SameAnswers(v, hunt')
    BY ZenonT(90), <2>3, <2>5, <2>6 DEF Typed, SameAnswers
  <2>8. SameAnswers(hunt, hunt')
    BY <2>4, <2>6, <2>7 DEF SameAnswers
  <2> QED BY <2>7, <2>8, CaptureHolds
<1> QED BY <1>1, <1>2, <1>3, <1>4, <1>5, <1>6, <1>7, <1>8

\* A capture that ends is asked about.
LEMMA StopNext == ASSUME HuntInv, maxTUs \in Nat, stopTrendCapture \/ stopCaptureB PROVE HuntInv'
<1>0. Typed(hunt) /\ Settled(hunt)
  BY DEF HuntInv
<1>1. ASSUME NEW ended, Typed(ended), SameAnswers(hunt, ended), hunt' = runAnalysis(ended)
      PROVE  HuntInv'
  <2>1. Settled(ended)
    BY <1>0, <1>1, CapturesSettle
  <2> QED BY <1>1, <2>1, ExperimentSettles DEF HuntInv
<1>2. CASE stopTrendCapture
  <2> DEFINE ended == [hunt EXCEPT !.trend.to = maxTUs, !.trend.step = "review",
                                   !.ramp = [from |-> hunt.trend.from, to |-> maxTUs]]
  <2>1. hunt' = runAnalysis(ended)
    BY <1>2 DEF stopTrendCapture, Turns
  <2>2. Typed(ended) /\ SameAnswers(hunt, ended)
    BY ZenonT(90), <1>0, <1>2 DEF Typed, SameAnswers, Times, stopTrendCapture
  <2> HIDE DEF ended
  <2> QED BY <1>1, <2>1, <2>2
<1>3. CASE stopCaptureB
  <2> DEFINE w == Span(hunt.pair.from, maxTUs)
             p == [hunt.pair EXCEPT !.step = "review", !.from = Null, !.b = w]
             ended == [hunt EXCEPT !.pair = p]
  <2>1. hunt' = runAnalysis(ended)
    BY <1>3 DEF stopCaptureB, Turns
  <2>2. w \in Stretches
    BY <1>0, <1>3, SpanStretches DEF Typed, stopCaptureB
  <2> HIDE DEF w
  <2>3. /\ p \in [step : {"idleA", "capturingA", "idleB", "capturingB", "review"},
                  from : Times, a : Stretches \cup {Null}, b : Stretches \cup {Null}]
        /\ p.step = "review"
    BY <1>0, <2>2 DEF Typed, Times
  <2> HIDE DEF p
  <2>4. Typed(ended) /\ SameAnswers(hunt, ended)
    BY <1>0, <2>3 DEF Typed, SameAnswers
  <2> HIDE DEF ended
  <2> QED BY <1>1, <2>1, <2>4
<1> QED BY <1>2, <1>3

\* Starting over discards the answer, and makes any that is on its way moot.
LEMMA RedoNext == ASSUME HuntInv, redoTrend \/ redoCmp PROVE HuntInv'
<1>0. Typed(hunt) /\ Settled(hunt)
  BY DEF HuntInv
<1>1. ASSUME NEW again, Typed(again), SameAnswers(hunt, again), hunt' = Discarded(again)
      PROVE  HuntInv'
  <2>1. Settled(again)
    BY <1>0, <1>1, CapturesSettle
  <2> QED BY <1>1, <2>1, DiscardSettles DEF HuntInv
<1>2. CASE redoTrend
  <2> DEFINE again == [hunt EXCEPT !.trend = NoCapture, !.ramp = [from |-> Null, to |-> Null]]
  <2>1. hunt' = Discarded(again)
    BY <1>2 DEF redoTrend, Turns
  <2>2. Typed(again) /\ SameAnswers(hunt, again)
    BY ZenonT(90), <1>0 DEF Typed, SameAnswers, Times, NoCapture
  <2> HIDE DEF again
  <2> QED BY <1>1, <2>1, <2>2
<1>3. CASE redoCmp
  <2> DEFINE again == [hunt EXCEPT !.pair = NoPair]
  <2>1. hunt' = Discarded(again)
    BY <1>3 DEF redoCmp, Turns
  <2>2. Typed(again) /\ SameAnswers(hunt, again)
    BY ZenonT(90), <1>0 DEF Typed, SameAnswers, Times, NoPair
  <2> HIDE DEF again
  <2> QED BY <1>1, <2>1, <2>2
<1> QED BY <1>2, <1>3

\* The marks of a run by hand, and of a guided series, are asked about.
LEMMA RunNext ==
  ASSUME HuntInv, maxTUs \in Nat,
         RunAnalysis \/ \E marks \in {<<>>, <<maxTUs>>} : finishGuided(marks)
  PROVE  HuntInv'
<1>0. Typed(hunt) /\ Settled(hunt)
  BY DEF HuntInv
<1>1. CASE RunAnalysis
  <2>1. hunt' = runAnalysis(hunt)
    BY <1>1 DEF RunAnalysis, Turns
  <2> QED BY <1>0, <2>1, ExperimentSettles DEF HuntInv
<1>2. ASSUME NEW marks \in {<<>>, <<maxTUs>>}, finishGuided(marks) PROVE HuntInv'
  <2> DEFINE marked == [hunt EXCEPT !.marks = marks]
  <2>1. marks \in Seq(Nat) /\ \A i \in DOMAIN marks : marks[i] <= maxTUs
    <3>1. CASE marks = <<>>
      BY <3>1
    <3>2. CASE marks = <<maxTUs>>
      BY <3>2
    <3> QED BY <1>2, <3>1, <3>2
  <2>2. Typed(marked) /\ SameAnswers(hunt, marked)
    BY ZenonT(90), <1>0, <2>1 DEF Typed, SameAnswers
  <2>3. hunt' = IF marks = <<>> THEN marked ELSE runAnalysis(marked)
    BY <1>2 DEF finishGuided, Turns
  <2> HIDE DEF marked
  <2>4. Settled(marked)
    BY <1>0, <2>2, CapturesSettle
  <2> QED BY <2>2, <2>3, <2>4, ExperimentSettles DEF HuntInv
<1> QED BY <1>1, <1>2

\* A scan, and another reference for the correlation, which is asked again.
LEMMA ScanNext ==
  ASSUME HuntInv, runScan \/ \E id : pickCorrReference(id) PROVE HuntInv'
<1>0. Typed(hunt) /\ Settled(hunt)
  BY DEF HuntInv
<1>1. CASE runScan
  <2> DEFINE q == [kind |-> "scanAll", reference |-> corrReference(hunt)]
  <2>1. hunt' = Asks(hunt, q)
    BY <1>1 DEF runScan, Turns
  <2>2. About(q) = "corr" /\ q.reference \in {Null, hunt.reference}
    BY DEF About, corrReference, Reference
  <2> HIDE DEF q
  <2> QED BY <1>0, <2>1, <2>2, ScanSettles DEF HuntInv
<1>2. ASSUME NEW id, pickCorrReference(id) PROVE HuntInv'
  <2> DEFINE picked == [hunt EXCEPT !.reference = id]
             q == [kind |-> "correlation", reference |-> id]
  <2>1. Typed(picked)
    BY <1>0 DEF Typed
  <2>2. /\ picked.asked = hunt.asked /\ picked.last = hunt.last /\ picked.shown = hunt.shown
        /\ picked.corr = hunt.corr /\ picked.reference = id /\ picked.moot = hunt.moot
        /\ picked.promoted = hunt.promoted
    BY <1>0 DEF Typed
  <2>3. CASE Reference(hunt, id) = Null \/ ~canRun
    <3> DEFINE m == IF Awaits(hunt.asked, "corr") THEN hunt.moot \cup {"corr"} ELSE hunt.moot
               g == [picked EXCEPT !.corr = Null, !.moot = m]
    <3>1. hunt' = [picked EXCEPT !.corr = Null,
                     !.moot = IF Pending(hunt, "corr") THEN @ \cup {"corr"} ELSE @]
      BY <1>2, <2>3 DEF pickCorrReference, Turns
    <3>2. hunt' = g
      BY <2>2, <3>1 DEF Pending, Awaits
    <3> HIDE DEF picked
    <3>3. Typed(g)
      BY <2>1 DEF Typed
    <3>4. /\ g.asked = hunt.asked /\ g.last = hunt.last /\ g.shown = hunt.shown /\ g.corr = Null
          /\ g.promoted = hunt.promoted /\ g.moot = m
      BY <2>1, <2>2 DEF Typed
    <3> HIDE DEF g
    <3>5. Settled(g)
      BY <1>0, <3>4 DEF Settled
    <3> QED BY <3>2, <3>3, <3>5 DEF HuntInv
  <2>4. CASE ~(Reference(hunt, id) = Null \/ ~canRun)
    <3>1. hunt' = Asks(picked, q)
      BY <1>2, <2>4 DEF pickCorrReference, Turns
    <3> DEFINE g == Asks(picked, q)
    <3>2. /\ g.asked = Append(hunt.asked, q) /\ g.moot = hunt.moot \ {"corr"}
          /\ g.last = hunt.last /\ g.shown = hunt.shown /\ g.corr = hunt.corr
          /\ g.reference = id /\ g.promoted = hunt.promoted
      BY <2>1, <2>2 DEF Asks, Typed, About
    <3>3. Typed(g)
      BY ZenonT(90), <2>1 DEF Asks, Typed
    <3>4. q.reference = id /\ About(q) = "corr"
      BY DEF About
    <3> HIDE DEF g, q
    <3>5. PICK S : hunt.asked \in Seq(S)
      BY <1>0 DEF Settled
    <3>6. g.asked \in Seq(S \cup {q}) /\ Adds(g.asked, hunt.asked, q)
      BY <3>2, <3>5 DEF Adds
    <3>7. Awaits(g.asked, "corr") /\ (Awaits(g.asked, "shown") <=> Awaits(hunt.asked, "shown"))
      BY <3>4, <3>6, AwaitsAppended
    <3>8. ASSUME NEW i, Newest(g.asked, "corr", i) PROVE g.asked[i] = q
      BY <3>4, <3>6, <3>8, NewestAppended
    <3>9. ASSUME NEW i, Newest(g.asked, "shown", i)
          PROVE  Newest(hunt.asked, "shown", i) /\ g.asked[i] = hunt.asked[i]
      BY <3>4, <3>6, <3>9, NewestAppended
    <3>10. Settled(g)
      BY <1>0, <3>2, <3>4, <3>6, <3>7, <3>8, <3>9 DEF Settled
    <3> QED BY <3>1, <3>3, <3>10 DEF HuntInv, g
  <2> QED BY <2>3, <2>4
<1> QED BY <1>1, <1>2

\* The first question is answered, or its answer is lost.
LEMMA AnswerNext == ASSUME HuntInv, TakesAnswer \/ AnswerIsLost PROVE HuntInv'
<1>0. Typed(hunt) /\ Settled(hunt) /\ hunt.asked # <<>>
  BY DEF HuntInv, TakesAnswer, AnswerIsLost
<1>1. CASE TakesAnswer
  <2> DEFINE g == Answered([hunt EXCEPT !.asked = Tail(@)], Head(hunt.asked))
  <2>1. hunt' = g
    BY <1>1 DEF TakesAnswer, Turns
  <2>2. Typed(g) /\ Settled(g)
    BY <1>0, AnswerSettles
  <2> HIDE DEF g
  <2> QED BY <2>1, <2>2 DEF HuntInv
<1>2. CASE AnswerIsLost
  <2> DEFINE l == [hunt EXCEPT !.asked = Tail(@), !.moot = @ \cup {About(Head(hunt.asked))}]
  <2>1. hunt' = l
    BY SMTT(60), <1>2 DEF AnswerIsLost, Turns
  <2>2. Typed(l) /\ Settled(l)
    BY <1>0, AnswerSettles
  <2> HIDE DEF l
  <2> QED BY <2>1, <2>2 DEF HuntInv
<1> QED BY <1>1, <1>2

\* A promotion adds to what was promoted of what is shown.
LEMMA PromotionNext == ASSUME HuntInv, PromotingStep PROVE HuntInv'
<1>0. Typed(hunt) /\ Settled(hunt)
  BY DEF HuntInv
<1>1. ASSUME NEW k, promote(k) PROVE HuntInv'
  <2>1. hunt' = [hunt EXCEPT !.promoted = @ \cup {k}] /\ hunt.shown # Null
    BY <1>1 DEF promote, Promotes
  <2>2. /\ Typed(hunt') /\ hunt'.asked = hunt.asked /\ hunt'.last = hunt.last
        /\ hunt'.shown = hunt.shown /\ hunt'.corr = hunt.corr
        /\ hunt'.reference = hunt.reference /\ hunt'.moot = hunt.moot
    BY ZenonT(90), <1>0, <2>1 DEF Typed
  <2>3. Settled(hunt')
    BY <1>0, <2>1, <2>2 DEF Settled
  <2> QED BY <2>2, <2>3 DEF HuntInv
<1>2. ASSUME NEW k, promoteSweep(k) \/ pickScanId(k) PROVE HuntInv'
  <2>1. hunt' = hunt
    BY <1>2 DEF promoteSweep, Promotes, pickScanId
  <2> QED BY <2>1, <1>0 DEF HuntInv
<1>3. ASSUME NEW k, promoteCorr(k) PROVE HuntInv'
  <2>1. hunt' = [hunt EXCEPT !.corrPromoted = @ \cup {k}]
    BY <1>3 DEF promoteCorr, Promotes
  <2>2. Typed(hunt') /\ SameAnswers(hunt, hunt')
    BY ZenonT(90), <1>0, <2>1 DEF Typed, SameAnswers
  <2> QED BY <2>2, CaptureHolds
<1> QED BY <1>1, <1>2, <1>3 DEF PromotingStep

\* Whatever happens on the page, answers settle.
LEMMA HuntNext == HuntInv /\ ClockInv /\ [Next]_vars => HuntInv'
<1> SUFFICES ASSUME HuntInv, ClockInv, [Next]_vars PROVE HuntInv'
  OBVIOUS
<1>0. maxTUs \in Nat
  BY DEF ClockInv
<1>1. CASE PanelFollows
  <2>1. hunt' = hunt \/ hunt' = IdlePanel
    BY <1>1 DEF PanelFollows
  <2> QED BY <2>1, IdleHolds DEF HuntInv
<1>2. CASE UNCHANGED hunt
  BY <1>2 DEF HuntInv
<1>3. CASE HuntStep
  BY <1>0, <1>3, CaptureNext, StopNext, RedoNext, RunNext, ScanNext, AnswerNext DEF HuntStep
<1>4. CASE PromotingStep
  BY <1>4, PromotionNext
<1> QED BY <1>1, <1>2, <1>3, <1>4 DEF Next, vars

\* Whatever the order of captures, questions, discards and answers, lost ones included: an
\* experiment is asked about a window that holds its marks, and once nothing is under way the
\* candidates listed answer the experiment asked last, and the correlation is with the signal
\* that is picked.
THEOREM AnswersAlwaysSettle == Spec => []AnswersSettle
<1>1. Init => LinkInv /\ ClockInv /\ HuntInv
  BY LinkFirst, ClockFirst, IdleHolds DEF Init, HuntInv
<1>2. LinkInv /\ ClockInv /\ HuntInv /\ [Next]_vars => LinkInv' /\ ClockInv' /\ HuntInv'
  BY LinkNext, ClockNext, HuntNext
<1>3. HuntInv => AnswersSettle
  BY SettledAnswers
<1> QED BY <1>1, <1>2, <1>3, PTL DEF Spec

-----------------------------------------------------------------------------
(* The shape of a project, part by part.                                   *)

\* The signals of a frame; N are ids to come.
SignalsFit(sigs, N) ==
  /\ \A s \in sigs : s \in [id : {s.id}, at : {s.at}, isMultiplexor : BOOLEAN, under : {s.under}]
  /\ \A s, t \in sigs : s.id = t.id => s = t
  /\ \A s, t \in sigs : s.isMultiplexor /\ t.isMultiplexor => s = t
  /\ \A s \in sigs : s.id \notin N

DefFits(def, N) ==
  /\ def \in [named : BOOLEAN, signals : {def.signals}, auto : BOOLEAN]
  /\ SignalsFit(def.signals, N)

ViewFits(view) ==
  view \in [locked : BOOLEAN, filter : {view.filter}, members : {view.members},
            formula : {view.formula}]

ViewsFit(views, N) ==
  /\ \A v \in DOMAIN views : ViewFits(views[v]) /\ v \notin N
  /\ \E v \in DOMAIN views : /\ {w \in DOMAIN views : views[w].locked} = {v}
                             /\ views[v].members = {}

Record(p) ==
  p \in [frames : {p.frames}, frameFormulas : {p.frameFormulas},
         derivedSignals : {p.derivedSignals}, messageNames : {p.messageNames},
         views : {p.views}, scenarios : {p.scenarios}, findings : {p.findings},
         fieldRuns : {p.fieldRuns}]

FramesFit(frames, N) == \A k \in DOMAIN frames : DefFits(frames[k], N)

Fits(p, N) == Record(p) /\ FramesFit(p.frames, N) /\ ViewsFit(p.views, N)

\* What was to come still is, or has come.
LEMMA FitsLess ==
  ASSUME NEW p, NEW N, Fits(p, N), NEW M \in SUBSET N PROVE Fits(p, M)
BY DEF Fits, FramesFit, DefFits, SignalsFit, ViewsFit

\* A project of that shape is sound.
LEMMA FitsSound ==
  ASSUME NEW p, NEW N, Fits(p, N) PROVE OneMultiplexor(p) /\ OneCanonical(p)
BY DEF Fits, FramesFit, DefFits, SignalsFit, ViewsFit, OneMultiplexor, OneCanonical, Locked

-----------------------------------------------------------------------------
(* Edits of the signals of a frame.                                        *)

\* A signal with an id of its own is added, the multiplexor only to a frame without.
LEMMA SignalAdded ==
  ASSUME NEW sigs, NEW N, SignalsFit(sigs, N), NEW id \in N, NEW byte, NEW selects \in BOOLEAN,
         selects => \A s \in sigs : ~s.isMultiplexor
  PROVE  SignalsFit(sigs \cup {MakeSignal(id, byte, selects)}, N \ {id})
<1> DEFINE new == MakeSignal(id, byte, selects)
<1>1. /\ new.id = id /\ new.isMultiplexor = selects
      /\ new \in [id : {new.id}, at : {new.at}, isMultiplexor : BOOLEAN, under : {new.under}]
  BY DEF MakeSignal
<1> HIDE DEF new
<1>2. \A s \in sigs : s.id # id
  BY DEF SignalsFit
<1> DEFINE all == sigs \cup {new}
<1>3. \A s \in all : s \in sigs \/ s = new
  OBVIOUS
<1> HIDE DEF all
<1>4. \A s \in all : s \in [id : {s.id}, at : {s.at}, isMultiplexor : BOOLEAN, under : {s.under}]
  BY <1>1, <1>3 DEF SignalsFit
<1>5. \A s, t \in all : s.id = t.id => s = t
  BY <1>1, <1>2, <1>3 DEF SignalsFit
<1>6. \A s, t \in all : s.isMultiplexor /\ t.isMultiplexor => s = t
  BY <1>1, <1>3 DEF SignalsFit
<1>7. \A s \in all : s.id \notin N \ {id}
  BY <1>1, <1>3 DEF SignalsFit
<1>8. SignalsFit(all, N \ {id})
  BY <1>4, <1>5, <1>6, <1>7 DEF SignalsFit
<1> QED BY <1>8 DEF all, new

\* Signals that each come of one, with its id and at most its tick.
LEMMA SignalsCome ==
  ASSUME NEW sigs, NEW N, SignalsFit(sigs, N), NEW f, NEW new,
         \A u \in new : \E t \in sigs :
           /\ u = f[t] /\ u.id = t.id /\ (u.isMultiplexor => t.isMultiplexor)
           /\ u \in [id : {u.id}, at : {u.at}, isMultiplexor : BOOLEAN, under : {u.under}]
  PROVE  SignalsFit(new, N)
<1>1. \A s, t \in new : s.id = t.id => s = t
  <2> SUFFICES ASSUME NEW s \in new, NEW t \in new, s.id = t.id PROVE s = t
    OBVIOUS
  <2>1. PICK a \in sigs : s = f[a] /\ s.id = a.id
    OBVIOUS
  <2>2. PICK b \in sigs : t = f[b] /\ t.id = b.id
    OBVIOUS
  <2>3. a = b
    BY <2>1, <2>2 DEF SignalsFit
  <2> QED BY <2>1, <2>2, <2>3
<1>2. \A s, t \in new : s.isMultiplexor /\ t.isMultiplexor => s = t
  <2> SUFFICES ASSUME NEW s \in new, NEW t \in new, s.isMultiplexor, t.isMultiplexor PROVE s = t
    OBVIOUS
  <2>1. PICK a \in sigs : s = f[a] /\ a.isMultiplexor
    OBVIOUS
  <2>2. PICK b \in sigs : t = f[b] /\ b.isMultiplexor
    OBVIOUS
  <2>3. a = b
    BY <2>1, <2>2 DEF SignalsFit
  <2> QED BY <2>1, <2>2, <2>3
<1>3. \A s \in new : s.id \notin N
  BY DEF SignalsFit
<1>4. \A s \in new : s \in [id : {s.id}, at : {s.at}, isMultiplexor : BOOLEAN, under : {s.under}]
  OBVIOUS
<1> QED BY <1>1, <1>2, <1>3, <1>4 DEF SignalsFit

\* A signal is replaced by one with its id and its tick.
LEMMA SignalUpdated ==
  ASSUME NEW sigs, NEW N, SignalsFit(sigs, N), NEW s \in sigs, NEW sig,
         sig.id = s.id, sig.isMultiplexor = s.isMultiplexor,
         sig \in [id : {sig.id}, at : {sig.at}, isMultiplexor : BOOLEAN, under : {sig.under}],
         NEW new, \A u \in new : \E t \in sigs : u = IF t.id = sig.id THEN sig ELSE t
  PROVE  SignalsFit(new, N)
<1> DEFINE f == [t \in sigs |-> IF t.id = sig.id THEN sig ELSE t]
<1>2. \A u \in new : \E t \in sigs : u = f[t] /\ u = IF t.id = sig.id THEN sig ELSE t
  OBVIOUS
<1> HIDE DEF f
<1>3. \A t \in sigs :
        /\ t \in [id : {t.id}, at : {t.at}, isMultiplexor : BOOLEAN, under : {t.under}]
        /\ t.id = sig.id => t = s
  BY DEF SignalsFit
<1>4. \A u \in new : \E t \in sigs :
        /\ u = f[t] /\ u.id = t.id /\ (u.isMultiplexor => t.isMultiplexor)
        /\ u \in [id : {u.id}, at : {u.at}, isMultiplexor : BOOLEAN, under : {u.under}]
  <2> SUFFICES ASSUME NEW u \in new
               PROVE  \E t \in sigs :
        /\ u = f[t] /\ u.id = t.id /\ (u.isMultiplexor => t.isMultiplexor)
        /\ u \in [id : {u.id}, at : {u.at}, isMultiplexor : BOOLEAN, under : {u.under}]
    OBVIOUS
  <2>1. PICK t \in sigs : u = f[t] /\ u = IF t.id = sig.id THEN sig ELSE t
    BY <1>2
  <2>2. CASE t.id = sig.id
    BY <1>3, <2>1, <2>2
  <2>3. CASE t.id # sig.id
    BY <1>3, <2>1, <2>3
  <2> QED BY <2>2, <2>3
<1> QED BY <1>4, SignalsCome

\* Ticks: the one chosen, or none.
LEMMA SignalsTicked ==
  ASSUME NEW sigs, NEW N, SignalsFit(sigs, N), NEW id
  PROVE  SignalsFit({Selects(s, id) : s \in sigs}, N)
<1> DEFINE new == {Selects(s, id) : s \in sigs}
<1>1. \A u \in new : \E t \in sigs :
        /\ u = Selects(t, id) /\ u.id = t.id /\ u.isMultiplexor = (t.id = id)
        /\ u \in [id : {u.id}, at : {u.at}, isMultiplexor : BOOLEAN, under : {u.under}]
  <2> SUFFICES ASSUME NEW u \in new
               PROVE  \E t \in sigs :
                 /\ u = Selects(t, id) /\ u.id = t.id /\ u.isMultiplexor = (t.id = id)
                 /\ u \in [id : {u.id}, at : {u.at}, isMultiplexor : BOOLEAN, under : {u.under}]
    OBVIOUS
  <2>1. PICK t \in sigs : u = Selects(t, id)
    OBVIOUS
  <2> HIDE DEF new
  <2>2. /\ u.id = t.id /\ u.isMultiplexor = (t.id = id)
        /\ u \in [id : {u.id}, at : {u.at}, isMultiplexor : BOOLEAN, under : {u.under}]
    BY <2>1 DEF SignalsFit, Selects
  <2> QED BY <2>1, <2>2
<1> HIDE DEF new
<1>2. SignalsFit(new, N)
  BY <1>1 DEF SignalsFit
<1> QED BY <1>2 DEF new

\* A signal is taken away.
LEMMA SignalRemoved ==
  ASSUME NEW sigs, NEW N, SignalsFit(sigs, N), NEW id
  PROVE  SignalsFit({s \in sigs : s.id # id}, N)
BY DEF SignalsFit

\* No signal stays the multiplexor, or only one at the byte that is forced.
LEMMA SignalsDemoted ==
  ASSUME NEW sigs, NEW N, SignalsFit(sigs, N), NEW byte
  PROVE  SignalsFit(Forced(sigs, byte), N) /\ SignalsFit(Plain(sigs), N)
<1> DEFINE f == [t \in sigs |-> [t EXCEPT !.isMultiplexor = @ /\ t.at = byte]]
           g == [t \in sigs |-> [t EXCEPT !.isMultiplexor = FALSE]]
           forced == {[s EXCEPT !.isMultiplexor = @ /\ s.at = byte] : s \in sigs}
           plain == {[s EXCEPT !.isMultiplexor = FALSE] : s \in sigs}
<1>1. ASSUME NEW t \in sigs, NEW b \in BOOLEAN, b => t.isMultiplexor
      PROVE  LET u == [t EXCEPT !.isMultiplexor = b]
             IN  /\ u.id = t.id /\ (u.isMultiplexor => t.isMultiplexor)
                 /\ u \in [id : {u.id}, at : {u.at}, isMultiplexor : BOOLEAN, under : {u.under}]
  BY <1>1 DEF SignalsFit
<1>2. \A u \in forced : \E t \in sigs :
        /\ u = f[t] /\ u.id = t.id /\ (u.isMultiplexor => t.isMultiplexor)
        /\ u \in [id : {u.id}, at : {u.at}, isMultiplexor : BOOLEAN, under : {u.under}]
  <2> SUFFICES ASSUME NEW u \in forced
               PROVE  \E t \in sigs :
        /\ u = f[t] /\ u.id = t.id /\ (u.isMultiplexor => t.isMultiplexor)
        /\ u \in [id : {u.id}, at : {u.at}, isMultiplexor : BOOLEAN, under : {u.under}]
    OBVIOUS
  <2>1. PICK t \in sigs : u = [t EXCEPT !.isMultiplexor = @ /\ t.at = byte] /\ u = f[t]
    OBVIOUS
  <2> DEFINE b == t.isMultiplexor /\ t.at = byte
  <2>2. u = [t EXCEPT !.isMultiplexor = b] /\ b \in BOOLEAN /\ (b => t.isMultiplexor)
    BY <2>1 DEF SignalsFit
  <2> HIDE DEF b, f, forced
  <2> QED BY ZenonT(90), <1>1, <2>1, <2>2
<1>3. \A u \in plain : \E t \in sigs :
        /\ u = g[t] /\ u.id = t.id /\ (u.isMultiplexor => t.isMultiplexor)
        /\ u \in [id : {u.id}, at : {u.at}, isMultiplexor : BOOLEAN, under : {u.under}]
  <2> SUFFICES ASSUME NEW u \in plain
               PROVE  \E t \in sigs :
        /\ u = g[t] /\ u.id = t.id /\ (u.isMultiplexor => t.isMultiplexor)
        /\ u \in [id : {u.id}, at : {u.at}, isMultiplexor : BOOLEAN, under : {u.under}]
    OBVIOUS
  <2>1. PICK t \in sigs : u = [t EXCEPT !.isMultiplexor = FALSE] /\ u = g[t]
    OBVIOUS
  <2> HIDE DEF g, plain
  <2> QED BY ZenonT(90), <1>1, <2>1
<1> HIDE DEF f, g, forced, plain
<1>4. SignalsFit(forced, N) /\ SignalsFit(plain, N)
  BY <1>2, <1>3, SignalsCome
<1> QED BY <1>4 DEF forced, plain, Forced, Plain

\* The multiplexor is moved to a byte.
LEMMA SignalMoved ==
  ASSUME NEW sigs, NEW N, SignalsFit(sigs, N), NEW mux \in sigs, NEW byte
  PROVE  SignalsFit(Moved(sigs, mux, byte), N)
<1> DEFINE new == {IF s = mux THEN [s EXCEPT !.at = byte] ELSE s : s \in sigs}
           moved == [mux EXCEPT !.at = byte]
           f == [s \in sigs |-> IF s = mux THEN moved ELSE s]
<1>1. /\ moved.id = mux.id /\ moved.isMultiplexor = mux.isMultiplexor
      /\ moved \in [id : {moved.id}, at : {moved.at}, isMultiplexor : BOOLEAN,
                    under : {moved.under}]
  BY DEF SignalsFit
<1>2. \A u \in new : \E t \in sigs : u = f[t] /\ u = IF t = mux THEN moved ELSE t
  OBVIOUS
<1> HIDE DEF new, moved, f
<1>3. \A t \in sigs : t \in [id : {t.id}, at : {t.at}, isMultiplexor : BOOLEAN, under : {t.under}]
  BY DEF SignalsFit
<1>4. \A u \in new : \E t \in sigs :
        /\ u = f[t] /\ u.id = t.id /\ (u.isMultiplexor => t.isMultiplexor)
        /\ u \in [id : {u.id}, at : {u.at}, isMultiplexor : BOOLEAN, under : {u.under}]
  BY <1>1, <1>2, <1>3
<1>5. SignalsFit(new, N)
  BY <1>4, SignalsCome
<1> QED BY <1>5 DEF new, Moved

-----------------------------------------------------------------------------
(* Edits of the project.                                                   *)

\* An edit that leaves the tabs alone.
Suits(p, q, N) == Fits(q, N) /\ q.views = p.views

\* A frame is given a definition.
LEMMA DefGiven ==
  ASSUME NEW p, NEW N, Fits(p, N), NEW M \in SUBSET N, NEW k, NEW def, DefFits(def, M)
  PROVE  Suits(p, WithDef(p, k, def), M)
<1> DEFINE frames == [x \in {k} \cup DOMAIN p.frames |-> IF x = k THEN def ELSE p.frames[x]]
           q == [p EXCEPT !.frames = frames]
<1>1. WithDef(p, k, def) = q
  BY DEF WithDef, Put
<1>2. DOMAIN frames = {k} \cup DOMAIN p.frames
      /\ \A x \in DOMAIN frames : frames[x] = IF x = k THEN def ELSE p.frames[x]
  OBVIOUS
<1> HIDE DEF frames
<1>3. Record(q) /\ q.frames = frames /\ q.views = p.views
  BY DEF Fits, Record
<1> HIDE DEF q
<1>4. FramesFit(p.frames, M) /\ ViewsFit(p.views, M)
  BY FitsLess DEF Fits
<1>5. FramesFit(frames, M)
  BY <1>2, <1>4 DEF FramesFit
<1> QED BY <1>1, <1>3, <1>4, <1>5 DEF Suits, Fits

\* What a frame has, or is given.
LEMMA DefHad ==
  ASSUME NEW p, NEW N, Fits(p, N), NEW k PROVE DefFits(DefOf(p, k), N)
BY DEF Fits, FramesFit, DefFits, SignalsFit, DefOf, Defined, NewDef

\* The signals of a frame are replaced.
LEMMA SignalsGiven ==
  ASSUME NEW p, NEW N, Fits(p, N), NEW k \in DOMAIN p.frames, NEW sigs, SignalsFit(sigs, N)
  PROVE  Suits(p, [p EXCEPT !.frames[k].signals = sigs], N)
<1> DEFINE def == [p.frames[k] EXCEPT !.signals = sigs]
           frames == [p.frames EXCEPT ![k] = def]
           q == [p EXCEPT !.frames = frames]
<1>1. [p EXCEPT !.frames[k].signals = sigs] = q
  OBVIOUS
<1>2. DefFits(def, N)
  BY DEF Fits, FramesFit, DefFits
<1> HIDE DEF def
<1>3. DOMAIN frames = DOMAIN p.frames
      /\ \A x \in DOMAIN frames : frames[x] = IF x = k THEN def ELSE p.frames[x]
  OBVIOUS
<1> HIDE DEF frames
<1>4. Record(q) /\ q.frames = frames /\ q.views = p.views
  BY DEF Fits, Record
<1> HIDE DEF q
<1>5. FramesFit(frames, N)
  BY <1>2, <1>3 DEF FramesFit, Fits
<1> QED BY <1>1, <1>4, <1>5 DEF Suits, Fits

\* A frame is named, or loses its name.
LEMMA Renamed ==
  ASSUME NEW p, NEW N, Fits(p, N), NEW k, NEW named \in BOOLEAN
  PROVE  Suits(p, renameFrame(p, k, named), N)
<1> DEFINE def == [DefOf(p, k) EXCEPT !.named = named]
<1>1. DefFits(def, N)
  BY DefHad DEF DefFits
<1> HIDE DEF def
<1>2. Suits(p, WithDef(p, k, def), N)
  BY <1>1, DefGiven
<1> QED BY <1>2 DEF renameFrame, def

\* A new signal comes with a new id.
LEMMA SignalNew ==
  ASSUME NEW p, NEW N, Fits(p, N), NEW k, NEW id \in N, NEW byte
  PROVE  Suits(p, addSignal(p, k, MakeSignal(id, byte, FALSE)), N \ {id})
<1> DEFINE had == DefOf(p, k)
           sigs == had.signals \cup {MakeSignal(id, byte, FALSE)}
           def == [had EXCEPT !.signals = sigs]
<1>1. DefFits(had, N)
  BY DefHad
<1> HIDE DEF had
<1>2. SignalsFit(sigs, N \ {id})
  BY <1>1, SignalAdded DEF DefFits
<1>3. [had EXCEPT !.signals = @ \cup {MakeSignal(id, byte, FALSE)}] = def
  BY <1>1 DEF DefFits
<1> HIDE DEF sigs
<1>4. DefFits(def, N \ {id})
  BY <1>1, <1>2 DEF DefFits
<1> HIDE DEF def
<1>5. Suits(p, WithDef(p, k, def), N \ {id})
  BY <1>4, DefGiven
<1> QED BY <1>3, <1>5 DEF addSignal, had

\* The editors of a signal: its place, its tick, and its end.
LEMMA SignalEdited ==
  ASSUME NEW p, NEW N, Fits(p, N), NEW k \in DOMAIN p.frames, NEW s \in p.frames[k].signals
  PROVE  /\ \A byte, under :
              Suits(p, updateSignal(p, k, [s EXCEPT !.at = byte, !.under = under]), N)
         /\ \A id : Suits(p, setMultiplexor(p, k, id), N)
         /\ \A id : Suits(p, removeSignal(p, k, id), N)
<1> DEFINE old == p.frames[k].signals
<1>0. SignalsFit(old, N)
  BY DEF Fits, FramesFit, DefFits
<1>1. ASSUME NEW byte, NEW under
      PROVE  Suits(p, updateSignal(p, k, [s EXCEPT !.at = byte, !.under = under]), N)
  <2> DEFINE sig == [s EXCEPT !.at = byte, !.under = under]
             sigs == {IF t.id = sig.id THEN sig ELSE t : t \in old}
  <2>1. SignalsFit(sigs, N)
    <3>1. s \in old /\ \A u \in sigs : \E t \in old : u = IF t.id = sig.id THEN sig ELSE t
      OBVIOUS
    <3> HIDE DEF old, sigs
    <3>2. /\ sig.id = s.id /\ sig.isMultiplexor = s.isMultiplexor
          /\ sig \in [id : {sig.id}, at : {sig.at}, isMultiplexor : BOOLEAN, under : {sig.under}]
      BY ZenonT(90), <1>0, <3>1 DEF SignalsFit
    <3> HIDE DEF sig
    <3> QED BY <1>0, <3>1, <3>2, SignalUpdated
  <2>2. updateSignal(p, k, sig) = [p EXCEPT !.frames[k].signals = sigs]
    BY DEF updateSignal, OnSignals, Defined
  <2> HIDE DEF sigs, sig
  <2>3. Suits(p, updateSignal(p, k, sig), N)
    BY <2>1, <2>2, SignalsGiven
  <2> QED BY <2>3 DEF sig
<1>2. ASSUME NEW id PROVE Suits(p, setMultiplexor(p, k, id), N)
  <2> DEFINE sigs == {Selects(t, id) : t \in old}
  <2>1. SignalsFit(sigs, N)
    BY <1>0, SignalsTicked
  <2>2. setMultiplexor(p, k, id) = [p EXCEPT !.frames[k].signals = sigs]
    BY DEF setMultiplexor, OnSignals, Defined
  <2> HIDE DEF sigs
  <2> QED BY <2>1, <2>2, SignalsGiven
<1>3. ASSUME NEW id PROVE Suits(p, removeSignal(p, k, id), N)
  <2> DEFINE sigs == {t \in old : t.id # id}
  <2>1. SignalsFit(sigs, N)
    BY <1>0, SignalRemoved
  <2>2. removeSignal(p, k, id) = [p EXCEPT !.frames[k].signals = sigs]
    BY DEF removeSignal, OnSignals, Defined
  <2> HIDE DEF sigs
  <2> QED BY <2>1, <2>2, SignalsGiven
<1> QED BY <1>1, <1>2, <1>3

\* A frame without a multiplexor is given one that is new, or the one it has is moved; and then
\* all others lose their tick.
LEMMA ModeSet ==
  ASSUME NEW p, NEW N, Fits(p, N), NEW k, NEW mode, NEW byte, NEW id \in N
  PROVE  Suits(p, setMessageIdMode(p, k, mode, byte, id), N \ {id})
<1> DEFINE had == DefOf(p, k)
           M == N \ {id}
           old == had.signals
           mux == multiplexorSignal(had)
           first == old \cup {MakeSignal(id, byte, TRUE)}
           there == Moved(old, mux, byte)
           moved == IF HasMultiplexor(had) THEN there ELSE first
           forced == Forced(moved, byte)
           plain == Plain(old)
           sigs == IF mode = "forced" THEN forced ELSE plain
           auto == mode # "none"
           def == [had EXCEPT !.signals = sigs, !.auto = auto]
<1>1. DefFits(had, N) /\ SignalsFit(old, N)
  BY DefHad DEF DefFits
<1>2. DefFits(had, M) /\ SignalsFit(old, M)
  BY <1>1 DEF DefFits, SignalsFit
<1>3. setMessageIdMode(p, k, mode, byte, id) = WithDef(p, k, def)
  BY DEF setMessageIdMode
<1>4. ASSUME ~HasMultiplexor(had) PROVE SignalsFit(first, M)
  <2>1. \A s \in old : ~s.isMultiplexor
    BY <1>4 DEF HasMultiplexor
  <2> HIDE DEF had, old, M
  <2>2. SignalsFit(old \cup {MakeSignal(id, byte, TRUE)}, N \ {id})
    BY <1>1, <2>1, SignalAdded
  <2> QED BY <2>2 DEF M
<1>5. ASSUME HasMultiplexor(had) PROVE SignalsFit(there, M)
  <2>1. mux \in old
    BY <1>5 DEF HasMultiplexor, multiplexorSignal
  <2> HIDE DEF mux, old, M
  <2> QED BY <1>2, <2>1, SignalMoved
<1>6. SignalsFit(moved, M)
  <2> HIDE DEF first, there, M
  <2> QED BY <1>4, <1>5
<1> HIDE DEF moved
<1>7. SignalsFit(forced, M) /\ SignalsFit(plain, M)
  <2> HIDE DEF old, M
  <2> QED BY <1>2, <1>6, SignalsDemoted
<1>8. SignalsFit(sigs, M) /\ auto \in BOOLEAN
  <2> HIDE DEF forced, plain, M
  <2> QED BY <1>7
<1> HIDE DEF sigs, auto, had, old
<1>9. DefFits(def, M)
  BY <1>2, <1>8 DEF DefFits
<1> HIDE DEF def
<1>10. M \in SUBSET N
  OBVIOUS
<1> HIDE DEF M
<1>11. Suits(p, WithDef(p, k, def), M)
  BY <1>9, <1>10, DefGiven
<1> QED BY <1>3, <1>11 DEF M

\* An edit of anything but frames and tabs.
LEMMA OtherEdited ==
  ASSUME NEW p, NEW N, Fits(p, N), NEW q, Record(q), q.frames = p.frames, q.views = p.views
  PROVE  Suits(p, q, N)
BY DEF Fits, Suits

\* The edits of that kind.
LEMMA OtherEdits ==
  ASSUME NEW p, NEW N, Fits(p, N), NEW x
  PROVE  /\ \A k : /\ Suits(p, setFrameFormula(p, k, x), N)
                   /\ Suits(p, addDerivedSignal(p, k, x), N)
                   /\ Suits(p, removeDerivedSignal(p, k, x), N)
         /\ \A named : Suits(p, setMessageName(p, x, named), N)
         /\ Suits(p, [p EXCEPT !.scenarios = x], N)
         /\ Suits(p, [p EXCEPT !.findings = x], N)
         /\ Suits(p, [p EXCEPT !.fieldRuns = x], N)
<1>0. Record(p)
  BY DEF Fits
<1>1. ASSUME NEW y
      PROVE  LET q == [p EXCEPT !.frameFormulas = y]
             IN  Record(q) /\ q.frames = p.frames /\ q.views = p.views
  BY <1>0 DEF Record
<1>2. ASSUME NEW y
      PROVE  LET q == [p EXCEPT !.derivedSignals = y]
             IN  Record(q) /\ q.frames = p.frames /\ q.views = p.views
  BY <1>0 DEF Record
<1>3. ASSUME NEW y
      PROVE  LET q == [p EXCEPT !.messageNames = y]
             IN  Record(q) /\ q.frames = p.frames /\ q.views = p.views
  BY <1>0 DEF Record
<1>4. LET q == [p EXCEPT !.scenarios = x]
      IN  Record(q) /\ q.frames = p.frames /\ q.views = p.views
  BY <1>0 DEF Record
<1>5. LET q == [p EXCEPT !.findings = x]
      IN  Record(q) /\ q.frames = p.frames /\ q.views = p.views
  BY <1>0 DEF Record
<1>6. LET q == [p EXCEPT !.fieldRuns = x]
      IN  Record(q) /\ q.frames = p.frames /\ q.views = p.views
  BY <1>0 DEF Record
<1>7. ASSUME NEW y
      PROVE  /\ Suits(p, [p EXCEPT !.frameFormulas = y], N)
             /\ Suits(p, [p EXCEPT !.derivedSignals = y], N)
             /\ Suits(p, [p EXCEPT !.messageNames = y], N)
  BY <1>1, <1>2, <1>3, OtherEdited
<1>8. /\ Suits(p, [p EXCEPT !.scenarios = x], N)
      /\ Suits(p, [p EXCEPT !.findings = x], N)
      /\ Suits(p, [p EXCEPT !.fieldRuns = x], N)
  BY <1>4, <1>5, <1>6, OtherEdited
<1>9. ASSUME NEW k
      PROVE  /\ Suits(p, setFrameFormula(p, k, x), N)
             /\ Suits(p, addDerivedSignal(p, k, x), N)
             /\ Suits(p, removeDerivedSignal(p, k, x), N)
  <2>1. setFrameFormula(p, k, x) = [p EXCEPT !.frameFormulas = Put(p.frameFormulas, k, x)]
    BY DEF setFrameFormula
  <2>2. addDerivedSignal(p, k, x)
          = [p EXCEPT !.derivedSignals = [p.derivedSignals EXCEPT ![k] = Append(@, x)]]
    BY DEF addDerivedSignal
  <2>3. removeDerivedSignal(p, k, x)
          = [p EXCEPT !.derivedSignals = [p.derivedSignals EXCEPT ![k] = SelectSeq(@, LAMBDA d : d # x)]]
    BY DEF removeDerivedSignal
  <2> QED BY ZenonT(90), <1>7, <2>1, <2>2, <2>3
<1>10. ASSUME NEW named PROVE Suits(p, setMessageName(p, x, named), N)
  <2>1. setMessageName(p, x, named)
          = [p EXCEPT !.messageNames = IF named THEN @ \cup {x} ELSE @ \ {x}]
    BY DEF setMessageName
  <2> QED BY <1>7, <2>1
<1> QED BY <1>8, <1>9, <1>10

-----------------------------------------------------------------------------
(* Edits of the tabs.                                                      *)

\* An edit that closes no tab.
Leaves(p, q, N) == Fits(q, N) /\ DOMAIN p.views \subseteq DOMAIN q.views

\* One that leaves the tabs alone closes none.
LEMMA SuitsLeaves == ASSUME NEW p, NEW N, NEW q, Suits(p, q, N) PROVE Leaves(p, q, N)
BY DEF Suits, Leaves

\* The tabs are replaced.
LEMMA ViewsGiven ==
  ASSUME NEW p, NEW N, Fits(p, N), NEW M \in SUBSET N, NEW views, ViewsFit(views, M)
  PROVE  LET q == [p EXCEPT !.views = views] IN Fits(q, M) /\ q.views = views
<1> DEFINE q == [p EXCEPT !.views = views]
<1>1. Record(q) /\ q.views = views /\ q.frames = p.frames
  BY DEF Fits, Record
<1> HIDE DEF q
<1>2. FramesFit(p.frames, M)
  BY FitsLess DEF Fits
<1>3. Fits(q, M)
  BY <1>1, <1>2 DEF Fits
<1> QED BY <1>1, <1>3 DEF q

\* One tab is edited; the canonical one keeps its members.
LEMMA ViewEdited ==
  ASSUME NEW p, NEW N, Fits(p, N), NEW v \in DOMAIN p.views, NEW view, ViewFits(view),
         view.locked = p.views[v].locked, view.locked => view.members = p.views[v].members
  PROVE  Leaves(p, [p EXCEPT !.views[v] = view], N)
<1> DEFINE views == [p.views EXCEPT ![v] = view]
<1>1. DOMAIN views = DOMAIN p.views
      /\ \A w \in DOMAIN views : views[w] = IF w = v THEN view ELSE p.views[w]
  OBVIOUS
<1>2. [p EXCEPT !.views[v] = view] = [p EXCEPT !.views = views]
  OBVIOUS
<1> HIDE DEF views
<1>3. \A w \in DOMAIN views : ViewFits(views[w]) /\ w \notin N
  BY <1>1 DEF Fits, ViewsFit
<1>4. \A w \in DOMAIN views : views[w].locked = p.views[w].locked
  BY <1>1
<1>5. {w \in DOMAIN views : views[w].locked} = {w \in DOMAIN p.views : p.views[w].locked}
  BY <1>1, <1>4
<1>6. PICK c \in DOMAIN p.views : /\ {w \in DOMAIN p.views : p.views[w].locked} = {c}
                                  /\ p.views[c].members = {}
  BY DEF Fits, ViewsFit
<1>7. views[c].members = {}
  BY <1>1, <1>6
<1>8. ViewsFit(views, N)
  BY <1>1, <1>3, <1>5, <1>6, <1>7 DEF ViewsFit
<1>9. Fits([p EXCEPT !.views = views], N) /\ [p EXCEPT !.views = views].views = views
  BY <1>8, ViewsGiven
<1> QED BY <1>1, <1>2, <1>9 DEF Leaves

\* Nothing is edited.
LEMMA SameLeaves == ASSUME NEW p, NEW N, Fits(p, N) PROVE Leaves(p, p, N)
BY DEF Leaves

\* Members of a tab that is not the canonical one come and go.
LEMMA MembersEdited ==
  ASSUME NEW p, NEW N, Fits(p, N), NEW v, NEW members
  PROVE  /\ \A in : Leaves(p, setFramesInView(p, v, members, in), N)
         /\ Leaves(p, clearViewMembers(p, v), N)
         /\ Leaves(p, tagAllVisible(p, v, members), N)
<1> DEFINE old == p.views[v]
           new(m) == IF old.locked THEN old ELSE [old EXCEPT !.members = m]
           q(m) == [p EXCEPT !.views[v] = new(m)]
<1>1. ASSUME NEW m, v \in DOMAIN p.views PROVE Leaves(p, q(m), N)
  <2>1. ViewFits(old)
    BY <1>1 DEF Fits, ViewsFit
  <2> DEFINE view == new(m)
  <2>2. ViewFits(view) /\ view.locked = old.locked /\ (view.locked => view.members = old.members)
    <3> HIDE DEF old
    <3> QED BY <2>1 DEF ViewFits
  <2> HIDE DEF view
  <2>3. Leaves(p, [p EXCEPT !.views[v] = view], N)
    BY <1>1, <2>2, ViewEdited
  <2> QED BY <2>3 DEF view
<1>2. Leaves(p, p, N)
  BY SameLeaves
<1>3. ASSUME NEW in PROVE Leaves(p, setFramesInView(p, v, members, in), N)
  <2> DEFINE m == IF in THEN old.members \cup members ELSE old.members \ members
  <2>1. setFramesInView(p, v, members, in) = IF v \in DOMAIN p.views THEN q(m) ELSE p
    BY DEF setFramesInView, OnTab, OnView
  <2> HIDE DEF q, m
  <2> QED BY <1>1, <1>2, <2>1
<1>4. Leaves(p, clearViewMembers(p, v), N)
  <2>1. clearViewMembers(p, v) = IF v \in DOMAIN p.views THEN q({}) ELSE p
    BY DEF clearViewMembers, OnTab, OnView
  <2> HIDE DEF q
  <2> QED BY <1>1, <1>2, <2>1
<1>5. Leaves(p, tagAllVisible(p, v, members), N)
  <2> DEFINE m == old.members \cup {Whole(k) : k \in {r \in members : passesFilter(old.filter, r)}}
  <2>1. tagAllVisible(p, v, members) = IF v \in DOMAIN p.views THEN q(m) ELSE p
    BY DEF tagAllVisible, OnTab, OnView
  <2> HIDE DEF q, m
  <2> QED BY <1>1, <1>2, <2>1
<1> QED BY <1>3, <1>4, <1>5

\* The formula or the filter of a tab is replaced.
LEMMA ViewRewritten ==
  ASSUME NEW p, NEW N, Fits(p, N), NEW v, NEW x, NEW needle
  PROVE  Leaves(p, setViewFormula(p, v, x), N) /\ Leaves(p, mutateFilter(p, v, x, needle), N)
<1> DEFINE old == p.views[v]
           filter == [hides |-> x, needle |-> needle]
           a == [old EXCEPT !.formula = x]
           b == [old EXCEPT !.filter = filter]
<1>1. /\ setViewFormula(p, v, x) = IF v \in DOMAIN p.views THEN [p EXCEPT !.views[v] = a] ELSE p
      /\ mutateFilter(p, v, x, needle)
           = IF v \in DOMAIN p.views THEN [p EXCEPT !.views[v] = b] ELSE p
  BY DEF setViewFormula, mutateFilter, OnView
<1>2. ASSUME v \in DOMAIN p.views
      PROVE  /\ ViewFits(a) /\ a.locked = old.locked /\ a.members = old.members
             /\ ViewFits(b) /\ b.locked = old.locked /\ b.members = old.members
  <2>1. ViewFits(old)
    BY <1>2 DEF Fits, ViewsFit
  <2> HIDE DEF old, filter
  <2> QED BY <2>1 DEF ViewFits
<1> HIDE DEF a, b
<1>3. ASSUME v \in DOMAIN p.views
      PROVE  Leaves(p, [p EXCEPT !.views[v] = a], N) /\ Leaves(p, [p EXCEPT !.views[v] = b], N)
  BY <1>2, <1>3, ViewEdited
<1> QED BY <1>1, <1>3, SameLeaves

\* A tab is opened, with an id of its own.
LEMMA ViewOpened ==
  ASSUME NEW p, NEW N, Fits(p, N), NEW id \in N, NEW members
  PROVE  LET q == createView(p, id, members)
         IN  Leaves(p, q, N \ {id}) /\ id \in DOMAIN q.views
<1> DEFINE view == NewView(members)
           views == Put(p.views, id, view)
           q == [p EXCEPT !.views = views]
<1>1. /\ DOMAIN views = {id} \cup DOMAIN p.views
      /\ \A w \in DOMAIN views : views[w] = IF w = id THEN view ELSE p.views[w]
  BY DEF Put
<1>2. createView(p, id, members) = q
  BY DEF createView
<1>3. ViewFits(view) /\ ~view.locked
  BY DEF ViewFits, NewView
<1> HIDE DEF views, view
<1>4. id \notin DOMAIN p.views
  BY DEF Fits, ViewsFit
<1>5. \A w \in DOMAIN views : ViewFits(views[w]) /\ w \notin N \ {id}
  BY <1>1, <1>3 DEF Fits, ViewsFit
<1>6. {w \in DOMAIN views : views[w].locked} = {w \in DOMAIN p.views : p.views[w].locked}
  BY <1>1, <1>3, <1>4
<1>7. ViewsFit(views, N \ {id})
  <2>1. PICK c \in DOMAIN p.views : /\ {w \in DOMAIN p.views : p.views[w].locked} = {c}
                                    /\ p.views[c].members = {}
    BY DEF Fits, ViewsFit
  <2>2. c \in DOMAIN views /\ views[c].members = {}
    BY <1>1, <1>4, <2>1
  <2> QED BY <1>5, <1>6, <2>1, <2>2 DEF ViewsFit
<1>8. Fits(q, N \ {id}) /\ q.views = views
  BY <1>7, ViewsGiven
<1> HIDE DEF q
<1> QED BY <1>1, <1>2, <1>8 DEF Leaves

\* A tab is closed, unless it is the canonical one.
LEMMA ViewClosed ==
  ASSUME NEW p, NEW N, Fits(p, N), NEW v
  PROVE  LET q == deleteView(p, v)
         IN  /\ Fits(q, N) /\ Canonical(q) \in DOMAIN q.views
             /\ DOMAIN p.views \ {v} \subseteq DOMAIN q.views
<1> DEFINE views == [w \in DOMAIN p.views \ {v} |-> p.views[w]]
           q == [p EXCEPT !.views = views]
<1>0. ASSUME NEW r, Fits(r, N) PROVE Canonical(r) \in DOMAIN r.views
  BY <1>0 DEF Canonical, Fits, ViewsFit
<1>1. CASE ~Goes(p, v)
  <2>1. deleteView(p, v) = p
    BY <1>1 DEF deleteView
  <2> QED BY <1>0, <2>1
<1>2. CASE Goes(p, v)
  <2>1. deleteView(p, v) = q
    BY <1>2 DEF deleteView
  <2>2. DOMAIN views = DOMAIN p.views \ {v} /\ \A w \in DOMAIN views : views[w] = p.views[w]
    OBVIOUS
  <2> HIDE DEF views
  <2>3. ~p.views[v].locked
    BY <1>2 DEF Goes
  <2>4. {w \in DOMAIN views : views[w].locked} = {w \in DOMAIN p.views : p.views[w].locked}
    BY <2>2, <2>3
  <2>5. ViewsFit(views, N)
    <3>1. PICK c \in DOMAIN p.views : /\ {w \in DOMAIN p.views : p.views[w].locked} = {c}
                                      /\ p.views[c].members = {}
      BY DEF Fits, ViewsFit
    <3>2. c # v
      BY <2>3, <3>1
    <3>3. \A w \in DOMAIN views : ViewFits(views[w]) /\ w \notin N
      BY <2>2 DEF Fits, ViewsFit
    <3> QED BY <2>2, <2>4, <3>1, <3>2, <3>3 DEF ViewsFit
  <2>6. Fits(q, N) /\ q.views = views
    BY <2>5, ViewsGiven
  <2> HIDE DEF q
  <2> QED BY <1>0, <2>1, <2>2, <2>6
<1> QED BY <1>1, <1>2

-----------------------------------------------------------------------------
(* Projects that are loaded.                                               *)

\* The project a page starts with.
LEMMA EmptyFits ==
  ASSUME NEW N, AllView \notin N
  PROVE  Fits(emptyProject, N) /\ AllView \in DOMAIN emptyProject.views
<1> DEFINE views == Put(<<>>, AllView, canonicalView)
           p == emptyProject
<1>1. DOMAIN views = {AllView} /\ views[AllView] = canonicalView
  BY DEF Put
<1>2. /\ canonicalView.locked /\ canonicalView.members = {} /\ ViewFits(canonicalView)
  BY DEF canonicalView, NewView, ViewFits
<1> HIDE DEF views
<1>3. Record(p) /\ p.frames = <<>> /\ p.views = views
  BY DEF emptyProject, Record, views
<1> HIDE DEF p
<1>4. {w \in DOMAIN views : views[w].locked} = {AllView}
  BY <1>1, <1>2
<1>5. ViewsFit(views, N)
  BY <1>1, <1>2, <1>4 DEF ViewsFit
<1>6. FramesFit(<<>>, N)
  BY DEF FramesFit
<1>7. Fits(p, N) /\ AllView \in DOMAIN p.views
  BY <1>1, <1>3, <1>5, <1>6 DEF Fits
<1> QED BY <1>7 DEF p

\* A project of a file, with its canonical tab.
LEMMA FileFits ==
  ASSUME NEW file \in Loads, NEW d \in Desks
  PROVE  LET p == ensureViews(file)
         IN  Fits(p, (1 .. MaxEdits[d]) \cup {Null}) /\ Canonical(p) \in DOMAIN p.views
<1> DEFINE N == (1 .. MaxEdits[d]) \cup {Null}
           views == Put(file.views, AllView, canonicalView)
           q == [file EXCEPT !.views = views]
           p == ensureViews(file)
<1>0. /\ IsProject(file) /\ OneMultiplexor(file)
      /\ OneCanonical(file) \/ Locked(file) = {}
      /\ Ids(file) \cap N = {}
  BY LoadsConstants
<1>1. MaxEdits[d] \in Nat /\ AllView \notin N
  BY EditsConstants, CockpitConstants DEF AllView
<1> HIDE DEF N
<1>2. Record(file)
  BY <1>0 DEF IsProject, Record
<1>3. FramesFit(file.frames, N)
  <2> SUFFICES ASSUME NEW k \in DOMAIN file.frames PROVE DefFits(file.frames[k], N)
    BY DEF FramesFit
  <2> DEFINE def == file.frames[k]
  <2>1. /\ def \in [named : BOOLEAN, signals : {def.signals}, auto : BOOLEAN]
        /\ \A s \in def.signals :
             s \in [id : {s.id}, at : {s.at}, isMultiplexor : BOOLEAN, under : {s.under}]
        /\ \A s, t \in def.signals : s.id = t.id => s = t
    BY <1>0 DEF IsProject
  <2>2. \A s, t \in def.signals : s.isMultiplexor /\ t.isMultiplexor => s = t
    BY <1>0 DEF OneMultiplexor
  <2>3. \A s \in def.signals : s.id \in Ids(file)
    BY DEF Ids
  <2> QED BY <1>0, <2>1, <2>2, <2>3 DEF DefFits, SignalsFit
<1>4. \A v \in DOMAIN file.views : ViewFits(file.views[v]) /\ v \notin N
  BY <1>0 DEF IsProject, ViewFits, Ids
<1>5. CASE \E v \in DOMAIN file.views : file.views[v].locked
  <2>1. p = file
    BY <1>5 DEF ensureViews
  <2>2. ViewsFit(file.views, N)
    BY <1>0, <1>4, <1>5 DEF OneCanonical, Locked, ViewsFit
  <2>3. Canonical(file) \in DOMAIN file.views
    BY <1>5 DEF Canonical
  <2> QED BY <1>2, <1>3, <2>1, <2>2, <2>3 DEF Fits, N
<1>6. CASE ~\E v \in DOMAIN file.views : file.views[v].locked
  <2>1. p = q
    BY <1>6 DEF ensureViews
  <2>2. /\ DOMAIN views = {AllView} \cup DOMAIN file.views
        /\ \A w \in DOMAIN views : views[w] = IF w = AllView THEN canonicalView ELSE file.views[w]
    BY DEF Put
  <2>3. canonicalView.locked /\ canonicalView.members = {} /\ ViewFits(canonicalView)
    BY DEF canonicalView, NewView, ViewFits
  <2> HIDE DEF views
  <2>4. {w \in DOMAIN views : views[w].locked} = {AllView}
    BY <1>6, <2>2, <2>3
  <2>5. \A w \in DOMAIN views : ViewFits(views[w]) /\ w \notin N
    BY <1>1, <1>4, <2>2, <2>3
  <2>6. ViewsFit(views, N)
    BY <2>2, <2>3, <2>4, <2>5 DEF ViewsFit
  <2>7. Record(q) /\ q.frames = file.frames /\ q.views = views
    BY <1>2 DEF Record
  <2> HIDE DEF q
  <2>8. Canonical(q) \in DOMAIN q.views
    BY <2>4, <2>7 DEF Canonical
  <2> QED BY <1>3, <2>1, <2>6, <2>7, <2>8 DEF Fits, N
<1> QED BY <1>5, <1>6

-----------------------------------------------------------------------------
(* What a step does to the project and to the tab that is open.            *)

\* The ids this session may still make, and the one that stands for none.
Unused == ((used.edits + 1) .. MaxEdits[desk]) \cup {Null}

\* The project has its shape, and none of those ids.
ProjInv ==
  /\ desk \in Desks
  /\ used \in [edits : Nat, sessions : {used.sessions}]
  /\ Fits(Project, Unused)
  /\ stores.activeView \in DOMAIN Project.views

\* What is sound holds what is promised.
LEMMA InvSound == ProjInv => ProjectSound
BY FitsSound DEF ProjInv, ProjectSound

\* An edit uses one id up.
LEMMA SpendsOne ==
  ASSUME ProjInv, Spends, desk' = desk
  PROVE  /\ FreshId \in Unused /\ Unused' = Unused \ {FreshId}
         /\ desk' \in Desks /\ used' \in [edits : Nat, sessions : {used'.sessions}]
<1>1. used \in [edits : Nat, sessions : {used.sessions}] /\ desk \in Desks
  BY DEF ProjInv
<1>2. /\ used'.edits = used.edits + 1 /\ used'.sessions = used.sessions
      /\ used' \in [edits : Nat, sessions : {used'.sessions}]
  BY <1>1 DEF Spends
<1>3. used.edits \in Nat /\ MaxEdits[desk] \in Nat /\ used.edits < MaxEdits[desk]
  BY <1>1, EditsConstants DEF Spends
<1>4. FreshId \in Unused
  BY <1>3 DEF FreshId, Unused
<1>5. Unused' = Unused \ {FreshId}
  BY <1>2, <1>3, CockpitConstants DEF FreshId, Unused
<1> QED BY <1>1, <1>2, <1>4, <1>5

\* The project keeps its shape, and ids are not made twice.
StaysSound == ProjInv' /\ used.edits =< used'.edits /\ Unused' \subseteq Unused

\* A step that makes no id.
Rests ==
  /\ Fits(stores'.project, Unused) /\ stores'.activeView \in DOMAIN stores'.project.views
  /\ desk' = desk /\ used'.edits = used.edits
  /\ used' \in [edits : Nat, sessions : {used'.sessions}]

\* It leaves the project as it was.
LEMMA RestSound == ASSUME ProjInv, Rests PROVE StaysSound
<1>1. Unused' = Unused
  BY DEF Rests, Unused
<1> QED BY <1>1 DEF ProjInv, Rests, Project, StaysSound

\* A step that makes one, of a project that keeps its shape.
Replaces ==
  /\ Spends /\ desk' = desk
  /\ Fits(stores'.project, Unused) \/ Fits(stores'.project, Unused \ {FreshId})
  /\ stores'.activeView \in DOMAIN stores'.project.views

\* It leaves a project that has its shape.
LEMMA ReplacedSound == ASSUME ProjInv, Replaces PROVE StaysSound
<1>1. /\ FreshId \in Unused /\ Unused' = Unused \ {FreshId}
      /\ desk' \in Desks /\ used' \in [edits : Nat, sessions : {used'.sessions}]
  BY SpendsOne DEF Replaces
<1>2. Fits(stores'.project, Unused \ {FreshId})
  <2>1. Unused \ {FreshId} \in SUBSET Unused
    OBVIOUS
  <2> QED BY <2>1, FitsLess DEF Replaces
<1>3. Fits(stores'.project, Unused')
  BY <1>1, <1>2
<1> QED BY <1>1, <1>3 DEF ProjInv, Replaces, Spends, Project, StaysSound

\* An edit that closes no tab.
Good(p) == Leaves(Project, p, Unused) \/ Leaves(Project, p, Unused \ {FreshId})

\* The stores take it.
LEMMA EditSound == ASSUME LinkInv, ProjInv, NEW p, Edit(p), Good(p) PROVE StaysSound
<1> DEFINE st == [stores EXCEPT !.project = p]
<1>1. stores' = st /\ Spends /\ desk' = desk
  BY Finally DEF Edit, Rewrites, Handler, Settles
<1>2. st.project = p /\ st.activeView = stores.activeView
  BY ShownProject DEF LinkInv
<1> HIDE DEF st
<1>3. Replaces
  BY <1>1, <1>2 DEF Replaces, Good, Leaves, ProjInv
<1> QED BY <1>3, ReplacedSound

\* They take it, and something is selected.
LEMMA EditMovingSound ==
  ASSUME LinkInv, ProjInv, NEW p, NEW values, EditMoving(p, values), Good(p),
         NEW st, Last(<<[stores EXCEPT !.project = p]>> \o values) = st,
         st.project = p, st.activeView = stores.activeView
  PROVE  StaysSound
<1>1. stores' = st /\ Spends /\ desk' = desk
  BY DEF EditMoving, Moves, Handler, Settles
<1>2. Replaces
  BY <1>1 DEF Replaces, Good, Leaves, ProjInv
<1> QED BY <1>2, ReplacedSound

\* A move edits nothing.
LEMMA ShowsRests ==
  ASSUME ProjInv, NEW values, Shows(values), NEW st, Last(values) = st,
         st.project = Project, st.activeView = stores.activeView
  PROVE  Rests
BY DEF Shows, Moves, Handler, Settles, Rests, ProjInv

-----------------------------------------------------------------------------
(* What each action does to the project.                                   *)

\* A link that is applied changes neither the project nor the tab that is open.
LEMMA LinkSpares ==
  ASSUME NEW st, Shown(st), NEW link
  PROVE  LET s == applyHash(st, link) IN s.project = st.project /\ s.activeView = st.activeView
<1> DEFINE moved == [st EXCEPT !.mode = link.mode]
           framed == SetSelected(moved, link.frame)
           muxed == Part(framed, link.mux, SetMux)
           Same(s) == s.project = st.project /\ s.activeView = st.activeView
<1>1. Shown(moved) /\ Same(moved)
  BY ShownMode DEF Shown
<1>2. CASE link.mode = "logbook"
  <2>1. applyHash(st, link) = IF link.sub = Null THEN moved ELSE [moved EXCEPT !.sub = link.sub]
    BY <1>2 DEF applyHash, Part, SetSub
  <2> HIDE DEF moved
  <2>2. Same([moved EXCEPT !.sub = link.sub])
    BY <1>1 DEF Shown
  <2> QED BY <1>1, <2>1, <2>2
<1>3. CASE link.mode = "explore" /\ link.frame # Null
  <2>1. Shown(framed) /\ framed.selected # Null /\ Same(framed)
    <3> HIDE DEF moved
    <3> QED BY <1>1, <1>3, ShownSelected
  <2>2. Shown(muxed) /\ Same(muxed)
    <3> HIDE DEF framed
    <3>1. Shown(SetMux(framed, link.mux)) /\ Same(SetMux(framed, link.mux))
      BY <2>1, ShownMux
    <3> QED BY <2>1, <3>1 DEF Part
  <2>3. applyHash(st, link) = IF link.signal = Null THEN muxed ELSE [muxed EXCEPT !.signal = link.signal]
    BY <1>3 DEF applyHash, Part, FrameParts, SetSignal
  <2> HIDE DEF muxed
  <2>4. Same([muxed EXCEPT !.signal = link.signal])
    BY <2>2 DEF Shown
  <2> QED BY <2>2, <2>3, <2>4
<1>4. CASE link.mode # "logbook" /\ ~(link.mode = "explore" /\ link.frame # Null)
  BY <1>1, <1>4 DEF applyHash
<1> QED BY <1>2, <1>3, <1>4

\* A step in which the stores keep project and tab, and no id is made.
LEMMA SameRests ==
  ASSUME ProjInv, stores'.project = Project, stores'.activeView = stores.activeView,
         desk' = desk, used' = used
  PROVE  Rests
BY DEF Rests, ProjInv

\* The connection, the parser and the workers.
LEMMA ConnectionSound ==
  ASSUME ProjInv, connect \/ emitSnapshot \/ ShowsSnapshot \/ Ticks \/ TakesReply \/ Ingests(Keys)
  PROVE  StaysSound
<1>1. stores' = stores /\ desk' = desk
  BY DEF connect, emitSnapshot, ShowsSnapshot, Ticks, TakesReply, Ingests, pageVars
<1>2. used'.edits = used.edits /\ used' \in [edits : Nat, sessions : {used'.sessions}]
  <2>1. used \in [edits : Nat, sessions : {used.sessions}]
    BY DEF ProjInv
  <2>2. CASE connect
    BY <2>1, <2>2 DEF connect
  <2>3. CASE used' = used
    BY <2>1, <2>3
  <2> QED BY <2>2, <2>3 DEF emitSnapshot, ShowsSnapshot, Ticks, TakesReply, Ingests
<1>3. Rests
  BY <1>1, <1>2 DEF Rests, ProjInv, Project
<1> QED BY <1>3, RestSound

\* A file is loaded.
LEMMA LoadSound == ASSUME LinkInv, ProjInv, NEW file \in Loads, Load(file) PROVE StaysSound
<1> DEFINE p == ensureViews(file)
           v == Canonical(p)
           st == Loaded(stores, file)
           first == [stores EXCEPT !.project = st.project]
<1>1. Fits(p, (1 .. MaxEdits[desk]) \cup {Null}) /\ v \in DOMAIN p.views
  BY FileFits DEF ProjInv
<1>2. st = [stores EXCEPT !.project = p, !.activeView = v]
  BY DEF Loaded
<1>3. stores' = Last(<<first, st>>) /\ Spends /\ desk' = desk
  BY DEF Load, Settles
<1> HIDE DEF first, p, v, st
<1>4. st.project = p /\ st.activeView = v
  BY <1>2 DEF LinkInv, Shown
<1>5. stores' = st
  BY <1>3, Finally
<1>6. Unused \in SUBSET ((1 .. MaxEdits[desk]) \cup {Null})
  BY EditsConstants DEF ProjInv, Unused
<1>7. Fits(p, Unused)
  BY <1>1, <1>6, FitsLess
<1>8. Replaces
  BY <1>1, <1>3, <1>4, <1>5, <1>7 DEF Replaces
<1> QED BY <1>8, ReplacedSound

\* The page is loaded again, with a project or without.
LEMMA ReloadSound ==
  ASSUME LinkInv, ProjInv, NEW file \in Loads \cup {Null}, Reload(file) PROVE StaysSound
<1> DEFINE N == (1 .. MaxEdits[desk]) \cup {Null}
           q == ensureViews(file)
           w == Canonical(q)
           loaded == Loaded(FreshStores, file)
           booted == IF file = Null THEN FreshStores ELSE loaded
<1>0. /\ desk \in Desks /\ MaxEdits[desk] \in Nat
      /\ used \in [edits : Nat, sessions : {used.sessions}]
  BY EditsConstants DEF ProjInv
<1>1. /\ FreshStores.project = emptyProject /\ FreshStores.activeView = AllView
      /\ Fits(emptyProject, N) /\ AllView \in DOMAIN emptyProject.views
  <2>1. AllView \notin N
    BY <1>0, CockpitConstants DEF AllView
  <2> HIDE DEF N
  <2> QED BY <2>1, EmptyFits DEF FreshStores
<1>2. ASSUME file # Null
      PROVE  /\ Shown(loaded) /\ loaded.project = q /\ loaded.activeView = w
             /\ Fits(q, N) /\ w \in DOMAIN q.views
  <2>1. Fits(q, N) /\ w \in DOMAIN q.views
    BY <1>0, <1>2, FileFits
  <2>2. loaded = [FreshStores EXCEPT !.project = q, !.activeView = w]
    BY DEF Loaded
  <2>3. Shown(loaded)
    BY ShownFresh, ShownLoaded
  <2> HIDE DEF N, q, w, loaded
  <2>4. loaded.project = q /\ loaded.activeView = w
    BY <2>2, ShownFresh DEF Shown
  <2> QED BY <2>1, <2>3, <2>4
<1> HIDE DEF N, q, w, loaded
<1>3. Shown(booted) /\ Fits(booted.project, N) /\ booted.activeView \in DOMAIN booted.project.views
  BY <1>1, <1>2, ShownFresh
<1>4. stores' = applyHash(booted, hash) /\ desk' = desk /\ used' = [used EXCEPT !.sessions = @ + 1]
  BY DEF Reload, Starts, loaded
<1> HIDE DEF booted
<1>5. stores'.project = booted.project /\ stores'.activeView = booted.activeView
  BY <1>3, <1>4, LinkSpares
<1>6. Unused \in SUBSET N
  BY <1>0 DEF Unused, N
<1>7. Fits(booted.project, Unused)
  BY <1>3, <1>6, FitsLess
<1>8. used'.edits = used.edits /\ used' \in [edits : Nat, sessions : {used'.sessions}]
  BY <1>0, <1>4
<1>9. Rests
  BY <1>3, <1>4, <1>5, <1>7, <1>8 DEF Rests
<1> QED BY <1>9, RestSound

\* Going about the page.
LEMMA MovingSound == ASSUME LinkInv, ProjInv, MovingStep PROVE StaysSound
<1>0. Shown(stores)
  BY DEF LinkInv
<1> DEFINE Same(s) == s.project = Project /\ s.activeView = stores.activeView
<1>01. ASSUME NEW values, Shows(values), Same(Last(values)) PROVE StaysSound
  <2>1. stores' = Last(values) /\ desk' = desk /\ used' = used
    BY <1>01 DEF Shows, Moves, Handler, Settles
  <2>2. Rests
    BY <1>01, <2>1, SameRests
  <2> QED BY <2>2, RestSound
<1>1. ASSUME NEW mode \in Modes, SetMode(mode) PROVE StaysSound
  <2> DEFINE v == [stores EXCEPT !.mode = mode]
  <2>1. Shows(<<v>>) /\ Same(v)
    BY <1>0, <1>1 DEF SetMode, Shown, Project
  <2> HIDE DEF v
  <2> QED BY <2>1, <1>01, Finally
<1>2. ASSUME NEW sub \in Subs, PickSub(sub) PROVE StaysSound
  <2> DEFINE v == [stores EXCEPT !.sub = sub]
  <2>1. Shows(<<v>>) /\ Same(v)
    BY <1>0, <1>2 DEF PickSub, Shown, Project
  <2> HIDE DEF v
  <2> QED BY <2>1, <1>01, Finally
<1>3. ASSUME NEW k PROVE Same(SetSelected(stores, k)) /\ Same(setPrimary(stores, k))
  <2> DEFINE s == SetSelected(stores, k)
  <2>1. Shown(s) /\ Same(s)
    BY <1>0, ShownSelected DEF Project
  <2>2. setPrimary(stores, k) = SetMux(s, Null)
    BY DEF setPrimary
  <2> HIDE DEF s
  <2>3. Same(SetMux(s, Null))
    BY <2>1, ShownMux
  <2> QED BY <2>1, <2>2, <2>3 DEF s
<1>4. ASSUME NEW i \in Rowed, NEW how \in {"plain", "ctrl", "shift"}, onRowClick(i, how)
      PROVE  StaysSound
  <2> DEFINE u == SetSelected(stores, TableRows[i])
             v == setPrimary(stores, TableRows[i])
  <2>1. Shows(<<u, v>>) /\ Same(v)
    BY <1>3, <1>4 DEF onRowClick
  <2> HIDE DEF u, v
  <2> QED BY <2>1, <1>01, Finally
<1>5. CASE selectAll
  <2> DEFINE u == SetSelected(stores, TableRows[1])
             v == setPrimary(stores, TableRows[1])
  <2>1. Shows(<<u, v>>) /\ Same(v)
    BY <1>3, <1>5 DEF selectAll
  <2> HIDE DEF u, v
  <2> QED BY <2>1, <1>01, Finally
<1>6. CASE snapshotSort \/ clearSort
  <2>1. Rests
    BY <1>6, SameRests DEF snapshotSort, clearSort, Project
  <2> QED BY <2>1, RestSound
<1>7. ASSUME NEW k \in Keys, selectOne(k) PROVE StaysSound
  <2> DEFINE v == SetSelected(stores, k)
  <2>1. Shows(<<v>>) /\ Same(v)
    BY <1>3, <1>7 DEF selectOne
  <2> HIDE DEF v
  <2> QED BY <2>1, <1>01, Finally
<1>8. ASSUME NEW mux, selectMessage(mux) PROVE StaysSound
  <2> DEFINE v == SetMux(stores, mux)
  <2>1. Shows(<<v>>) /\ Sel # Null
    BY <1>8 DEF selectMessage
  <2>2. Same(v)
    BY <1>0, <2>1, ShownMux DEF Project, Sel
  <2> HIDE DEF v
  <2> QED BY <2>1, <2>2, <1>01, Finally
<1>9. ASSUME NEW mux, selectSignal(mux) PROVE StaysSound
  <2>1. PICK id : Shows(<<[stores EXCEPT !.signal = id]>>)
    BY <1>9 DEF selectSignal, SetSignal
  <2> DEFINE v == [stores EXCEPT !.signal = id]
  <2>2. Shows(<<v>>) /\ Same(v)
    BY <1>0, <2>1 DEF Shown, Project
  <2> HIDE DEF v
  <2> QED BY <2>2, <1>01, Finally
<1>10. ASSUME NEW card, inspect(card) PROVE StaysSound
  <2> DEFINE st == SetSelected(stores, card.frame)
             v == [st EXCEPT !.mode = "explore"]
  <2>1. Shows(<<st, v>>)
    BY <1>10 DEF inspect
  <2>2. Shown(st) /\ Same(st)
    BY <1>0, ShownSelected DEF Project
  <2> HIDE DEF st
  <2>3. Same(v)
    BY <2>2 DEF Shown
  <2> HIDE DEF v
  <2> QED BY <2>1, <2>3, <1>01, Finally
<1>11. ASSUME NEW seconds, setWindow(seconds) PROVE StaysSound
  <2> DEFINE v == [stores EXCEPT !.window = seconds]
  <2>1. stores' = v /\ Spends /\ desk' = desk
    BY <1>11, Finally DEF setWindow, Handler, Settles
  <2>2. Same(v)
    BY <1>0 DEF Shown, Project
  <2> HIDE DEF v
  <2>3. Replaces
    BY <2>1, <2>2 DEF Replaces, ProjInv
  <2> QED BY <2>3, ReplacedSound
<1>12. ASSUME NEW link \in Pasted, onHashChange(link) PROVE StaysSound
  <2>1. stores' = applyHash(stores, link) /\ desk' = desk /\ used' = used
    BY <1>12, Finally DEF onHashChange, Handler, Settles
  <2>2. Same(stores')
    BY <1>0, <2>1, LinkSpares DEF Project
  <2>3. Rests
    BY <2>1, <2>2, SameRests
  <2> QED BY <2>3, RestSound
<1> QED BY <1>1, <1>2, <1>4, <1>5, <1>6, <1>7, <1>8, <1>9, <1>10, <1>11, <1>12 DEF MovingStep

\* Editing a frame, its messages and its signals.
LEMMA FrameSound == ASSUME LinkInv, ProjInv, FrameStep PROVE StaysSound
<1> DEFINE N == Unused
           M == Unused \ {FreshId}
<1>0. Shown(stores) /\ Fits(Project, N)
  BY DEF LinkInv, ProjInv
<1>1. ASSUME NEW p, Suits(Project, p, N) \/ Suits(Project, p, M) PROVE Good(p)
  BY <1>1, SuitsLeaves DEF Good
<1>2. ASSUME Spends PROVE FreshId \in N
  BY <1>2, EditsConstants DEF Spends, ProjInv, FreshId, Unused
<1>3. ASSUME NEW p, Edit(p), Suits(Project, p, N) \/ Suits(Project, p, M) PROVE StaysSound
  BY <1>1, <1>3, EditSound
<1>4. ASSUME NEW p, NEW id, EditMoving(p, <<[stores EXCEPT !.project = p, !.signal = id]>>),
             Suits(Project, p, N) \/ Suits(Project, p, M)
      PROVE  StaysSound
  <2> DEFINE u == [stores EXCEPT !.project = p]
             v == [stores EXCEPT !.project = p, !.signal = id]
  <2>1. EditMoving(p, <<v>>) /\ Good(p)
    BY <1>1, <1>4
  <2>2. Last(<<u>> \o <<v>>) = v
    BY Finally
  <2>3. v.project = p /\ v.activeView = stores.activeView
    BY <1>0 DEF Shown
  <2>4. Last(<<[stores EXCEPT !.project = p]>> \o <<v>>) = v
    BY <2>2
  <2> HIDE DEF u, v
  <2> QED BY <2>1, <2>3, <2>4, EditMovingSound
<1>5. ASSUME NEW mode, NEW byte, setMode(mode, byte) PROVE StaysSound
  <2> DEFINE p == setMessageIdMode(Project, Sel, mode, byte, FreshId)
  <2>1. Edit(p) /\ FreshId \in N
    BY <1>2, <1>5 DEF setMode, Edit
  <2>2. Suits(Project, p, M)
    <3> HIDE DEF N
    <3>1. Suits(Project, p, N \ {FreshId})
      BY <1>0, <2>1, ModeSet
    <3> QED BY <3>1 DEF N
  <2> QED BY <1>3, <2>1, <2>2
<1>6. ASSUME NEW k, commitName(k) PROVE StaysSound
  <2>1. Edit(renameFrame(Project, k, TRUE))
    BY <1>6 DEF commitName
  <2> HIDE DEF N
  <2> QED BY <1>0, <1>3, <2>1, Renamed
<1>7. CASE addNewSignal
  <2> DEFINE p == addSignal(Project, Sel, MakeSignal(FreshId, 0, FALSE))
  <2>1. EditMoving(p, <<[stores EXCEPT !.project = p, !.signal = FreshId]>>)
    BY <1>7 DEF addNewSignal
  <2>2. FreshId \in N
    BY <1>2, <2>1 DEF EditMoving
  <2>3. Suits(Project, p, M)
    <3> HIDE DEF N
    <3>1. Suits(Project, p, N \ {FreshId})
      BY <1>0, <2>2, SignalNew
    <3> QED BY <3>1 DEF N
  <2> HIDE DEF p
  <2> QED BY <1>4, <2>1, <2>3
<1>8. CASE addNewDerived
  <2> DEFINE p == addDerivedSignal(Project, Sel, FreshId)
  <2>1. EditMoving(p, <<[stores EXCEPT !.project = p, !.signal = FreshId]>>)
    BY <1>8 DEF addNewDerived
  <2>2. Suits(Project, p, N)
    BY <1>0, OtherEdits
  <2> HIDE DEF p
  <2> QED BY <1>4, <2>1, <2>2
<1>9. CASE remove
  <2> DEFINE p == removeDerivedSignal(Project, Sel, stores.signal)
  <2>1. EditMoving(p, <<[stores EXCEPT !.project = p, !.signal = Null]>>)
    BY <1>9 DEF remove
  <2>2. Suits(Project, p, N)
    BY <1>0, OtherEdits
  <2> HIDE DEF p
  <2> QED BY <1>4, <2>1, <2>2
<1>10. ASSUME NEW s \in Edited
       PROVE  Sel \in DOMAIN Project.frames /\ s \in Project.frames[Sel].signals
  BY DEF Edited, Defined
<1>11. CASE del \/ toggleMux
  <2>1. PICK s \in Edited : \E id : \/ Edit(removeSignal(Project, Sel, id))
                                    \/ Edit(setMultiplexor(Project, Sel, id))
    BY <1>11 DEF del, toggleMux
  <2> HIDE DEF N
  <2> QED BY <1>0, <1>3, <1>10, <2>1, SignalEdited
<1>12. ASSUME NEW byte, NEW under, commit(byte, under) PROVE StaysSound
  <2>1. PICK s \in Edited :
          Edit(updateSignal(Project, Sel, [s EXCEPT !.at = byte, !.under = under]))
    BY <1>12 DEF commit
  <2> DEFINE p == updateSignal(Project, Sel, [s EXCEPT !.at = byte, !.under = under])
  <2>2. Suits(Project, p, N)
    <3> HIDE DEF N
    <3> QED BY <1>0, <1>10, SignalEdited
  <2>3. Edit(p)
    BY <2>1
  <2> HIDE DEF p
  <2> QED BY <1>3, <2>2, <2>3
<1>13. ASSUME NEW mux, NEW named, commitEdit(mux, named) PROVE StaysSound
  <2>1. Edit(setMessageName(Project, Message(Sel, mux), named))
    BY <1>13 DEF commitEdit
  <2> QED BY <1>0, <1>3, <2>1, OtherEdits
<1>14. ASSUME NEW which, NEW text, Types(which, text) PROVE StaysSound
  <2> DEFINE p == Written(Project, which, text)
             st == [stores EXCEPT !.project = p]
  <2>1. stores' = st /\ Spends /\ desk' = desk
    BY <1>14 DEF Types
  <2>2. Leaves(Project, p, N)
    <3> DEFINE v == stores.activeView
               needle == Project.views[v].filter.needle
    <3>1. p = IF which = "custom" THEN setFrameFormula(Project, Sel, text)
              ELSE IF which = "tab" THEN setViewFormula(Project, v, text)
              ELSE mutateFilter(Project, v, text, needle)
      BY DEF Written
    <3> HIDE DEF p, v, needle, N
    <3>2. Leaves(Project, setFrameFormula(Project, Sel, text), N)
      BY <1>0, OtherEdits, SuitsLeaves
    <3>3. Leaves(Project, setViewFormula(Project, v, text), N)
      BY <1>0, ViewRewritten
    <3>4. Leaves(Project, mutateFilter(Project, v, text, needle), N)
      BY <1>0, ViewRewritten
    <3> QED BY <3>1, <3>2, <3>3, <3>4
  <2> HIDE DEF p
  <2>3. st.project = p /\ st.activeView = stores.activeView
    BY <1>0, ShownProject
  <2> HIDE DEF st
  <2>4. Replaces
    BY <2>1, <2>2, <2>3 DEF Replaces, Leaves, ProjInv
  <2> QED BY <2>4, ReplacedSound
<1>15. ASSUME NEW needle, AsksName(needle) PROVE StaysSound
  <2>1. PICK hides : Edit(mutateFilter(Project, stores.activeView, hides, needle))
    BY <1>15 DEF AsksName
  <2>2. Leaves(Project, mutateFilter(Project, stores.activeView, hides, needle), Unused)
    BY <1>0, ViewRewritten
  <2> QED BY <2>1, <2>2, EditSound DEF Good
<1> QED BY <1>5, <1>6, <1>7, <1>8, <1>9, <1>11, <1>12, <1>13, <1>14, <1>15 DEF FrameStep

\* Opening, filling and closing tabs.
LEMMA TabSound == ASSUME LinkInv, ProjInv, TabStep PROVE StaysSound
<1> DEFINE N == Unused
<1>0. Shown(stores) /\ Fits(Project, N)
  BY DEF LinkInv, ProjInv
<1>1. ASSUME NEW p, Edit(p), Leaves(Project, p, N) PROVE StaysSound
  BY <1>1, EditSound DEF Good
<1>2. ASSUME NEW keys, Opens(keys) PROVE StaysSound
  <2> DEFINE members == {Whole(k) : k \in keys}
             p == createView(Project, FreshId, members)
             u == [stores EXCEPT !.project = p]
             v == [stores EXCEPT !.project = p, !.activeView = FreshId]
  <2>1. Handler(<<u, v>>) /\ Spends /\ desk' = desk
    BY <1>2 DEF Opens
  <2>2. FreshId \in N
    BY <2>1, EditsConstants DEF Spends, ProjInv, FreshId, Unused
  <2>3. Fits(p, Unused \ {FreshId}) /\ FreshId \in DOMAIN p.views
    <3> HIDE DEF N, members
    <3>1. Fits(p, N \ {FreshId}) /\ FreshId \in DOMAIN p.views
      BY <1>0, <2>2, ViewOpened DEF Leaves
    <3> QED BY <3>1 DEF N
  <2> HIDE DEF p
  <2>4. v.project = p /\ v.activeView = FreshId
    BY <1>0 DEF Shown
  <2> HIDE DEF u, v
  <2>5. stores' = v
    BY <2>1, Finally DEF Handler, Settles
  <2>6. Replaces
    BY <2>1, <2>3, <2>4, <2>5 DEF Replaces
  <2> QED BY <2>6, ReplacedSound
<1>3. CASE addTab \/ onDropAdd \/ newTabFromSelection
  BY <1>2, <1>3 DEF addTab, onDropAdd, newTabFromSelection
<1>4. CASE ShowAll \/ HideAll
  <2>1. \/ Edit(tagAllVisible(Project, stores.activeView, frameRows))
        \/ Edit(clearViewMembers(Project, stores.activeView))
    BY <1>4 DEF ShowAll, HideAll
  <2> HIDE DEF N
  <2> QED BY <1>0, <1>1, <2>1, MembersEdited
<1>5. ASSUME NEW w, NEW members, NEW in, Edit(setFramesInView(Project, w, members, in))
      PROVE  StaysSound
  <2> HIDE DEF N
  <2> QED BY <1>0, <1>1, <1>5, MembersEdited
<1>6. ASSUME NEW w, onDrop(w) \/ toggleIn(w) PROVE StaysSound
  <2>1. PICK x, members, in : Edit(setFramesInView(Project, x, members, in))
    BY <1>6 DEF onDrop, toggleIn
  <2> QED BY <1>5, <2>1
<1>7. ASSUME NEW w \in DOMAIN Project.views, setActiveView(w) PROVE StaysSound
  <2> DEFINE v == [stores EXCEPT !.activeView = w]
  <2>1. Handler(<<v>>) /\ used' = used /\ desk' = desk
    BY <1>7 DEF setActiveView
  <2>2. v.project = Project /\ v.activeView = w
    BY <1>0 DEF Shown, Project
  <2> HIDE DEF v
  <2>3. stores' = v
    BY <2>1, Finally DEF Handler, Settles
  <2>4. Rests
    BY <2>1, <2>2, <2>3 DEF Rests, ProjInv
  <2> QED BY <2>4, RestSound
<1>8. ASSUME NEW w, onDelete(w) PROVE StaysSound
  <2> DEFINE p == deleteView(Project, w)
             c == Canonical(p)
             left == IF stores.activeView = w THEN c ELSE stores.activeView
             v == [stores EXCEPT !.project = p, !.activeView = left]
  <2>1. Handler(<<v>>) /\ Spends /\ desk' = desk
    BY <1>8 DEF onDelete
  <2>2. Fits(p, Unused) /\ c \in DOMAIN p.views /\ DOMAIN Project.views \ {w} \subseteq DOMAIN p.views
    BY <1>0, ViewClosed
  <2> HIDE DEF p, c
  <2>3. left \in DOMAIN p.views
    BY <2>2 DEF ProjInv
  <2> HIDE DEF left
  <2>4. v.project = p /\ v.activeView = left
    BY <1>0 DEF Shown
  <2> HIDE DEF v
  <2>5. stores' = v
    BY <2>1, Finally DEF Handler, Settles
  <2>6. Replaces
    BY <2>1, <2>2, <2>3, <2>4, <2>5 DEF Replaces
  <2> QED BY <2>6, ReplacedSound
<1>9. ASSUME NEW w, NEW mux, assignTo(w, mux) PROVE StaysSound
  BY <1>5, <1>9 DEF assignTo
<1>10. ASSUME NEW w, NEW mux, onDropMessage(w, mux) PROVE StaysSound
  <2>1. PICK x, members, in :
          /\ Sel # Null
          /\ LET p == setFramesInView(Project, x, members, in)
             IN  EditMoving(p, <<[SetMux(stores, mux) EXCEPT !.project = p]>>)
    BY <1>10 DEF onDropMessage, Inspected
  <2> DEFINE p == setFramesInView(Project, x, members, in)
             s == SetMux(stores, mux)
             v == [s EXCEPT !.project = p]
  <2>2. EditMoving(p, <<v>>)
    BY <2>1
  <2>3. Good(p)
    BY <1>0, MembersEdited DEF Good
  <2> HIDE DEF p
  <2>4. Shown(s) /\ s.activeView = stores.activeView
    BY <1>0, <2>1, ShownMux DEF Sel
  <2> HIDE DEF s
  <2>5. v.project = p /\ v.activeView = stores.activeView
    BY <2>4, ShownProject
  <2> HIDE DEF v
  <2>6. Last(<<[stores EXCEPT !.project = p]>> \o <<v>>) = v
    BY Finally
  <2> QED BY <2>2, <2>3, <2>5, <2>6, EditMovingSound
<1> QED BY <1>3, <1>4, <1>6, <1>7, <1>8, <1>9, <1>10 DEF TabStep

\* The libraries of the logbook.
LEMMA LibrarySound == ASSUME LinkInv, ProjInv, ScenarioStep \/ ShelfStep PROVE StaysSound
<1> DEFINE N == Unused
<1>0. Shown(stores) /\ Fits(Project, N)
  BY DEF LinkInv, ProjInv
<1>1. ASSUME NEW list,
             \/ Keeps([Project EXCEPT !.scenarios = list])
             \/ Keeps([Project EXCEPT !.findings = list])
             \/ Keeps([Project EXCEPT !.fieldRuns = list])
      PROVE  StaysSound
  <2>1. /\ Good([Project EXCEPT !.scenarios = list]) /\ Good([Project EXCEPT !.findings = list])
        /\ Good([Project EXCEPT !.fieldRuns = list])
    BY <1>0, OtherEdits, SuitsLeaves DEF Good
  <2> QED BY <1>1, <2>1, EditSound DEF Keeps
<1>2. ASSUME NEW selected, Chooses(selected) PROVE StaysSound
  <2>1. Rests
    BY <1>2, SameRests DEF Chooses, cockpitVars, pageVars, Project
  <2> QED BY <2>1, RestSound
<1>3. ASSUME NEW id, toSignal(id) PROVE StaysSound
  <2>1. PICK k : LET p == addSignal(Project, k, MakeSignal(FreshId, 0, FALSE))
                     st == SetSelected([stores EXCEPT !.project = p], k)
                 IN  EditMoving(p, <<st, [st EXCEPT !.mode = "explore"]>>)
    BY <1>3 DEF toSignal
  <2> DEFINE p == addSignal(Project, k, MakeSignal(FreshId, 0, FALSE))
             u == [stores EXCEPT !.project = p]
             st == SetSelected(u, k)
             v == [st EXCEPT !.mode = "explore"]
  <2>2. EditMoving(p, <<st, v>>)
    BY <2>1
  <2>3. FreshId \in N
    BY <2>2, EditsConstants DEF EditMoving, Spends, ProjInv, FreshId, Unused
  <2>4. Good(p)
    <3> HIDE DEF N
    <3>1. Suits(Project, p, N \ {FreshId})
      BY <1>0, <2>3, SignalNew
    <3> QED BY <3>1, SuitsLeaves DEF Good, N
  <2> HIDE DEF p
  <2>5. Shown(u) /\ u.project = p /\ u.activeView = stores.activeView
    BY <1>0, ShownProject
  <2>6. [stores EXCEPT !.project = p] = u
    OBVIOUS
  <2> HIDE DEF u
  <2>7. Shown(st) /\ st.project = p /\ st.activeView = stores.activeView
    BY <2>5, ShownSelected
  <2> HIDE DEF st
  <2>8. v.project = p /\ v.activeView = stores.activeView
    BY <2>7 DEF Shown
  <2> HIDE DEF v
  <2>9. Last(<<[stores EXCEPT !.project = p]>> \o <<st, v>>) = v
    BY FinallyThird
  <2> QED BY <2>2, <2>4, <2>8, <2>9, EditMovingSound
<1>4. CASE newScenario
  BY <1>1, <1>4 DEF newScenario, WithScenarios
<1>5. ASSUME NEW id, deleteScenario(id) PROVE StaysSound
  BY <1>1, <1>5 DEF deleteScenario, WithScenarios
<1>6. ASSUME NEW id, TickScenario(id) PROVE StaysSound
  BY <1>1, <1>6 DEF TickScenario, mutateScenario, WithScenarios
<1>7. ASSUME NEW id, ChooseScenario(id) \/ ChooseFieldRun(id) PROVE StaysSound
  BY <1>2, <1>7 DEF ChooseScenario, ChooseFieldRun
<1>8. ASSUME NEW i, NEW j, reorderScenario(i, j) \/ reorderFieldRun(i, j) PROVE StaysSound
  BY <1>1, <1>8 DEF reorderScenario, reorderFieldRun, WithScenarios, WithFieldRuns
<1>9. ASSUME NEW kind, addStep(kind) PROVE StaysSound
  BY <1>1, <1>9 DEF addStep, mutateScenario, WithScenarios
<1>10. ASSUME NEW i, delStep(i) \/ toggleAdvance(i) PROVE StaysSound
  BY <1>1, <1>10 DEF delStep, toggleAdvance, mutateScenario, WithScenarios
<1>11. ASSUME NEW i, NEW j, moveStep(i, j) PROVE StaysSound
  BY <1>1, <1>11 DEF moveStep, mutateScenario, WithScenarios
<1>12. ASSUME NEW id, toggleStatus(id) \/ toggleExclude(id) PROVE StaysSound
  BY <1>1, <1>12 DEF toggleStatus, toggleExclude, mutateFinding
<1>13. ASSUME NEW id, deleteFinding(id) PROVE StaysSound
  BY <1>1, <1>13 DEF deleteFinding
<1>14. CASE newFieldRun
  BY <1>1, <1>14 DEF newFieldRun, WithFieldRuns
<1>15. ASSUME NEW id, deleteFieldRun(id) PROVE StaysSound
  BY <1>1, <1>15 DEF deleteFieldRun, WithFieldRuns
<1>16. CASE ScenarioStep
  BY <1>16, <1>4, <1>5, <1>6, <1>7, <1>8, <1>9, <1>10, <1>11 DEF ScenarioStep
<1>17. CASE ShelfStep
  BY <1>17, <1>3, <1>7, <1>8, <1>12, <1>13, <1>14, <1>15 DEF ShelfStep
<1> QED BY <1>16, <1>17

\* A field run.
LEMMA FieldSound == ASSUME LinkInv, ProjInv, FieldStep PROVE StaysSound
<1> DEFINE N == Unused
<1>0. Shown(stores) /\ Fits(Project, N)
  BY DEF LinkInv, ProjInv
<1>1. ASSUME NEW list, Keeps(WithFieldRuns(Project, list)) PROVE StaysSound
  <2>1. Good([Project EXCEPT !.fieldRuns = list])
    BY <1>0, OtherEdits, SuitsLeaves DEF Good
  <2> QED BY <1>1, <2>1, EditSound DEF Keeps, WithFieldRuns
<1>2. ASSUME NEW r, NEW panel, Changes(r, panel) PROVE StaysSound
  BY <1>1, <1>2 DEF Changes
<1>3. ASSUME NEW panel, TurnsField(panel) PROVE StaysSound
  <2>1. Rests
    BY <1>3, SameRests DEF TurnsField, cockpitVars, pageVars, Project
  <2> QED BY <2>1, RestSound
<1>4. ASSUME NEW r, NEW panel, Paints(r, panel) PROVE StaysSound
  BY <1>1, <1>4 DEF Paints
<1>5. ASSUME NEW led, startRun(led) PROVE StaysSound
  <2>1. PICK list : Rewrites(WithFieldRuns(Project, list)) /\ used' = used
    BY <1>5 DEF startRun
  <2> DEFINE p == [Project EXCEPT !.fieldRuns = list]
             st == [stores EXCEPT !.project = p]
  <2>2. stores' = st /\ desk' = desk /\ used' = used
    BY <2>1, Finally DEF Rewrites, WithFieldRuns, Handler, Settles
  <2>3. Fits(p, N) /\ p.views = Project.views
    BY <1>0, OtherEdits DEF Suits
  <2> HIDE DEF p
  <2>4. st.project = p /\ st.activeView = stores.activeView
    BY <1>0, ShownProject
  <2> HIDE DEF st
  <2>5. Rests
    BY <2>2, <2>3, <2>4 DEF Rests, ProjInv
  <2> QED BY <2>5, RestSound
<1>6. CASE addLabel
  BY <1>6, <1>2 DEF addLabel
<1>7. CASE beginRecording \/ TakesResult
  BY <1>7, <1>3 DEF beginRecording, TakesResult
<1>8. CASE stopRun
  BY <1>8, <1>3, <1>4 DEF stopRun
<1>9. CASE setLinkMode
  BY <1>9, <1>3 DEF setLinkMode
<1>10. CASE delSpan
  BY <1>10, <1>2 DEF delSpan
<1>11. ASSUME NEW label, delLabel(label) PROVE StaysSound
  BY <1>11, <1>2 DEF delLabel
<1>12. ASSUME NEW label, onLabelTap(label) PROVE StaysSound
  BY <1>12, <1>3, <1>4 DEF onLabelTap
<1>13. ASSUME NEW id, pickSpan(id) PROVE StaysSound
  BY <1>13, <1>2, <1>3 DEF pickSpan
<1>14. ASSUME NEW type, setSpanType(type) PROVE StaysSound
  BY <1>14, <1>2 DEF setSpanType
<1>15. ASSUME NEW raises, analyze(raises) PROVE StaysSound
  BY <1>15, <1>3 DEF analyze
<1>16. ASSUME NEW k, promoteField(k) PROVE StaysSound
  <2>1. PICK list : Edit([Project EXCEPT !.findings = list])
    BY <1>16 DEF promoteField, Keeps, addFinding
  <2>2. Good([Project EXCEPT !.findings = list])
    BY <1>0, OtherEdits, SuitsLeaves DEF Good
  <2> QED BY <2>1, <2>2, EditSound
<1> QED BY <1>5, <1>6, <1>7, <1>8, <1>9, <1>10, <1>11, <1>12, <1>13, <1>14, <1>15, <1>16
        DEF FieldStep

\* The Hunt panel edits no project.
LEMMA HuntSound == ASSUME ProjInv, HuntStep PROVE StaysSound
<1>1. ASSUME NEW panel, Turns(panel) PROVE StaysSound
  <2>1. Rests
    BY <1>1, SameRests DEF Turns, cockpitVars, pageVars, Project
  <2> QED BY <2>1, RestSound
<1>2. CASE LeadInEnds \/ stopTrendCapture \/ keepTrend \/ redoTrend
  BY <1>1, <1>2 DEF LeadInEnds, stopTrendCapture, keepTrend, redoTrend
<1>3. CASE stopCaptureA \/ stopCaptureB \/ keepCmp \/ redoCmp
  BY <1>1, <1>3 DEF stopCaptureA, stopCaptureB, keepCmp, redoCmp
<1>4. ASSUME NEW what, NEW led, startWithWarmup(what, led) PROVE StaysSound
  BY <1>1, <1>4 DEF startWithWarmup
<1>5. ASSUME NEW mode, setHuntMode(mode) PROVE StaysSound
  BY <1>1, <1>5 DEF setHuntMode
<1>6. CASE markEventNow \/ clearEventMarks \/ RunAnalysis
  BY <1>1, <1>6 DEF markEventNow, clearEventMarks, RunAnalysis
<1>7. ASSUME NEW marks, finishGuided(marks) PROVE StaysSound
  BY <1>1, <1>7 DEF finishGuided
<1>8. CASE runScan \/ TakesAnswer \/ AnswerIsLost
  BY <1>1, <1>8 DEF runScan, TakesAnswer, AnswerIsLost
<1>9. ASSUME NEW id, pickCorrReference(id) PROVE StaysSound
  BY <1>1, <1>9 DEF pickCorrReference
<1> QED BY <1>2, <1>3, <1>4, <1>5, <1>6, <1>7, <1>8, <1>9 DEF HuntStep

\* What an analysis found becomes a signal.
LEMMA PromotingSound == ASSUME LinkInv, ProjInv, PromotingStep PROVE StaysSound
<1> DEFINE N == Unused
<1>0. Shown(stores) /\ Fits(Project, N)
  BY DEF LinkInv, ProjInv
<1>1. ASSUME NEW k, NEW panel, Promotes(k, panel) PROVE StaysSound
  <2> DEFINE p == addSignal(Project, k, MakeSignal(FreshId, 0, FALSE))
             u == [stores EXCEPT !.project = p]
             v == SetSelected(u, k)
  <2>1. EditMoving(p, <<v>>)
    BY <1>1 DEF Promotes
  <2>2. FreshId \in N
    BY <2>1, EditsConstants DEF EditMoving, Spends, ProjInv, FreshId, Unused
  <2>3. Good(p)
    <3> HIDE DEF N
    <3>1. Suits(Project, p, N \ {FreshId})
      BY <1>0, <2>2, SignalNew
    <3> QED BY <3>1, SuitsLeaves DEF Good, N
  <2> HIDE DEF p
  <2>4. Shown(u) /\ u.project = p /\ u.activeView = stores.activeView
    BY <1>0, ShownProject
  <2> HIDE DEF u
  <2>5. v.project = p /\ v.activeView = stores.activeView
    BY <2>4, ShownSelected
  <2> HIDE DEF v
  <2>6. Last(<<[stores EXCEPT !.project = p]>> \o <<v>>) = v
    BY Finally
  <2> QED BY <2>1, <2>3, <2>5, <2>6, EditMovingSound
<1>2. ASSUME NEW k, promote(k) \/ promoteSweep(k) \/ promoteCorr(k) PROVE StaysSound
  BY <1>1, <1>2 DEF promote, promoteSweep, promoteCorr
<1>3. ASSUME NEW k, pickScanId(k) PROVE StaysSound
  <2> DEFINE v == SetSelected(stores, k)
  <2>1. Shows(<<v>>)
    BY <1>3 DEF pickScanId
  <2>2. v.project = Project /\ v.activeView = stores.activeView
    BY <1>0, ShownSelected DEF Project
  <2> HIDE DEF v
  <2>3. stores' = v /\ desk' = desk /\ used' = used
    BY <2>1, Finally DEF Shows, Moves, Handler, Settles
  <2>4. Rests
    BY <2>2, <2>3, SameRests
  <2> QED BY <2>4, RestSound
<1> QED BY <1>2, <1>3 DEF PromotingStep

\* A page that opens has the empty project.
LEMMA ProjFirst == Init => ProjInv
<1> SUFFICES ASSUME Init PROVE ProjInv
  OBVIOUS
<1>1. stores = FreshStores /\ desk \in Desks /\ used = [edits |-> 0, sessions |-> 0]
  BY DEF Init, CockpitInit
<1>2. AllView \notin Unused
  BY <1>1, EditsConstants, CockpitConstants DEF AllView, Unused
<1>3. Fits(emptyProject, Unused) /\ AllView \in DOMAIN emptyProject.views
  BY <1>2, EmptyFits
<1> QED BY <1>1, <1>3 DEF ProjInv, Project, FreshStores

\* Whatever happens on the page, the project keeps its shape.
LEMMA ProjNext == LinkInv /\ ProjInv /\ [Next]_vars => StaysSound
<1> SUFFICES ASSUME LinkInv, ProjInv, [Next]_vars PROVE StaysSound
  OBVIOUS
<1>1. CASE ConnectionStep
  BY <1>1, ConnectionSound, LoadSound, ReloadSound DEF ConnectionStep
<1>2. CASE UNCHANGED vars
  <2>1. Rests
    BY <1>2, SameRests DEF vars, cockpitVars, pageVars, Project
  <2> QED BY <2>1, RestSound
<1> QED BY <1>1, <1>2, MovingSound, FrameSound, TabSound, LibrarySound, FieldSound, HuntSound,
           PromotingSound DEF Next

\* Whatever is edited, promoted, loaded and deleted, in any order: a frame has one multiplexor at
\* most, the canonical tab is there once and has no members, and the tab that is open exists.
THEOREM ProjectStaysSound == Spec => []ProjectSound
<1>1. Init => LinkInv /\ ProjInv
  BY LinkFirst, ProjFirst
<1>2. LinkInv /\ ProjInv /\ [Next]_vars => LinkInv' /\ ProjInv'
  BY LinkNext, ProjNext DEF StaysSound
<1>3. ProjInv => ProjectSound
  BY InvSound
<1> QED BY <1>1, <1>2, <1>3, PTL DEF Spec

-----------------------------------------------------------------------------
(* Edits that leave parts of the project alone.                            *)

\* Formulas of frames, tabs and field runs stay.
Elsewhere(p, q) ==
  q.frameFormulas = p.frameFormulas /\ q.views = p.views /\ q.fieldRuns = p.fieldRuns

\* The edits of frames and of the other libraries.
LEMMA EditsElsewhere ==
  ASSUME NEW p, Record(p), NEW k, NEW x
  PROVE  /\ \A mode, byte : Elsewhere(p, setMessageIdMode(p, k, mode, byte, x))
         /\ Elsewhere(p, renameFrame(p, k, x))
         /\ Elsewhere(p, addSignal(p, k, x))
         /\ Elsewhere(p, updateSignal(p, k, x))
         /\ Elsewhere(p, setMultiplexor(p, k, x))
         /\ Elsewhere(p, removeSignal(p, k, x))
         /\ Elsewhere(p, addDerivedSignal(p, k, x))
         /\ Elsewhere(p, removeDerivedSignal(p, k, x))
         /\ \A named : Elsewhere(p, setMessageName(p, x, named))
         /\ Elsewhere(p, [p EXCEPT !.scenarios = x])
         /\ Elsewhere(p, [p EXCEPT !.findings = x])
<1>1. ASSUME NEW y
      PROVE  /\ Elsewhere(p, [p EXCEPT !.frames = y])
             /\ Elsewhere(p, [p EXCEPT !.derivedSignals = y])
             /\ Elsewhere(p, [p EXCEPT !.messageNames = y])
             /\ Elsewhere(p, [p EXCEPT !.scenarios = y])
             /\ Elsewhere(p, [p EXCEPT !.findings = y])
  BY DEF Record, Elsewhere
<1>2. ASSUME NEW def PROVE Elsewhere(p, WithDef(p, k, def))
  <2>1. WithDef(p, k, def) = [p EXCEPT !.frames = Put(p.frames, k, def)]
    BY DEF WithDef
  <2> QED BY <1>1, <2>1
<1>3. ASSUME NEW sigs PROVE Elsewhere(p, [p EXCEPT !.frames[k].signals = sigs])
  <2>1. [p EXCEPT !.frames[k].signals = sigs]
          = [p EXCEPT !.frames = [p.frames EXCEPT ![k] = [p.frames[k] EXCEPT !.signals = sigs]]]
    OBVIOUS
  <2> QED BY <1>1, <2>1
<1>4. Elsewhere(p, p)
  BY DEF Elsewhere
<1>5. ASSUME NEW mode, NEW byte PROVE Elsewhere(p, setMessageIdMode(p, k, mode, byte, x))
  <2>1. \E def : setMessageIdMode(p, k, mode, byte, x) = WithDef(p, k, def)
    BY DEF setMessageIdMode
  <2> QED BY <1>2, <2>1
<1>6. Elsewhere(p, renameFrame(p, k, x)) /\ Elsewhere(p, addSignal(p, k, x))
  BY <1>2 DEF renameFrame, addSignal
<1>7. /\ \/ updateSignal(p, k, x) = p
         \/ \E sigs : updateSignal(p, k, x) = [p EXCEPT !.frames[k].signals = sigs]
      /\ \/ setMultiplexor(p, k, x) = p
         \/ \E sigs : setMultiplexor(p, k, x) = [p EXCEPT !.frames[k].signals = sigs]
      /\ \/ removeSignal(p, k, x) = p
         \/ \E sigs : removeSignal(p, k, x) = [p EXCEPT !.frames[k].signals = sigs]
  BY DEF updateSignal, setMultiplexor, removeSignal, OnSignals
<1>8. /\ \E y : addDerivedSignal(p, k, x) = [p EXCEPT !.derivedSignals = y]
      /\ \E y : removeDerivedSignal(p, k, x) = [p EXCEPT !.derivedSignals = y]
      /\ \A named : \E y : setMessageName(p, x, named) = [p EXCEPT !.messageNames = y]
  BY DEF addDerivedSignal, removeDerivedSignal, setMessageName
<1>9. Elsewhere(p, updateSignal(p, k, x)) /\ Elsewhere(p, setMultiplexor(p, k, x))
      /\ Elsewhere(p, removeSignal(p, k, x))
  <2> HIDE DEF Elsewhere
  <2> QED BY <1>3, <1>4, <1>7
<1>10. Elsewhere(p, addDerivedSignal(p, k, x)) /\ Elsewhere(p, removeDerivedSignal(p, k, x))
       /\ \A named : Elsewhere(p, setMessageName(p, x, named))
  <2>1. Elsewhere(p, addDerivedSignal(p, k, x))
    <3>1. PICK y : addDerivedSignal(p, k, x) = [p EXCEPT !.derivedSignals = y]
      BY <1>8
    <3> QED BY <1>1, <3>1
  <2>2. Elsewhere(p, removeDerivedSignal(p, k, x))
    <3>1. PICK y : removeDerivedSignal(p, k, x) = [p EXCEPT !.derivedSignals = y]
      BY <1>8
    <3> QED BY <1>1, <3>1
  <2>3. ASSUME NEW named PROVE Elsewhere(p, setMessageName(p, x, named))
    <3>1. PICK y : setMessageName(p, x, named) = [p EXCEPT !.messageNames = y]
      BY <1>8
    <3> QED BY <1>1, <3>1
  <2> QED BY <2>1, <2>2, <2>3
<1> QED BY <1>1, <1>5, <1>6, <1>9, <1>10

\* The tabs there were keep their formula and what they hide, and frames their formula.
KeepsTexts(p, q) ==
  /\ q.frameFormulas = p.frameFormulas
  /\ \A v \in DOMAIN p.views \cap DOMAIN q.views :
       /\ q.views[v].formula = p.views[v].formula
       /\ q.views[v].filter.hides = p.views[v].filter.hides

\* So do edits elsewhere, and those of the field runs.
LEMMA ElsewhereKeeps == ASSUME NEW p, NEW q, Elsewhere(p, q) PROVE KeepsTexts(p, q)
BY DEF Elsewhere, KeepsTexts

\* The edits of tabs but for their formula and their filter.
LEMMA TabsKeep ==
  ASSUME NEW p, NEW N, Fits(p, N), NEW v, NEW members
  PROVE  /\ \A in : /\ KeepsTexts(p, setFramesInView(p, v, members, in))
                    /\ setFramesInView(p, v, members, in).fieldRuns = p.fieldRuns
         /\ LET q == clearViewMembers(p, v) IN KeepsTexts(p, q) /\ q.fieldRuns = p.fieldRuns
         /\ LET q == tagAllVisible(p, v, members) IN KeepsTexts(p, q) /\ q.fieldRuns = p.fieldRuns
         /\ LET q == deleteView(p, v) IN KeepsTexts(p, q) /\ q.fieldRuns = p.fieldRuns
         /\ v \in N => LET q == createView(p, v, members)
                       IN  KeepsTexts(p, q) /\ q.fieldRuns = p.fieldRuns
<1> DEFINE old == p.views[v]
           new(m) == IF old.locked THEN old ELSE [old EXCEPT !.members = m]
           q(m) == [p EXCEPT !.views[v] = new(m)]
           Same(r) == KeepsTexts(p, r) /\ r.fieldRuns = p.fieldRuns
<1>0. Record(p)
  BY DEF Fits
<1>1. ASSUME NEW m, v \in DOMAIN p.views PROVE Same(q(m))
  <2> DEFINE view == new(m)
             views == [p.views EXCEPT ![v] = view]
             r == [p EXCEPT !.views = views]
  <2>1. ViewFits(old)
    BY <1>1 DEF Fits, ViewsFit
  <2>2. view.formula = old.formula /\ view.filter = old.filter
    <3> HIDE DEF old
    <3> QED BY <2>1 DEF ViewFits
  <2>3. q(m) = r
    OBVIOUS
  <2> HIDE DEF view
  <2>4. DOMAIN views = DOMAIN p.views
        /\ \A w \in DOMAIN views : views[w] = IF w = v THEN view ELSE p.views[w]
    OBVIOUS
  <2> HIDE DEF views
  <2>5. r.views = views /\ r.frameFormulas = p.frameFormulas /\ r.fieldRuns = p.fieldRuns
    BY <1>0 DEF Record
  <2> HIDE DEF r
  <2>6. Same(r)
    BY <2>2, <2>4, <2>5 DEF KeepsTexts
  <2> QED BY <2>3, <2>6
<1>2. Same(p)
  BY DEF KeepsTexts
<1>3. ASSUME NEW in PROVE Same(setFramesInView(p, v, members, in))
  <2> DEFINE m == IF in THEN old.members \cup members ELSE old.members \ members
  <2>1. setFramesInView(p, v, members, in) = IF v \in DOMAIN p.views THEN q(m) ELSE p
    BY DEF setFramesInView, OnTab, OnView
  <2> HIDE DEF q, m, Same
  <2> QED BY <1>1, <1>2, <2>1
<1>4. Same(clearViewMembers(p, v))
  <2>1. clearViewMembers(p, v) = IF v \in DOMAIN p.views THEN q({}) ELSE p
    BY DEF clearViewMembers, OnTab, OnView
  <2> HIDE DEF q, Same
  <2> QED BY <1>1, <1>2, <2>1
<1>5. Same(tagAllVisible(p, v, members))
  <2> DEFINE m == old.members \cup {Whole(k) : k \in {r \in members : passesFilter(old.filter, r)}}
  <2>1. tagAllVisible(p, v, members) = IF v \in DOMAIN p.views THEN q(m) ELSE p
    BY DEF tagAllVisible, OnTab, OnView
  <2> HIDE DEF q, m, Same
  <2> QED BY <1>1, <1>2, <2>1
<1>6. ASSUME NEW views, \A w \in DOMAIN p.views \cap DOMAIN views : views[w] = p.views[w]
      PROVE  Same([p EXCEPT !.views = views])
  BY <1>0, <1>6 DEF Record, KeepsTexts
<1>7. Same(deleteView(p, v))
  <2> DEFINE views == [w \in DOMAIN p.views \ {v} |-> p.views[w]]
  <2>1. deleteView(p, v) = IF Goes(p, v) THEN [p EXCEPT !.views = views] ELSE p
    BY DEF deleteView
  <2>2. \A w \in DOMAIN p.views \cap DOMAIN views : views[w] = p.views[w]
    OBVIOUS
  <2> HIDE DEF views, Same
  <2> QED BY <1>2, <1>6, <2>1, <2>2
<1>8. ASSUME v \in N PROVE Same(createView(p, v, members))
  <2> DEFINE views == Put(p.views, v, NewView(members))
  <2>1. createView(p, v, members) = [p EXCEPT !.views = views]
    BY DEF createView
  <2>2. \A w \in DOMAIN p.views \cap DOMAIN views : views[w] = p.views[w]
    BY <1>8 DEF Put, Fits, ViewsFit
  <2> HIDE DEF views, Same
  <2> QED BY <1>6, <2>1, <2>2
<1> QED BY <1>3, <1>4, <1>5, <1>7, <1>8

-----------------------------------------------------------------------------
(* What the stores tell the analysis worker, value by value.               *)

Post(b, before, st) == PostWatch(PostSelect(b, st), before, st)

\* A handler that gives the stores one value.
LEMMA PostedOne == ASSUME NEW b, NEW s, NEW x PROVE Posted(b, s, <<x>>) = Post(b, s, x)
<1> DEFINE Step(told, i) == IF i = 0 THEN b
                            ELSE PostWatch(PostSelect(told[i - 1], <<x>>[i]),
                                           IF i = 1 THEN s ELSE <<x>>[i - 1], <<x>>[i])
           told == CHOOSE f : f = [i \in 0 .. Len(<<x>>) |-> Step(f, i)]
           g == [i \in 0 .. 1 |-> IF i = 0 THEN b ELSE Post(b, s, x)]
<1>1. Posted(b, s, <<x>>) = told[1]
  BY DEF Posted
<1>2. g = [i \in 0 .. Len(<<x>>) |-> Step(g, i)]
  BY DEF Post
<1>3. told = [i \in 0 .. Len(<<x>>) |-> Step(told, i)]
  <2> HIDE DEF g
  <2> QED BY <1>2
<1>4. told[0] = b /\ told[1] = Post(told[0], s, x)
  <2> HIDE DEF told
  <2> QED BY <1>3 DEF Post
<1> HIDE DEF told
<1> QED BY <1>1, <1>4

\* Two values.
LEMMA PostedTwo ==
  ASSUME NEW b, NEW s, NEW x, NEW y PROVE Posted(b, s, <<x, y>>) = Post(Post(b, s, x), x, y)
<1> DEFINE Step(told, i) == IF i = 0 THEN b
                            ELSE PostWatch(PostSelect(told[i - 1], <<x, y>>[i]),
                                           IF i = 1 THEN s ELSE <<x, y>>[i - 1], <<x, y>>[i])
           told == CHOOSE f : f = [i \in 0 .. Len(<<x, y>>) |-> Step(f, i)]
           first == Post(b, s, x)
           g == [i \in 0 .. 2 |-> IF i = 0 THEN b ELSE IF i = 1 THEN first ELSE Post(first, x, y)]
<1>1. Posted(b, s, <<x, y>>) = told[2]
  BY DEF Posted
<1>2. g = [i \in 0 .. Len(<<x, y>>) |-> Step(g, i)]
  BY DEF Post
<1>3. told = [i \in 0 .. Len(<<x, y>>) |-> Step(told, i)]
  <2> HIDE DEF g
  <2> QED BY <1>2
<1>4. told[0] = b /\ told[1] = Post(told[0], s, x) /\ told[2] = Post(told[1], x, y)
  <2> HIDE DEF told
  <2> QED BY <1>3 DEF Post
<1> HIDE DEF told
<1> QED BY <1>1, <1>4

\* Three.
LEMMA PostedThree ==
  ASSUME NEW b, NEW s, NEW x, NEW y, NEW z
  PROVE  Posted(b, s, <<x, y, z>>) = Post(Post(Post(b, s, x), x, y), y, z)
<1> DEFINE Step(told, i) == IF i = 0 THEN b
                            ELSE PostWatch(PostSelect(told[i - 1], <<x, y, z>>[i]),
                                           IF i = 1 THEN s ELSE <<x, y, z>>[i - 1], <<x, y, z>>[i])
           told == CHOOSE f : f = [i \in 0 .. Len(<<x, y, z>>) |-> Step(f, i)]
           first == Post(b, s, x)
           next == Post(first, x, y)
           g == [i \in 0 .. 3 |-> IF i = 0 THEN b ELSE IF i = 1 THEN first
                                  ELSE IF i = 2 THEN next ELSE Post(next, y, z)]
<1>1. Posted(b, s, <<x, y, z>>) = told[3]
  BY DEF Posted
<1>2. g = [i \in 0 .. Len(<<x, y, z>>) |-> Step(g, i)]
  BY DEF Post
<1>3. told = [i \in 0 .. Len(<<x, y, z>>) |-> Step(told, i)]
  <2> HIDE DEF g
  <2> QED BY <1>2
<1>4. /\ told[0] = b /\ told[1] = Post(told[0], s, x)
      /\ told[2] = Post(told[1], x, y) /\ told[3] = Post(told[2], y, z)
  <2> HIDE DEF told
  <2> QED BY <1>3 DEF Post
<1> HIDE DEF told
<1> QED BY <1>1, <1>4

-----------------------------------------------------------------------------
(* The rows the page will show once no reply is under way: those of the last reply with
   rows, or those it shows.                                                *)

Comes(replies, rows, of) ==
  \/ /\ \A i \in DOMAIN replies : replies[i].kind # "rows"
     /\ rows = of
  \/ \E i \in DOMAIN replies :
       /\ replies[i].kind = "rows" /\ replies[i].of = of
       /\ \A j \in DOMAIN replies : j > i => replies[j].kind # "rows"

\* Rows that are sent come after all others.
LEMMA RowsCome ==
  ASSUME NEW S, NEW replies \in Seq(S), NEW rows, NEW of
  PROVE  /\ replies \o Rows(of) \in Seq(S \cup {[kind |-> "rows", of |-> of]})
         /\ Comes(replies \o Rows(of), rows, of)
<1> DEFINE reply == [kind |-> "rows", of |-> of]
           T == S \cup {reply}
           all == replies \o <<reply>>
<1>1. replies \in Seq(T) /\ <<reply>> \in Seq(T)
  OBVIOUS
<1> HIDE DEF T
<1>2. all \in Seq(T) /\ Len(all) = Len(replies) + 1 /\ all[Len(replies) + 1] = reply
      /\ DOMAIN all = 1 .. Len(replies) + 1 /\ Len(replies) \in Nat
  BY <1>1
<1>3. reply.kind = "rows" /\ reply.of = of
  OBVIOUS
<1> HIDE DEF all, reply
<1>4. Comes(all, rows, of)
  BY <1>2, <1>3 DEF Comes
<1> QED BY <1>2, <1>4 DEF Rows, T, all, reply

\* A series that is sent leaves them.
LEMMA SeriesComes ==
  ASSUME NEW S, NEW replies \in Seq(S), NEW rows, NEW of, Comes(replies, rows, of), NEW watch
  PROVE  /\ replies \o Series(watch) \in Seq(S \cup {[kind |-> "series", of |-> watch]})
         /\ Comes(replies \o Series(watch), rows, of)
<1> DEFINE reply == [kind |-> "series", of |-> watch]
           T == S \cup {reply}
           all == replies \o <<reply>>
<1>1. replies \in Seq(T) /\ <<reply>> \in Seq(T)
  OBVIOUS
<1>2. CASE watch = {}
  <2>1. replies \o Series(watch) = replies
    BY <1>2 DEF Series
  <2> QED BY <1>1, <2>1
<1>3. CASE watch # {}
  <2> HIDE DEF T
  <2>1. all \in Seq(T) /\ Len(all) = Len(replies) + 1 /\ all[Len(replies) + 1] = reply
        /\ DOMAIN all = 1 .. Len(replies) + 1 /\ Len(replies) \in Nat
        /\ DOMAIN replies = 1 .. Len(replies)
        /\ \A i \in 1 .. Len(replies) : all[i] = replies[i]
    BY <1>1
  <2>2. reply.kind # "rows"
    OBVIOUS
  <2> HIDE DEF all, reply
  <2>3. Comes(all, rows, of)
    <3>1. CASE rows = of /\ \A i \in DOMAIN replies : replies[i].kind # "rows"
      <4>1. ASSUME NEW i \in DOMAIN all PROVE all[i].kind # "rows"
        BY <2>1, <2>2, <3>1
      <4> QED BY <3>1, <4>1 DEF Comes
    <3>2. ASSUME NEW i \in DOMAIN replies, replies[i].kind = "rows", replies[i].of = of,
                 \A j \in DOMAIN replies : j > i => replies[j].kind # "rows"
          PROVE  Comes(all, rows, of)
      <4>1. ASSUME NEW j \in DOMAIN all, j > i PROVE all[j].kind # "rows"
        BY <2>1, <2>2, <3>2, <4>1
      <4>2. i \in DOMAIN all /\ all[i] = replies[i]
        BY <2>1
      <4> QED BY <3>2, <4>1, <4>2 DEF Comes
    <3> QED BY <3>1, <3>2 DEF Comes
  <2> QED BY <1>3, <2>1, <2>3 DEF Series, T, all, reply
<1> QED BY <1>2, <1>3

\* The page takes a reply.
LEMMA ReplyTaken ==
  ASSUME NEW S, NEW replies \in Seq(S), replies # <<>>, NEW rows, NEW of, Comes(replies, rows, of)
  PROVE  /\ Tail(replies) \in Seq(S)
         /\ Comes(Tail(replies), IF Head(replies).kind = "rows" THEN Head(replies).of ELSE rows, of)
<1> DEFINE rest == Tail(replies)
           now == IF replies[1].kind = "rows" THEN replies[1].of ELSE rows
<1>1. /\ rest \in Seq(S) /\ Len(replies) \in Nat \ {0} /\ DOMAIN replies = 1 .. Len(replies)
      /\ DOMAIN rest = 1 .. Len(replies) - 1
      /\ \A i \in DOMAIN rest : rest[i] = replies[i + 1]
  OBVIOUS
<1>2. Head(replies) = replies[1]
  OBVIOUS
<1> HIDE DEF rest
<1>3. CASE rows = of /\ \A i \in DOMAIN replies : replies[i].kind # "rows"
  BY <1>1, <1>3 DEF Comes
<1>4. ASSUME NEW i \in DOMAIN replies, replies[i].kind = "rows", replies[i].of = of,
             \A j \in DOMAIN replies : j > i => replies[j].kind # "rows"
      PROVE  Comes(rest, now, of)
  <2>1. CASE i = 1
    <3>1. ASSUME NEW j \in DOMAIN rest PROVE rest[j].kind # "rows"
      BY <1>1, <1>4, <2>1
    <3> QED BY <1>4, <2>1, <3>1 DEF Comes
  <2>2. CASE i # 1
    <3>1. i - 1 \in DOMAIN rest /\ rest[i - 1] = replies[i]
      BY <1>1, <2>2
    <3>2. ASSUME NEW j \in DOMAIN rest, j > i - 1 PROVE rest[j].kind # "rows"
      BY SMTT(60), <1>1, <1>4, <3>2
    <3> QED BY <1>4, <3>1, <3>2 DEF Comes
  <2> QED BY <2>1, <2>2
<1> QED BY <1>1, <1>2, <1>3, <1>4 DEF Comes, rest

-----------------------------------------------------------------------------
(* The bridge is told what the stores say.                                 *)

WatchOf(st) == IF st.mode = "cluster" THEN clusterCards(st.project) ELSE {}

\* What postSelect and postClusterWatch were told last is what the worker has; it works on
\* what the stores select and, unless excused, watches the tiles they show; and the rows the
\* page will show are of what is selected.
Tells(b, st, rows, exc) ==
  /\ b \in [started : BOOLEAN, lastSelect : {b.lastSelect}, lastWatch : {b.lastWatch},
            sel : {b.sel}, watch : {b.watch}, replies : {b.replies}]
  /\ \E S : b.replies \in Seq(S)
  /\ b.lastWatch = b.watch
  /\ ~b.started => b.watch = {}
  /\ b.started => /\ b.lastSelect = Selecting(st) /\ b.sel = Selecting(st)
                  /\ "watch" \notin exc => b.watch = WatchOf(st)
                  /\ Comes(b.replies, rows, Selecting(st))

\* The project stays while the panel shows the tiles.
Calm(s, t) == s.mode = "cluster" => t.project = s.project

\* Another selection is told, another watch is not yet.
LEMMA SelectTells ==
  ASSUME NEW b, NEW s, NEW rows, NEW exc, Tells(b, s, rows, exc), NEW t
  PROVE  LET c == PostSelect(b, t)
         IN  /\ c \in [started : BOOLEAN, lastSelect : {c.lastSelect}, lastWatch : {b.watch},
                       sel : {c.sel}, watch : {b.watch}, replies : {c.replies}]
             /\ c.started = b.started
             /\ \E S : c.replies \in Seq(S)
             /\ b.started => /\ c.lastSelect = Selecting(t) /\ c.sel = Selecting(t)
                             /\ Comes(c.replies, rows, Selecting(t))
<1> DEFINE of == Selecting(t)
           c == PostSelect(b, t)
<1>1. PICK S : b.replies \in Seq(S)
  BY DEF Tells
<1>2. CASE ~b.started \/ of = b.lastSelect
  <2>1. c = b
    BY <1>2 DEF PostSelect
  <2> HIDE DEF of, c
  <2>2. /\ \E T : c.replies \in Seq(T)
        /\ b.started => c.lastSelect = of /\ c.sel = of /\ Comes(c.replies, rows, of)
        /\ c.started = b.started /\ c.lastWatch = b.watch /\ c.watch = b.watch
    BY <1>1, <1>2, <2>1 DEF Tells
  <2>3. c \in [started : BOOLEAN, lastSelect : {c.lastSelect}, lastWatch : {b.watch},
               sel : {c.sel}, watch : {b.watch}, replies : {c.replies}]
    BY <2>1 DEF Tells
  <2> QED BY <2>2, <2>3 DEF of, c
<1>3. CASE b.started /\ of # b.lastSelect
  <2> DEFINE sent == b.replies \o Rows(of)
  <2>1. \E T : sent \in Seq(T)
    BY <1>1, RowsCome
  <2>2. Comes(sent, rows, of)
    BY <1>1, RowsCome
  <2>3. c = [b EXCEPT !.lastSelect = of, !.sel = of, !.replies = sent]
    BY <1>3 DEF PostSelect
  <2> HIDE DEF of, c, sent
  <2>4. /\ c \in [started : BOOLEAN, lastSelect : {of}, lastWatch : {b.watch},
                  sel : {of}, watch : {b.watch}, replies : {sent}]
        /\ c.started = b.started /\ c.lastSelect = of /\ c.sel = of /\ c.replies = sent
    BY <2>3 DEF Tells
  <2> QED BY <2>1, <2>2, <2>4 DEF of, c
<1> QED BY <1>2, <1>3

\* A value is told: the watch was right before or a change of mode sets it right, if the
\* project does not change under the tiles.
LEMMA PostTells ==
  ASSUME NEW b, NEW s, NEW rows, NEW exc, Tells(b, s, rows, exc), NEW t, NEW late,
         "watch" \notin late => ("watch" \notin exc \/ s.mode # t.mode) /\ Calm(s, t)
  PROVE  Tells(Post(b, s, t), t, rows, late)
<1> DEFINE c == PostSelect(b, t)
           seen == IF s.mode = "cluster" THEN s.project ELSE t.project
           watch == IF t.mode = "cluster" THEN clusterCards(seen) ELSE {}
           of == Selecting(t)
           d == Post(b, s, t)
<1>1. /\ c \in [started : BOOLEAN, lastSelect : {c.lastSelect}, lastWatch : {b.watch},
                sel : {c.sel}, watch : {b.watch}, replies : {c.replies}]
      /\ c.started = b.started
      /\ \E S : c.replies \in Seq(S)
      /\ b.started => c.lastSelect = of /\ c.sel = of /\ Comes(c.replies, rows, of)
  BY SelectTells
<1>2. /\ ~b.started => b.watch = {}
      /\ b.started /\ "watch" \notin exc => b.watch = WatchOf(s)
  BY DEF Tells
<1>3. d = IF \/ ~c.started \/ watch = c.lastWatch
             \/ s.project = t.project /\ s.mode = t.mode THEN c
          ELSE [c EXCEPT !.lastWatch = watch, !.watch = watch, !.replies = @ \o Series(watch)]
  BY DEF Post, PostWatch
<1>4. ASSUME "watch" \notin late, s.mode # t.mode \/ s.project # t.project PROVE watch = WatchOf(t)
  BY <1>4 DEF WatchOf, Calm
<1>5. ASSUME "watch" \notin late, s.mode = t.mode, s.project = t.project, b.started
      PROVE  b.watch = WatchOf(t)
  BY <1>2, <1>5 DEF WatchOf
<1>6. c.lastWatch = b.watch /\ c.watch = b.watch
  BY <1>1
<1>7. CASE ~c.started \/ watch = c.lastWatch \/ (s.project = t.project /\ s.mode = t.mode)
  <2>1. d = c
    BY <1>3, <1>7
  <2>2. c.started /\ "watch" \notin late => c.watch = WatchOf(t)
    BY <1>1, <1>4, <1>5, <1>6, <1>7
  <2> HIDE DEF c, d, of, watch
  <2> QED BY <1>1, <1>2, <1>6, <2>1, <2>2 DEF Tells, d, of
<1>8. CASE c.started /\ watch # c.lastWatch /\ ~(s.project = t.project /\ s.mode = t.mode)
  <2> DEFINE sent == c.replies \o Series(watch)
  <2>1. d = [c EXCEPT !.lastWatch = watch, !.watch = watch, !.replies = sent]
    BY <1>3, <1>8
  <2>2. PICK S : c.replies \in Seq(S)
    BY <1>1
  <2>3. Comes(sent, rows, of) /\ \E T : sent \in Seq(T)
    BY <1>1, <1>8, <2>2, SeriesComes
  <2> HIDE DEF c, d, of, watch, sent
  <2>4. /\ d \in [started : BOOLEAN, lastSelect : {d.lastSelect}, lastWatch : {d.lastWatch},
                  sel : {d.sel}, watch : {d.watch}, replies : {d.replies}]
        /\ d.started = c.started /\ d.lastSelect = c.lastSelect /\ d.sel = c.sel
        /\ d.lastWatch = watch /\ d.watch = watch /\ d.replies = sent
    BY <1>1, <2>1
  <2>5. "watch" \notin late => watch = WatchOf(t)
    BY <1>4, <1>8
  <2> QED BY <1>1, <1>8, <2>3, <2>4, <2>5 DEF Tells, d, of
<1> HIDE DEF c, d, watch, seen, of
<1> QED BY <1>7, <1>8

-----------------------------------------------------------------------------
(* The editors show what is kept for their targets.                        *)

\* Excused are those in exc; and in another mode they are closed.
Reflect(ed, st, exc) ==
  /\ ed = [w \in Editors |-> ed[w]]
  /\ \A w \in Editors :
       IF st.mode = "explore"
       THEN /\ ed[w] = [for |-> Target(st, w), text |-> ed[w].text]
            /\ w \notin exc => ed[w].text = Kept(st, w)
       ELSE ed[w] = Closed

\* In Explore, what is kept for a target that stays, stays.
Reads(s, t) ==
  s.mode = "explore" /\ t.mode = "explore" =>
    \A w \in Editors : Target(t, w) = Target(s, w) => Kept(t, w) = Kept(s, w)

\* It does when the project keeps the texts.
LEMMA TextsRead ==
  ASSUME NEW s, NEW t, KeepsTexts(s.project, t.project),
         s.activeView \in DOMAIN s.project.views, t.activeView \in DOMAIN t.project.views
  PROVE  Reads(s, t)
<1> SUFFICES ASSUME NEW w \in Editors, Target(t, w) = Target(s, w) PROVE Kept(t, w) = Kept(s, w)
  BY DEF Reads
<1>1. CASE w = "custom"
  BY <1>1 DEF Target, Kept, KeepsTexts
<1>2. CASE w # "custom"
  <2>1. s.activeView = t.activeView
    BY <1>2 DEF Target
  <2> QED BY <1>2, <2>1 DEF Kept, KeepsTexts, Editors
<1> QED BY <1>1, <1>2

\* None is the target of an editor of a tab.
LEMMA TabTarget ==
  ASSUME NEW st, st.activeView # Null, NEW w \in Editors, Target(st, w) = Null
  PROVE  Kept(st, w) = Null
BY DEF Editors, Target, Kept

\* Editors read what is kept for a target that is new to them; the others must show it already.
LEMMA Hydrates ==
  ASSUME NEW ed, NEW s, NEW exc, Reflect(ed, s, exc), NEW t, t.activeView # Null, NEW late,
         \A w \in Editors \ late :
           s.mode = "explore" /\ t.mode = "explore" /\ Target(t, w) = Target(s, w) =>
             ed[w].text = Kept(t, w)
  PROVE  Reflect([w \in Editors |-> Hydrated(ed[w], t, w)], t, late)
<1> DEFINE now == [w \in Editors |-> Hydrated(ed[w], t, w)]
<1>1. ASSUME NEW w \in Editors
      PROVE  IF t.mode = "explore"
             THEN /\ now[w] = [for |-> Target(t, w), text |-> now[w].text]
                  /\ w \notin late => now[w].text = Kept(t, w)
             ELSE now[w] = Closed
  <2>0. now[w] = Hydrated(ed[w], t, w)
    OBVIOUS
  <2> HIDE DEF now
  <2>1. CASE t.mode # "explore"
    BY <2>0, <2>1 DEF Hydrated
  <2>2. CASE t.mode = "explore" /\ Target(t, w) # ed[w].for
    BY <2>0, <2>2 DEF Hydrated
  <2>3. CASE t.mode = "explore" /\ Target(t, w) = ed[w].for
    <3>0. now[w] = ed[w]
      BY <2>0, <2>3 DEF Hydrated
    <3>1. CASE s.mode = "explore"
      BY <2>3, <3>0, <3>1 DEF Reflect
    <3>2. CASE s.mode # "explore"
      <4>1. ed[w] = Closed /\ Closed.for = Null /\ Closed.text = Null
        BY <3>2 DEF Reflect, Closed
      <4>2. Kept(t, w) = Null
        BY <2>3, <4>1, TabTarget
      <4> QED BY <2>3, <3>0, <4>1, <4>2 DEF Closed
    <3> QED BY <3>1, <3>2
  <2> QED BY <2>1, <2>2, <2>3
<1> QED BY <1>1 DEF Reflect

-----------------------------------------------------------------------------
(* The workers and the editors follow a step.                              *)

\* What the page shows and what it has told the workers are in step.
StepInv ==
  /\ messages \in [rows : {messages.rows}, series : {messages.series}]
  /\ Tells(bridge, stores, messages.rows, excused)
  /\ Reflect(editor, stores, excused)

\* The project stays while the tiles are shown, from each of the values to the next.
Smooth(values) ==
  \/ \E x : values = <<x>> /\ Calm(stores, x)
  \/ \E x, y : values = <<x, y>> /\ Calm(stores, x) /\ Calm(x, y)
  \/ \E x, y, z : values = <<x, y, z>> /\ Calm(stores, x) /\ Calm(x, y) /\ Calm(y, z)

\* A step that leaves them alone.
Idle == UNCHANGED <<stores, editor, bridge, messages, excused>>

\* A handler that does so and keeps what the editors are about.
Followed ==
  \E values :
    Handler(values) /\ Smooth(values) /\ Reads(stores, Last(values)) /\ messages' = messages

\* The invariant says what is promised.
LEMMA StepsHold == StepInv => InStep
<1> SUFFICES ASSUME StepInv PROVE InStep
  OBVIOUS
<1>1. ASSUME bridge.started
      PROVE  /\ Selecting(stores) = [sel |-> bridge.sel.sel, def |-> bridge.sel.def,
                                     window |-> bridge.sel.window]
             /\ "watch" \notin excused =>
                  bridge.watch = IF Panel("cluster") THEN clusterCards(Project) ELSE {}
             /\ bridge.replies = <<>> => messages.rows = Selecting(stores)
  <2> DEFINE of == Selecting(stores)
  <2>1. of = [sel |-> of.sel, def |-> of.def, window |-> of.window]
    BY DEF Selecting
  <2> HIDE DEF of
  <2>2. /\ bridge.sel = of /\ Comes(bridge.replies, messages.rows, of)
        /\ "watch" \notin excused => bridge.watch = WatchOf(stores)
    BY <1>1 DEF StepInv, Tells, of
  <2>3. ASSUME bridge.replies = <<>> PROVE messages.rows = of
    <3>1. DOMAIN bridge.replies = {}
      BY <2>3
    <3> QED BY <2>2, <3>1 DEF Comes
  <2>4. Selecting(stores) = [sel |-> bridge.sel.sel, def |-> bridge.sel.def,
                             window |-> bridge.sel.window]
    BY <2>1, <2>2 DEF of
  <2>5. WatchOf(stores) = IF Panel("cluster") THEN clusterCards(Project) ELSE {}
    BY DEF WatchOf, Panel, Project
  <2> QED BY <2>2, <2>3, <2>4, <2>5 DEF of
<1>2. ASSUME NEW w \in Editors, Panel("explore"), w \notin excused
      PROVE  editor[w] = [for |-> Target(stores, w), text |-> Kept(stores, w)]
  BY <1>2 DEF StepInv, Reflect, Panel
<1> QED BY <1>1, <1>2 DEF InStep

\* The worker is told of each of the values a handler gives the stores.
LEMMA BridgeFollows ==
  ASSUME Tells(bridge, stores, messages.rows, excused), NEW values, Smooth(values), NEW late,
         "watch" \notin late => "watch" \notin excused \/ Last(values).mode # stores.mode
  PROVE  Tells(Posted(bridge, stores, values), Last(values), messages.rows, late)
<1> DEFINE rows == messages.rows
           Next1(s, exc, t) == IF s.mode # t.mode THEN {} ELSE exc
<1>0. ASSUME NEW b, NEW s, NEW exc, NEW t, Tells(b, s, rows, exc), Calm(s, t)
      PROVE  Tells(Post(b, s, t), t, rows, Next1(s, exc, t))
  BY <1>0, PostTells
<1>1. ASSUME NEW x, values = <<x>>, Calm(stores, x)
      PROVE  Tells(Posted(bridge, stores, values), Last(values), rows, late)
  <2>1. Last(values) = x /\ Posted(bridge, stores, values) = Post(bridge, stores, x)
    BY <1>1, Finally, PostedOne
  <2> QED BY <1>1, <2>1, PostTells
<1>2. ASSUME NEW x, NEW y, values = <<x, y>>, Calm(stores, x), Calm(x, y)
      PROVE  Tells(Posted(bridge, stores, values), Last(values), rows, late)
  <2> DEFINE b == Post(bridge, stores, x)
             exc == Next1(stores, excused, x)
  <2>1. Last(values) = y /\ Posted(bridge, stores, values) = Post(b, x, y)
    BY <1>2, PostedTwo DEF Last
  <2>2. Tells(b, x, rows, exc)
    BY <1>0, <1>2
  <2>3. "watch" \notin late => "watch" \notin exc \/ x.mode # y.mode
    BY <2>1
  <2> HIDE DEF b, exc
  <2> QED BY <1>2, <2>1, <2>2, <2>3, PostTells
<1>3. ASSUME NEW x, NEW y, NEW z, values = <<x, y, z>>, Calm(stores, x), Calm(x, y), Calm(y, z)
      PROVE  Tells(Posted(bridge, stores, values), Last(values), rows, late)
  <2> DEFINE b == Post(bridge, stores, x)
             c == Post(b, x, y)
             exc == Next1(stores, excused, x)
             then == Next1(x, exc, y)
  <2>1. Last(values) = z /\ Posted(bridge, stores, values) = Post(c, y, z)
    BY <1>3, PostedThree DEF Last
  <2>2. Tells(b, x, rows, exc)
    BY <1>0, <1>3
  <2>3. Tells(c, y, rows, then)
    <3> HIDE DEF b, exc
    <3> QED BY <1>0, <1>3, <2>2
  <2>4. "watch" \notin late => "watch" \notin then \/ y.mode # z.mode
    BY <2>1
  <2> HIDE DEF b, c, exc, then
  <2> QED BY <1>3, <2>1, <2>3, <2>4, PostTells
<1> QED BY <1>1, <1>2, <1>3 DEF Smooth

\* A handler keeps the page in step.
LEMMA FollowedSteps == ASSUME StepInv, Followed, stores'.activeView # Null PROVE StepInv'
<1>1. PICK values : /\ Handler(values) /\ Smooth(values) /\ Reads(stores, Last(values))
                    /\ messages' = messages
  BY DEF Followed
<1> DEFINE st == Last(values)
<1>2. /\ stores' = st /\ bridge' = Posted(bridge, stores, values)
      /\ editor' = [w \in Editors |-> Hydrated(editor[w], st, w)]
      /\ excused' = excused \ Fresh(st)
  BY <1>1 DEF Handler, Settles
<1>3. "watch" \notin excused' => "watch" \notin excused \/ st.mode # stores.mode
  BY <1>2 DEF Fresh, Editors
<1>4. Tells(bridge', stores', messages.rows, excused')
  BY <1>1, <1>2, <1>3, BridgeFollows DEF StepInv
<1>5. ASSUME NEW w \in Editors \ excused', stores.mode = "explore", st.mode = "explore",
             Target(st, w) = Target(stores, w)
      PROVE  editor[w].text = Kept(st, w)
  <2>1. editor[w].for = Target(stores, w) /\ (w \notin excused => editor[w].text = Kept(stores, w))
    BY <1>5 DEF StepInv, Reflect
  <2>2. w \notin excused
    BY <1>2, <1>5, <2>1 DEF Fresh, Editors
  <2> QED BY <1>1, <1>5, <2>1, <2>2 DEF Reads
<1> HIDE DEF st
<1>6. Reflect(editor', stores', excused')
  BY <1>2, <1>5, Hydrates DEF StepInv
<1> QED BY <1>1, <1>4, <1>6 DEF StepInv

\* So does a step that leaves all of it alone.
LEMMA IdleSteps == ASSUME StepInv, Idle PROVE StepInv'
BY DEF StepInv, Idle

\* The runs stay.
RunsStay == stores'.project.fieldRuns = fieldRuns

\* The tab that is open is one of the project's, and so is none of the ids to come.
LEMMA TabOpen == ASSUME ProjInv PROVE stores.activeView \in DOMAIN Project.views /\ stores.activeView # Null
BY DEF ProjInv, Fits, ViewsFit, Unused

\* A handler that leaves the project alone.
LEMMA SameFollows ==
  ASSUME ProjInv, ProjInv', NEW values, Handler(values), messages' = messages,
         \/ \E x : values = <<x>> /\ x.project = Project
         \/ \E x, y : values = <<x, y>> /\ x.project = Project /\ y.project = Project
  PROVE  Followed /\ RunsStay
<1>1. Last(values).project = Project /\ Smooth(values)
  <2>1. ASSUME NEW x, values = <<x>>, x.project = Project
        PROVE  Last(values).project = Project /\ Smooth(values)
    BY <2>1, Finally DEF Smooth, Calm, Project
  <2>2. ASSUME NEW x, NEW y, values = <<x, y>>, x.project = Project, y.project = Project
        PROVE  Last(values).project = Project /\ Smooth(values)
    BY <2>2, Finally DEF Smooth, Calm, Project
  <2> QED BY <2>1, <2>2
<1>2. stores' = Last(values)
  BY DEF Handler, Settles
<1>3. KeepsTexts(Project, Project)
  BY DEF KeepsTexts
<1>4. Reads(stores, Last(values))
  BY <1>1, <1>2, <1>3, TabOpen, TextsRead DEF Project, ProjInv
<1> QED BY <1>1, <1>2, <1>4 DEF Followed, RunsStay, fieldRuns

\* An edit that keeps the texts, away from the tiles.
LEMMA EditFollows ==
  ASSUME LinkInv, ProjInv, ProjInv', NEW p, Edit(p), stores.mode # "cluster",
         stores.mode = "explore" => KeepsTexts(Project, p)
  PROVE  Followed /\ stores'.project = p
<1> DEFINE st == [stores EXCEPT !.project = p]
<1>1. Handler(<<st>>) /\ messages' = messages
  BY DEF Edit, Rewrites
<1>2. st.project = p /\ st.mode = stores.mode
  BY ShownProject DEF LinkInv
<1> HIDE DEF st
<1>3. Last(<<st>>) = st /\ stores' = st
  BY <1>1, Finally DEF Handler, Settles
<1>4. Smooth(<<st>>)
  BY DEF Smooth, Calm
<1>5. Reads(stores, st)
  <2>1. CASE stores.mode = "explore"
    BY <1>2, <1>3, <2>1, TextsRead DEF ProjInv, Project
  <2> QED BY <2>1 DEF Reads
<1> QED BY <1>1, <1>2, <1>3, <1>4, <1>5 DEF Followed

\* Two values in a row, and three.
LEMMA JoinedTwo == ASSUME NEW a, NEW b PROVE <<a>> \o <<b>> = <<a, b>>
<1> DEFINE S == {a, b}
           s == <<a>> \o <<b>>
<1>1. s \in Seq(S) /\ Len(s) = 2 /\ s[1] = a /\ s[2] = b
  OBVIOUS
<1>2. <<a, b>> \in Seq(S) /\ Len(<<a, b>>) = 2
  OBVIOUS
<1> HIDE DEF s
<1>3. s = <<a, b>>
  BY <1>1, <1>2, SeqEqual
<1> QED BY <1>3 DEF s

\* The same for three.
LEMMA JoinedThree == ASSUME NEW a, NEW b, NEW c PROVE <<a>> \o <<b, c>> = <<a, b, c>>
<1> DEFINE S == {a, b, c}
           s == <<a>> \o <<b, c>>
<1>1. s \in Seq(S) /\ Len(s) = 3 /\ s[1] = a /\ s[2] = b /\ s[3] = c
  OBVIOUS
<1>2. <<a, b, c>> \in Seq(S) /\ Len(<<a, b, c>>) = 3
  OBVIOUS
<1> HIDE DEF s
<1>3. s = <<a, b, c>>
  BY <1>1, <1>2, SeqEqual
<1> QED BY <1>3 DEF s

\* One that also shows something.
LEMMA MovingFollows ==
  ASSUME LinkInv, ProjInv, ProjInv', NEW p, NEW v, EditMoving(p, <<v>>), v.project = p,
         stores.mode # "cluster", stores.mode = "explore" => KeepsTexts(Project, p)
  PROVE  Followed /\ stores'.project = p
<1> DEFINE u == [stores EXCEPT !.project = p]
<1>1. Handler(<<u>> \o <<v>>) /\ messages' = messages
  BY DEF EditMoving, Moves
<1>2. u.project = p
  BY ShownProject DEF LinkInv
<1> HIDE DEF u
<1>3. <<u>> \o <<v>> = <<u, v>>
  BY JoinedTwo
<1>31. Last(<<u, v>>) = v
  BY Finally
<1>4. Handler(<<u, v>>) /\ stores' = v
  BY <1>1, <1>3, <1>31 DEF Handler, Settles
<1>5. Smooth(<<u, v>>)
  BY <1>2 DEF Smooth, Calm
<1>6. Reads(stores, v)
  <2>1. CASE stores.mode = "explore"
    BY <1>4, <2>1, TextsRead DEF ProjInv, Project
  <2> QED BY <2>1 DEF Reads
<1> QED BY <1>1, <1>31, <1>4, <1>5, <1>6 DEF Followed

\* Going about the page.
LEMMA MovingFollowed ==
  ASSUME LinkInv, ProjInv, ProjInv', MovingStep
  PROVE  RunsStay /\ (Followed \/ Idle)
<1>0. Shown(stores)
  BY DEF LinkInv
<1> DEFINE Goal == RunsStay /\ (Followed \/ Idle)
<1>1. ASSUME NEW x, Handler(<<x>>), messages' = messages, x.project = Project PROVE Goal
  BY <1>1, SameFollows
<1>2. ASSUME NEW x, NEW y, Handler(<<x, y>>), messages' = messages,
             x.project = Project, y.project = Project
      PROVE  Goal
  BY <1>2, SameFollows
<1> HIDE DEF Goal
<1>3. ASSUME NEW k PROVE SetSelected(stores, k).project = Project /\ setPrimary(stores, k).project = Project
  <2> DEFINE s == SetSelected(stores, k)
  <2>1. Shown(s) /\ s.project = Project
    BY <1>0, ShownSelected DEF Project
  <2>2. setPrimary(stores, k) = SetMux(s, Null)
    BY DEF setPrimary
  <2> HIDE DEF s
  <2>3. SetMux(s, Null).project = Project
    BY <2>1, ShownMux
  <2> QED BY <2>1, <2>2, <2>3 DEF s
<1>4. ASSUME NEW mode \in Modes, SetMode(mode) PROVE Goal
  <2> DEFINE v == [stores EXCEPT !.mode = mode]
  <2>1. Handler(<<v>>) /\ messages' = messages /\ v.project = Project
    BY <1>0, <1>4 DEF SetMode, Shows, Moves, Shown, Project
  <2> HIDE DEF v
  <2> QED BY <2>1, <1>1
<1>5. ASSUME NEW sub \in Subs, PickSub(sub) PROVE Goal
  <2> DEFINE v == [stores EXCEPT !.sub = sub]
  <2>1. Handler(<<v>>) /\ messages' = messages /\ v.project = Project
    BY <1>0, <1>5 DEF PickSub, Shows, Moves, Shown, Project
  <2> HIDE DEF v
  <2> QED BY <2>1, <1>1
<1>6. ASSUME NEW i \in Rowed, NEW how \in {"plain", "ctrl", "shift"}, onRowClick(i, how) PROVE Goal
  BY <1>2, <1>3, <1>6 DEF onRowClick, Shows, Moves
<1>7. ASSUME selectAll PROVE Goal
  <2> DEFINE u == SetSelected(stores, TableRows[1])
             v == setPrimary(stores, TableRows[1])
  <2>1. Handler(<<u, v>>) /\ messages' = messages /\ u.project = Project /\ v.project = Project
    BY <1>3, <1>7 DEF selectAll, Shows, Moves
  <2> HIDE DEF u, v
  <2> QED BY <2>1, <1>2
<1>8. ASSUME snapshotSort \/ clearSort PROVE Goal
  BY <1>8 DEF snapshotSort, clearSort, Goal, Idle, RunsStay, fieldRuns, Project
<1>9. ASSUME NEW k \in Keys, selectOne(k) PROVE Goal
  BY <1>1, <1>3, <1>9 DEF selectOne, Shows, Moves
<1>10. ASSUME NEW mux, selectMessage(mux) PROVE Goal
  <2> DEFINE v == SetMux(stores, mux)
  <2>1. v.project = Project
    BY <1>0, <1>10, ShownMux DEF selectMessage, Sel, Project
  <2>2. Handler(<<v>>) /\ messages' = messages
    BY <1>10 DEF selectMessage, Shows, Moves
  <2> HIDE DEF v
  <2> QED BY <1>1, <2>1, <2>2
<1>11. ASSUME NEW mux, selectSignal(mux) PROVE Goal
  <2>1. PICK id : Shows(<<[stores EXCEPT !.signal = id]>>)
    BY <1>11 DEF selectSignal, SetSignal
  <2> DEFINE v == [stores EXCEPT !.signal = id]
  <2>2. Handler(<<v>>) /\ messages' = messages /\ v.project = Project
    BY <1>0, <2>1 DEF Shows, Moves, Shown, Project
  <2> HIDE DEF v
  <2> QED BY <2>2, <1>1
<1>12. ASSUME NEW card, inspect(card) PROVE Goal
  <2> DEFINE st == SetSelected(stores, card.frame)
             v == [st EXCEPT !.mode = "explore"]
  <2>1. Shows(<<st, v>>)
    BY <1>12 DEF inspect
  <2>2. Shown(st) /\ st.project = Project
    BY <1>0, ShownSelected DEF Project
  <2> HIDE DEF st
  <2>3. v.project = Project
    BY <2>2 DEF Shown
  <2> HIDE DEF v
  <2> QED BY <2>1, <2>2, <2>3, <1>2 DEF Shows, Moves
<1>13. ASSUME NEW seconds, setWindow(seconds) PROVE Goal
  <2> DEFINE v == [stores EXCEPT !.window = seconds]
  <2>1. Handler(<<v>>) /\ messages' = messages /\ v.project = Project
    BY <1>0, <1>13 DEF setWindow, Shown, Project
  <2> HIDE DEF v
  <2> QED BY <2>1, <1>1
<1>14. ASSUME NEW link \in Pasted, onHashChange(link) PROVE Goal
  <2> DEFINE u == [stores EXCEPT !.mode = link.mode]
             v == applyHash(stores, link)
  <2>1. Handler(<<u, v>>) /\ messages' = messages
    BY <1>14 DEF onHashChange
  <2>2. u.project = Project /\ v.project = Project
    BY <1>0, LinkSpares DEF Shown, Project
  <2> HIDE DEF u, v
  <2> QED BY <2>1, <2>2, <1>2
<1> QED BY <1>4, <1>5, <1>6, <1>7, <1>8, <1>9, <1>10, <1>11, <1>12, <1>13, <1>14 DEF MovingStep, Goal

\* A tab asks for a name, or no more: what it hides stays.
LEMMA FilterAsks ==
  ASSUME NEW p, NEW N, Fits(p, N), NEW v, NEW needle
  PROVE  LET q == mutateFilter(p, v, p.views[v].filter.hides, needle)
         IN  KeepsTexts(p, q) /\ q.fieldRuns = p.fieldRuns
<1> DEFINE old == p.views[v]
           filter == [hides |-> old.filter.hides, needle |-> needle]
           view == [old EXCEPT !.filter = filter]
           views == [p.views EXCEPT ![v] = view]
           r == [p EXCEPT !.views = views]
<1>1. mutateFilter(p, v, old.filter.hides, needle) = IF v \in DOMAIN p.views THEN r ELSE p
  BY DEF mutateFilter, OnView
<1>2. ASSUME v \in DOMAIN p.views PROVE KeepsTexts(p, r) /\ r.fieldRuns = p.fieldRuns
  <2>0. Record(p) /\ ViewFits(old)
    BY <1>2 DEF Fits, ViewsFit
  <2>1. filter.hides = old.filter.hides
    OBVIOUS
  <2>2. view.formula = old.formula /\ view.filter = filter
    <3> HIDE DEF old, filter
    <3> QED BY <2>0 DEF ViewFits
  <2> HIDE DEF view, filter
  <2>3. DOMAIN views = DOMAIN p.views
        /\ \A w \in DOMAIN views : views[w] = IF w = v THEN view ELSE p.views[w]
    OBVIOUS
  <2> HIDE DEF views
  <2>4. r.views = views /\ r.frameFormulas = p.frameFormulas /\ r.fieldRuns = p.fieldRuns
    BY <2>0 DEF Record
  <2> HIDE DEF r
  <2> QED BY <2>1, <2>2, <2>3, <2>4 DEF KeepsTexts
<1>3. KeepsTexts(p, p)
  BY DEF KeepsTexts
<1> HIDE DEF r
<1> QED BY <1>1, <1>2, <1>3

\* Editing a frame, its messages and its signals, but for what is typed.
LEMMA FrameFollowed ==
  ASSUME LinkInv, ProjInv, ProjInv', FrameStep
  PROVE  (RunsStay /\ Followed) \/ \E which \in Editors : \E text : Types(which, text)
<1> DEFINE Goal == RunsStay /\ Followed
           N == Unused
<1>0. Shown(stores) /\ Fits(Project, N) /\ Record(Project)
  BY DEF LinkInv, ProjInv, Fits
<1> HIDE DEF N
<1>1. ASSUME NEW p, Edit(p), Panel("explore"), Elsewhere(Project, p) PROVE Goal
  <2>1. KeepsTexts(Project, p) /\ p.fieldRuns = fieldRuns
    BY <1>1, ElsewhereKeeps DEF Elsewhere, fieldRuns
  <2> QED BY <1>1, <2>1, EditFollows DEF Panel, RunsStay
<1>2. ASSUME NEW p, NEW id, EditMoving(p, <<[stores EXCEPT !.project = p, !.signal = id]>>),
             Panel("explore"), Elsewhere(Project, p)
      PROVE  Goal
  <2> DEFINE v == [stores EXCEPT !.project = p, !.signal = id]
  <2>1. KeepsTexts(Project, p) /\ p.fieldRuns = fieldRuns
    BY <1>2, ElsewhereKeeps DEF Elsewhere, fieldRuns
  <2>2. EditMoving(p, <<v>>)
    BY <1>2
  <2>3. v.project = p
    BY <1>0 DEF Shown
  <2> HIDE DEF v
  <2> QED BY <1>2, <2>1, <2>2, <2>3, MovingFollows DEF Panel, RunsStay
<1> HIDE DEF Goal
<1>3. ASSUME NEW mode, NEW byte, setMode(mode, byte) PROVE Goal
  BY <1>0, <1>1, <1>3, EditsElsewhere DEF setMode, Inspected
<1>4. ASSUME NEW k, commitName(k) PROVE Goal
  BY <1>0, <1>1, <1>4, EditsElsewhere DEF commitName
<1>5. ASSUME addNewSignal PROVE Goal
  <2> DEFINE p == addSignal(Project, Sel, MakeSignal(FreshId, 0, FALSE))
  <2>1. EditMoving(p, <<[stores EXCEPT !.project = p, !.signal = FreshId]>>) /\ Panel("explore")
    BY <1>5 DEF addNewSignal, Inspected
  <2>2. Elsewhere(Project, p)
    BY <1>0, EditsElsewhere
  <2> HIDE DEF p
  <2> QED BY <1>2, <2>1, <2>2
<1>6. ASSUME addNewDerived PROVE Goal
  <2> DEFINE p == addDerivedSignal(Project, Sel, FreshId)
  <2>1. EditMoving(p, <<[stores EXCEPT !.project = p, !.signal = FreshId]>>) /\ Panel("explore")
    BY <1>6 DEF addNewDerived, Inspected
  <2>2. Elsewhere(Project, p)
    BY <1>0, EditsElsewhere
  <2> HIDE DEF p
  <2> QED BY <1>2, <2>1, <2>2
<1>7. ASSUME remove PROVE Goal
  <2> DEFINE p == removeDerivedSignal(Project, Sel, stores.signal)
  <2>1. EditMoving(p, <<[stores EXCEPT !.project = p, !.signal = Null]>>) /\ Panel("explore")
    BY <1>7 DEF remove, Inspected
  <2>2. Elsewhere(Project, p)
    BY <1>0, EditsElsewhere
  <2> HIDE DEF p
  <2> QED BY <1>2, <2>1, <2>2
<1>8. ASSUME NEW s \in Edited PROVE Panel("explore")
  BY DEF Edited, Inspected
<1>9. ASSUME del \/ toggleMux PROVE Goal
  <2>1. Panel("explore") /\ \E id : \/ Edit(removeSignal(Project, Sel, id))
                                    \/ Edit(setMultiplexor(Project, Sel, id))
    BY <1>8, <1>9 DEF del, toggleMux
  <2> QED BY <1>0, <1>1, <2>1, EditsElsewhere
<1>10. ASSUME NEW byte, NEW under, commit(byte, under) PROVE Goal
  <2>1. Panel("explore") /\ \E sig : Edit(updateSignal(Project, Sel, sig))
    BY <1>8, <1>10 DEF commit
  <2> QED BY <1>0, <1>1, <2>1, EditsElsewhere
<1>11. ASSUME NEW mux, NEW named, commitEdit(mux, named) PROVE Goal
  <2>1. Panel("explore") /\ Edit(setMessageName(Project, Message(Sel, mux), named))
    BY <1>11 DEF commitEdit, Inspected
  <2> QED BY <1>0, <1>1, <2>1, EditsElsewhere
<1>12. ASSUME NEW needle, AsksName(needle) PROVE Goal
  <2> DEFINE v == stores.activeView
             hides == Project.views[v].filter.hides
             p == mutateFilter(Project, v, hides, needle)
  <2>1. Edit(p) /\ Panel("explore")
    BY <1>12 DEF AsksName
  <2>2. KeepsTexts(Project, p) /\ p.fieldRuns = fieldRuns
    BY <1>0, FilterAsks DEF fieldRuns
  <2> HIDE DEF p
  <2> QED BY <2>1, <2>2, EditFollows DEF Panel, RunsStay, Goal
<1>13. ASSUME NEW which \in Editors, NEW text, Types(which, text)
       PROVE  \E x \in Editors : \E y : Types(x, y)
  BY <1>13
<1> QED BY <1>3, <1>4, <1>5, <1>6, <1>7, <1>9, <1>10, <1>11, <1>12, <1>13 DEF FrameStep, Goal, Editors

\* Opening, filling and closing tabs.
LEMMA TabFollowed == ASSUME LinkInv, ProjInv, ProjInv', TabStep PROVE RunsStay /\ Followed
<1> DEFINE Goal == RunsStay /\ Followed
           N == Unused
           Keeps1(q) == KeepsTexts(Project, q) /\ q.fieldRuns = Project.fieldRuns
<1>0. Shown(stores) /\ Fits(Project, N)
  BY DEF LinkInv, ProjInv
<1> HIDE DEF N
<1>01. ASSUME NEW x, NEW members
       PROVE  /\ \A in : Keeps1(setFramesInView(Project, x, members, in))
              /\ Keeps1(clearViewMembers(Project, x))
              /\ Keeps1(tagAllVisible(Project, x, members))
  <2>1. Keeps1(clearViewMembers(Project, x))
    BY <1>0, TabsKeep
  <2>2. Keeps1(tagAllVisible(Project, x, members))
    BY <1>0, TabsKeep
  <2>3. ASSUME NEW in PROVE Keeps1(setFramesInView(Project, x, members, in))
    BY <1>0, <2>2, TabsKeep
  <2> QED BY <2>1, <2>2, <2>3
<1>1. ASSUME NEW p, Edit(p), Panel("explore"), Keeps1(p) PROVE Goal
  BY <1>1, EditFollows DEF Panel, RunsStay, fieldRuns
<1>2. ASSUME NEW keys, Opens(keys) PROVE Goal
  <2> DEFINE members == {Whole(k) : k \in keys}
             p == createView(Project, FreshId, members)
             u == [stores EXCEPT !.project = p]
             v == [stores EXCEPT !.project = p, !.activeView = FreshId]
  <2>1. Handler(<<u, v>>) /\ Spends /\ Panel("explore") /\ messages' = messages
    BY <1>2 DEF Opens
  <2>2. FreshId \in N
    BY <2>1, EditsConstants DEF Spends, ProjInv, FreshId, Unused, N
  <2>3. Keeps1(p)
    <3> HIDE DEF members
    <3> QED BY <1>0, <2>2, TabsKeep
  <2> HIDE DEF p
  <2>4. u.project = p /\ v.project = p
    BY <1>0 DEF Shown
  <2> HIDE DEF u, v
  <2>5. stores' = v /\ Last(<<u, v>>) = v
    BY <2>1, Finally DEF Handler, Settles
  <2>6. Smooth(<<u, v>>)
    BY <2>1, <2>4 DEF Smooth, Calm, Panel
  <2>7. Reads(stores, v)
    BY <2>3, <2>4, <2>5, TextsRead DEF ProjInv, Project
  <2> QED BY <2>1, <2>3, <2>4, <2>5, <2>6, <2>7 DEF Followed, RunsStay, fieldRuns
<1>3. ASSUME NEW w, setActiveView(w) PROVE Goal
  <2> DEFINE v == [stores EXCEPT !.activeView = w]
  <2>1. Handler(<<v>>) /\ messages' = messages
    BY <1>3 DEF setActiveView
  <2>2. v.project = Project
    BY <1>0 DEF Shown, Project
  <2> HIDE DEF v
  <2> QED BY <2>1, <2>2, SameFollows
<1>4. ASSUME NEW w, onDelete(w) PROVE Goal
  <2> DEFINE p == deleteView(Project, w)
             left == IF stores.activeView = w THEN Canonical(p) ELSE stores.activeView
             v == [stores EXCEPT !.project = p, !.activeView = left]
  <2>1. Handler(<<v>>) /\ Panel("explore") /\ messages' = messages
    BY <1>4 DEF onDelete
  <2>2. Keeps1(p)
    BY <1>0, TabsKeep
  <2> HIDE DEF p, left
  <2>3. v.project = p
    BY <1>0 DEF Shown
  <2> HIDE DEF v
  <2>4. stores' = v /\ Last(<<v>>) = v
    BY <2>1, Finally DEF Handler, Settles
  <2>5. Smooth(<<v>>)
    BY <2>1 DEF Smooth, Calm, Panel
  <2>6. Reads(stores, v)
    BY <2>2, <2>3, <2>4, TextsRead DEF ProjInv, Project
  <2> QED BY <2>1, <2>2, <2>3, <2>4, <2>5, <2>6 DEF Followed, RunsStay, fieldRuns
<1> HIDE DEF Goal
<1>5. ASSUME addTab \/ onDropAdd \/ newTabFromSelection PROVE Goal
  BY <1>2, <1>5 DEF addTab, onDropAdd, newTabFromSelection
<1>6. ASSUME ShowAll \/ HideAll PROVE Goal
  <2>1. \/ Edit(tagAllVisible(Project, stores.activeView, frameRows))
        \/ Edit(clearViewMembers(Project, stores.activeView))
    BY <1>6 DEF ShowAll, HideAll
  <2>2. Panel("explore")
    BY <1>6 DEF ShowAll, HideAll
  <2> HIDE DEF Keeps1
  <2> QED BY <1>01, <1>1, <2>1, <2>2
<1>7. ASSUME NEW w, NEW members, NEW in, Edit(setFramesInView(Project, w, members, in)),
             Panel("explore")
      PROVE  Goal
  <2> HIDE DEF Keeps1
  <2> QED BY <1>01, <1>1, <1>7
<1>8. ASSUME NEW w, onDrop(w) \/ toggleIn(w) PROVE Goal
  <2>1. PICK x, members, in : Edit(setFramesInView(Project, x, members, in))
    BY <1>8 DEF onDrop, toggleIn
  <2>2. Panel("explore")
    BY <1>8 DEF onDrop, toggleIn, Inspected
  <2> QED BY <1>7, <2>1, <2>2
<1>9. ASSUME NEW w, NEW mux, assignTo(w, mux) PROVE Goal
  BY <1>7, <1>9 DEF assignTo, Inspected
<1>10. ASSUME NEW w, NEW mux, onDropMessage(w, mux) PROVE Goal
  <2>1. PICK x, members, in :
          /\ Sel # Null /\ Panel("explore")
          /\ LET p == setFramesInView(Project, x, members, in)
             IN  EditMoving(p, <<[SetMux(stores, mux) EXCEPT !.project = p]>>)
    BY <1>10 DEF onDropMessage, Inspected
  <2> DEFINE p == setFramesInView(Project, x, members, in)
             s == SetMux(stores, mux)
             v == [s EXCEPT !.project = p]
  <2>2. EditMoving(p, <<v>>)
    BY <2>1
  <2>3. Keeps1(p)
    <3> HIDE DEF Keeps1
    <3> QED BY <1>01
  <2> HIDE DEF p
  <2>4. Shown(s)
    BY <1>0, <2>1, ShownMux DEF Sel
  <2> HIDE DEF s
  <2>5. v.project = p
    BY <2>4, ShownProject
  <2> HIDE DEF v
  <2> QED BY <2>1, <2>2, <2>3, <2>5, MovingFollows DEF Panel, RunsStay, fieldRuns, Goal
<1> QED BY <1>3, <1>4, <1>5, <1>6, <1>8, <1>9, <1>10 DEF TabStep, Goal

\* An edit of a library in the logbook, of a field run, or by the Hunt panel: the tiles and the
\* editors are closed.
LEMMA ClosedFollows ==
  ASSUME LinkInv, ProjInv, ProjInv', stores.mode \notin {"cluster", "explore"}, NEW p
  PROVE  /\ Edit(p) => Followed /\ stores'.project = p
         /\ \A v : EditMoving(p, <<v>>) /\ v.project = p => Followed /\ stores'.project = p
BY EditFollows, MovingFollows

\* A field run is made, deleted or put elsewhere.
RunsEdited ==
  newFieldRun \/ (\E id : deleteFieldRun(id)) \/ (\E i, j : reorderFieldRun(i, j))

\* The libraries of the logbook.
LEMMA LibraryFollowed ==
  ASSUME LinkInv, ProjInv, ProjInv', ScenarioStep \/ ShelfStep
  PROVE  (Followed \/ Idle) /\ (RunsStay \/ RunsEdited)
<1> DEFINE Goal == (Followed \/ Idle) /\ (RunsStay \/ RunsEdited)
<1>0. Shown(stores) /\ Record(Project)
  BY DEF LinkInv, ProjInv, Fits
<1>1. ASSUME NEW p, Keeps(p), NEW sub, Shelf(sub) PROVE Followed /\ stores'.project = p
  BY <1>1, ClosedFollows DEF Keeps, Shelf, Panel
<1>2. ASSUME NEW list, NEW sub, Shelf(sub),
             \/ Keeps([Project EXCEPT !.scenarios = list])
             \/ Keeps([Project EXCEPT !.findings = list])
      PROVE  Goal
  <2>1. /\ [Project EXCEPT !.scenarios = list].fieldRuns = Project.fieldRuns
        /\ [Project EXCEPT !.findings = list].fieldRuns = Project.fieldRuns
    BY <1>0 DEF Record
  <2>2. Followed /\ \/ stores'.project = [Project EXCEPT !.scenarios = list]
                    \/ stores'.project = [Project EXCEPT !.findings = list]
    BY <1>1, <1>2
  <2> QED BY <2>1, <2>2 DEF RunsStay, fieldRuns
<1>3. ASSUME RunsEdited PROVE Goal
  <2>1. \E list : Shelf("field") /\ Keeps([Project EXCEPT !.fieldRuns = list])
    BY <1>3 DEF RunsEdited, newFieldRun, deleteFieldRun, reorderFieldRun, WithFieldRuns
  <2> QED BY <1>1, <1>3, <2>1
<1>4. ASSUME NEW selected, Chooses(selected) PROVE Goal
  BY <1>4 DEF Chooses, cockpitVars, pageVars, Idle, RunsStay, fieldRuns, Project
<1> HIDE DEF Goal
<1>5. ASSUME NEW id, toSignal(id) PROVE Goal
  <2>1. PICK k : LET p == addSignal(Project, k, MakeSignal(FreshId, 0, FALSE))
                     st == SetSelected([stores EXCEPT !.project = p], k)
                 IN  Shelf("findings") /\ EditMoving(p, <<st, [st EXCEPT !.mode = "explore"]>>)
    BY <1>5 DEF toSignal
  <2> DEFINE p == addSignal(Project, k, MakeSignal(FreshId, 0, FALSE))
             u == [stores EXCEPT !.project = p]
             st == SetSelected(u, k)
             v == [st EXCEPT !.mode = "explore"]
  <2>2. Handler(<<u>> \o <<st, v>>) /\ messages' = messages /\ stores.mode = "logbook"
    BY <2>1 DEF EditMoving, Moves, Shelf, Panel
  <2>3. p.fieldRuns = Project.fieldRuns
    <3>1. Elsewhere(Project, p)
      BY <1>0, EditsElsewhere
    <3> QED BY <3>1 DEF Elsewhere
  <2> HIDE DEF p
  <2>4. Shown(u) /\ u.project = p
    BY <1>0, ShownProject
  <2> HIDE DEF u
  <2>5. Shown(st) /\ st.project = p
    BY <2>4, ShownSelected
  <2> HIDE DEF st
  <2>6. v.project = p
    BY <2>5 DEF Shown
  <2> HIDE DEF v
  <2>7. <<u>> \o <<st, v>> = <<u, st, v>>
    BY JoinedThree
  <2>8. Handler(<<u, st, v>>) /\ Last(<<u, st, v>>) = v
    BY <2>2, <2>7 DEF Last
  <2>9. stores' = v
    BY <2>8 DEF Handler, Settles
  <2>10. Smooth(<<u, st, v>>)
    BY <2>2, <2>4, <2>5, <2>6 DEF Smooth, Calm
  <2>11. Reads(stores, v)
    BY <2>2 DEF Reads
  <2> QED BY <2>2, <2>3, <2>6, <2>8, <2>9, <2>10, <2>11 DEF Followed, RunsStay, fieldRuns, Goal
<1>6. ASSUME newScenario PROVE Goal
  BY <1>2, <1>6 DEF newScenario, WithScenarios
<1>7. ASSUME NEW id, deleteScenario(id) PROVE Goal
  BY <1>2, <1>7 DEF deleteScenario, WithScenarios
<1>8. ASSUME NEW id, TickScenario(id) PROVE Goal
  BY <1>2, <1>8 DEF TickScenario, mutateScenario, WithScenarios
<1>9. ASSUME NEW id, ChooseScenario(id) \/ ChooseFieldRun(id) PROVE Goal
  BY <1>4, <1>9 DEF ChooseScenario, ChooseFieldRun
<1>10. ASSUME NEW i, NEW j, reorderScenario(i, j) PROVE Goal
  BY <1>2, <1>10 DEF reorderScenario, WithScenarios
<1>11. ASSUME NEW s \in OpenScenario PROVE Shelf("storyboard")
  BY DEF OpenScenario
<1>12. ASSUME NEW kind, addStep(kind) PROVE Goal
  BY <1>2, <1>11, <1>12 DEF addStep, mutateScenario, WithScenarios
<1>13. ASSUME NEW i, delStep(i) \/ toggleAdvance(i) PROVE Goal
  BY <1>2, <1>11, <1>13 DEF delStep, toggleAdvance, mutateScenario, WithScenarios
<1>14. ASSUME NEW i, NEW j, moveStep(i, j) PROVE Goal
  BY <1>2, <1>11, <1>14 DEF moveStep, mutateScenario, WithScenarios
<1>15. ASSUME NEW id, toggleStatus(id) \/ toggleExclude(id) PROVE Goal
  BY <1>2, <1>15 DEF toggleStatus, toggleExclude, mutateFinding
<1>16. ASSUME NEW id, deleteFinding(id) PROVE Goal
  BY <1>2, <1>16 DEF deleteFinding
<1>17. ASSUME ScenarioStep PROVE Goal
  BY <1>17, <1>6, <1>7, <1>8, <1>9, <1>10, <1>12, <1>13, <1>14 DEF ScenarioStep
<1>18. ASSUME ShelfStep PROVE Goal
  BY <1>18, <1>3, <1>5, <1>9, <1>15, <1>16 DEF ShelfStep, RunsEdited
<1> QED BY <1>17, <1>18 DEF Goal

\* What an analysis found becomes a signal, or is looked at.
LEMMA PromotingFollowed == ASSUME LinkInv, ProjInv, ProjInv', PromotingStep PROVE Followed /\ RunsStay
<1> DEFINE Goal == Followed /\ RunsStay
<1>0. Shown(stores) /\ Record(Project)
  BY DEF LinkInv, ProjInv, Fits
<1>1. ASSUME NEW k, NEW panel, Promotes(k, panel) PROVE Goal
  <2> DEFINE p == addSignal(Project, k, MakeSignal(FreshId, 0, FALSE))
             u == [stores EXCEPT !.project = p]
             v == SetSelected(u, k)
  <2>1. EditMoving(p, <<v>>) /\ stores.mode = "hunt"
    BY <1>1 DEF Promotes, AtHunt, Panel
  <2>2. p.fieldRuns = Project.fieldRuns
    <3>1. Elsewhere(Project, p)
      BY <1>0, EditsElsewhere
    <3> QED BY <3>1 DEF Elsewhere
  <2> HIDE DEF p
  <2>3. Shown(u) /\ u.project = p
    BY <1>0, ShownProject
  <2> HIDE DEF u
  <2>4. v.project = p
    BY <2>3, ShownSelected
  <2> HIDE DEF v
  <2> QED BY <2>1, <2>2, <2>4, ClosedFollows DEF RunsStay, fieldRuns
<1>2. ASSUME NEW k, pickScanId(k) PROVE Goal
  <2> DEFINE v == SetSelected(stores, k)
  <2>1. Handler(<<v>>) /\ messages' = messages
    BY <1>2 DEF pickScanId, Shows, Moves
  <2>2. v.project = Project
    BY <1>0, ShownSelected DEF Project
  <2> HIDE DEF v
  <2> QED BY <2>1, <2>2, SameFollows
<1> QED BY <1>1, <1>2 DEF PromotingStep, promote, promoteSweep, promoteCorr

\* The Hunt panel's other steps turn nothing but the panel.
LEMMA HuntIdle == ASSUME HuntStep PROVE Idle /\ RunsStay
<1> DEFINE Goal == Idle /\ RunsStay
<1>1. ASSUME NEW panel, Turns(panel) PROVE Goal
  BY <1>1 DEF Turns, cockpitVars, pageVars, Idle, RunsStay, fieldRuns, Project
<1> HIDE DEF Goal
<1>2. ASSUME LeadInEnds \/ stopTrendCapture \/ keepTrend \/ redoTrend PROVE Goal
  BY <1>1, <1>2 DEF LeadInEnds, stopTrendCapture, keepTrend, redoTrend
<1>3. ASSUME stopCaptureA \/ stopCaptureB \/ keepCmp \/ redoCmp PROVE Goal
  BY <1>1, <1>3 DEF stopCaptureA, stopCaptureB, keepCmp, redoCmp
<1>4. ASSUME NEW what, NEW led, startWithWarmup(what, led) PROVE Goal
  BY <1>1, <1>4 DEF startWithWarmup
<1>5. ASSUME NEW mode, setHuntMode(mode) PROVE Goal
  BY <1>1, <1>5 DEF setHuntMode
<1>6. ASSUME markEventNow \/ clearEventMarks \/ RunAnalysis PROVE Goal
  BY <1>1, <1>6 DEF markEventNow, clearEventMarks, RunAnalysis
<1>7. ASSUME NEW marks, finishGuided(marks) PROVE Goal
  BY <1>1, <1>7 DEF finishGuided
<1>8. ASSUME runScan \/ TakesAnswer \/ AnswerIsLost PROVE Goal
  BY <1>1, <1>8 DEF runScan, TakesAnswer, AnswerIsLost
<1>9. ASSUME NEW id, pickCorrReference(id) PROVE Goal
  BY <1>1, <1>9 DEF pickCorrReference
<1> QED BY <1>2, <1>3, <1>4, <1>5, <1>6, <1>7, <1>8, <1>9 DEF HuntStep, Goal

\* A field run's steps turn the panel, or edit the runs or the findings.
LEMMA FieldFollowed == ASSUME LinkInv, ProjInv, ProjInv', FieldStep PROVE Followed \/ Idle
<1> DEFINE Goal == Followed \/ Idle
<1>0. Shown(stores) /\ Record(Project)
  BY DEF LinkInv, ProjInv, Fits
<1>1. ASSUME NEW p, Keeps(p), Shelf("field") PROVE Goal
  BY <1>1, ClosedFollows DEF Keeps, Shelf, Panel
<1>2. ASSUME NEW panel, TurnsField(panel) PROVE Goal
  BY <1>2 DEF TurnsField, cockpitVars, pageVars, Idle
<1>3. ASSUME NEW p, Rewrites(p), Shelf("field") PROVE Goal
  <2> DEFINE st == [stores EXCEPT !.project = p]
  <2>1. Handler(<<st>>) /\ messages' = messages /\ stores.mode = "logbook"
    BY <1>3 DEF Rewrites, Shelf, Panel
  <2>2. Smooth(<<st>>) /\ Reads(stores, Last(<<st>>))
    <3> HIDE DEF st
    <3> QED BY <2>1 DEF Smooth, Calm, Reads
  <2> HIDE DEF st
  <2> QED BY <2>1, <2>2 DEF Followed
<1> HIDE DEF Goal
<1>4. ASSUME NEW r \in Open PROVE Shelf("field")
  BY DEF Open
<1>5. ASSUME NEW r \in Open, NEW x, NEW panel, Changes(x, panel) PROVE Goal
  BY <1>1, <1>4, <1>5 DEF Changes
<1>6. ASSUME NEW r \in Open, NEW panel, Paints(r, panel) PROVE Goal
  BY <1>1, <1>4, <1>6 DEF Paints
<1>7. ASSUME NEW led, startRun(led) PROVE Goal
  BY <1>3, <1>4, <1>7 DEF startRun
<1>8. ASSUME addLabel PROVE Goal
  BY <1>8, <1>5 DEF addLabel
<1>9. ASSUME beginRecording \/ TakesResult PROVE Goal
  BY <1>9, <1>2 DEF beginRecording, TakesResult
<1>10. ASSUME stopRun PROVE Goal
  BY <1>10, <1>2, <1>6 DEF stopRun
<1>11. ASSUME setLinkMode PROVE Goal
  BY <1>11, <1>2 DEF setLinkMode
<1>12. ASSUME delSpan PROVE Goal
  BY <1>12, <1>5 DEF delSpan
<1>13. ASSUME NEW label, delLabel(label) PROVE Goal
  BY <1>13, <1>5 DEF delLabel
<1>14. ASSUME NEW label, onLabelTap(label) PROVE Goal
  BY <1>14, <1>2, <1>6 DEF onLabelTap
<1>15. ASSUME NEW id, pickSpan(id) PROVE Goal
  BY <1>15, <1>2, <1>5 DEF pickSpan
<1>16. ASSUME NEW type, setSpanType(type) PROVE Goal
  BY <1>16, <1>5 DEF setSpanType
<1>17. ASSUME NEW raises, analyze(raises) PROVE Goal
  BY <1>17, <1>2 DEF analyze
<1>18. ASSUME NEW k, promoteField(k) PROVE Goal
  BY <1>18, <1>1, <1>4 DEF promoteField
<1> QED BY <1>7, <1>8, <1>9, <1>10, <1>11, <1>12, <1>13, <1>14, <1>15, <1>16, <1>17, <1>18
        DEF FieldStep, Goal

-----------------------------------------------------------------------------
(* The steps that are in step for reasons of their own.                    *)

\* A page that opens has told the worker nothing and shows what is kept.
LEMMA OpensInStep ==
  ASSUME NEW st, st.activeView # Null
  PROVE  /\ NoRows \in [rows : {NoRows.rows}, series : {NoRows.series}]
         /\ Tells(IdleBridge, st, NoRows.rows, {})
         /\ Reflect([w \in Editors |-> Hydrated(Closed, st, w)], st, {})
<1>1. NoRows \in [rows : {NoRows.rows}, series : {NoRows.series}]
  BY DEF NoRows
<1>2. Tells(IdleBridge, st, NoRows.rows, {})
  <2>1. <<>> \in Seq({})
    OBVIOUS
  <2>2. \E S : <<>> \in Seq(S)
    BY <2>1
  <2>3. /\ IdleBridge \in [started : BOOLEAN, lastSelect : {IdleBridge.lastSelect},
                           lastWatch : {IdleBridge.lastWatch}, sel : {IdleBridge.sel},
                           watch : {IdleBridge.watch}, replies : {IdleBridge.replies}]
        /\ ~IdleBridge.started /\ IdleBridge.lastWatch = {} /\ IdleBridge.watch = {}
        /\ IdleBridge.replies = <<>>
    BY DEF IdleBridge
  <2> QED BY <2>2, <2>3 DEF Tells
<1>3. Reflect([w \in Editors |-> Hydrated(Closed, st, w)], st, {})
  <2> DEFINE ed == [w \in Editors |-> Closed]
             s == [mode |-> "hunt"]
  <2>1. Reflect(ed, s, {}) /\ s.mode # "explore" /\ \A w \in Editors : ed[w] = Closed
    BY DEF Reflect
  <2> HIDE DEF ed, s
  <2>2. Reflect([w \in Editors |-> Hydrated(ed[w], st, w)], st, {})
    BY <2>1, Hydrates
  <2>3. [w \in Editors |-> Hydrated(ed[w], st, w)] = [w \in Editors |-> Hydrated(Closed, st, w)]
    BY <2>1
  <2> QED BY <2>2, <2>3
<1> QED BY <1>1, <1>2, <1>3

\* The page is loaded again.
LEMMA ReloadInStep == ASSUME ProjInv', NEW file, Reload(file) PROVE StepInv'
<1>1. stores'.activeView # Null
  BY DEF ProjInv, Fits, ViewsFit, Unused
<1>2. /\ editor' = [w \in Editors |-> Hydrated(Closed, stores', w)]
      /\ bridge' = IdleBridge /\ messages' = NoRows /\ excused' = {}
  BY DEF Reload
<1>3. /\ NoRows \in [rows : {NoRows.rows}, series : {NoRows.series}]
      /\ Tells(IdleBridge, stores', NoRows.rows, {})
      /\ Reflect([w \in Editors |-> Hydrated(Closed, stores', w)], stores', {})
  BY <1>1, OpensInStep
<1> QED BY <1>2, <1>3 DEF StepInv

\* A session begins: the worker forgets and is told of the selection again.
LEMMA ConnectInStep == ASSUME StepInv, connect PROVE StepInv'
<1> DEFINE s == [selected |-> Null, project |-> stores.project, window |-> Null]
           mid == bridge.replies \o Rows(Nothing)
           sent == mid \o Series(bridge.watch)
           b == [bridge EXCEPT !.started = TRUE, !.lastSelect = Nothing, !.sel = Nothing,
                               !.replies = sent]
           c == PostSelect(b, stores)
           of == Selecting(stores)
<1>1. /\ bridge' = c /\ stores' = stores /\ editor' = editor
      /\ messages' = [messages EXCEPT !.rows = Nothing]
      /\ excused' = IF ~bridge.started /\ Panel("cluster") THEN excused \cup {"watch"} ELSE excused
  BY DEF connect, Reset, Forgotten
<1>2. Tells(bridge, stores, messages.rows, excused)
  BY DEF StepInv
<1>3. (\E S : sent \in Seq(S)) /\ Comes(sent, Nothing, Nothing)
  <2>1. PICK S : bridge.replies \in Seq(S)
    BY <1>2 DEF Tells
  <2> DEFINE T == S \cup {[kind |-> "rows", of |-> Nothing]}
  <2>2. mid \in Seq(T) /\ Comes(mid, Nothing, Nothing)
    BY <2>1, RowsCome
  <2> HIDE DEF T, mid
  <2> QED BY <2>2, SeriesComes
<1>4. Selecting(s) = Nothing
  BY DEF Selecting, Nothing
<1> HIDE DEF sent, mid, s
<1>5. /\ b \in [started : BOOLEAN, lastSelect : {Nothing}, lastWatch : {bridge.watch},
                sel : {Nothing}, watch : {bridge.watch}, replies : {sent}]
      /\ b.started /\ b.lastSelect = Nothing /\ b.sel = Nothing /\ b.lastWatch = bridge.watch
      /\ b.watch = bridge.watch /\ b.replies = sent
  BY <1>2 DEF Tells
<1> HIDE DEF b
<1>6. Tells(b, s, Nothing, {"watch"})
  BY <1>3, <1>4, <1>5 DEF Tells
<1>7. /\ c \in [started : BOOLEAN, lastSelect : {c.lastSelect}, lastWatch : {bridge.watch},
                sel : {c.sel}, watch : {bridge.watch}, replies : {c.replies}]
      /\ c.started = b.started
      /\ \E S : c.replies \in Seq(S)
      /\ c.lastSelect = of /\ c.sel = of /\ Comes(c.replies, Nothing, of)
  <2>1. /\ c \in [started : BOOLEAN, lastSelect : {c.lastSelect}, lastWatch : {b.watch},
                  sel : {c.sel}, watch : {b.watch}, replies : {c.replies}]
        /\ c.started = b.started
        /\ \E S : c.replies \in Seq(S)
        /\ b.started => c.lastSelect = of /\ c.sel = of /\ Comes(c.replies, Nothing, of)
    BY <1>6, SelectTells
  <2> HIDE DEF c, of
  <2> QED BY <1>5, <2>1
<1>8. "watch" \notin excused' => bridge.watch = WatchOf(stores)
  BY <1>1, <1>2 DEF Tells, WatchOf, Panel
<1> HIDE DEF c, of
<1>9. Tells(c, stores, Nothing, excused')
  BY <1>5, <1>7, <1>8 DEF Tells, of
<1>10. Reflect(editor, stores, excused')
  <2>1. \A w \in Editors : w \notin excused' => w \notin excused
    BY <1>1
  <2>2. Reflect(editor, stores, excused)
    BY DEF StepInv
  <2> QED BY <2>1, <2>2 DEF Reflect
<1>11. messages' \in [rows : {messages'.rows}, series : {messages'.series}] /\ messages'.rows = Nothing
  BY <1>1 DEF StepInv
<1> QED BY <1>1, <1>9, <1>10, <1>11 DEF StepInv

\* The worker's tick repeats what it works on.
LEMMA TickInStep == ASSUME StepInv, Ticks PROVE StepInv'
<1> DEFINE head == IF bridge.sel.sel = Null THEN <<>> ELSE Rows(bridge.sel)
           sent == head \o Series(bridge.watch)
           of == Selecting(stores)
           rows == messages.rows
<1>1. /\ bridge' = [bridge EXCEPT !.replies = sent] /\ bridge.started /\ bridge.replies = <<>>
      /\ stores' = stores /\ editor' = editor /\ messages' = messages /\ excused' = excused
  BY DEF Ticks
<1>2. Tells(bridge, stores, rows, excused)
  BY DEF StepInv
<1>3. \E S : head \in Seq(S) /\ Comes(head, rows, of)
  <2>1. CASE bridge.sel.sel = Null
    <3>1. Comes(bridge.replies, rows, of)
      BY <1>1, <1>2 DEF Tells
    <3>2. <<>> \in Seq({})
      OBVIOUS
    <3> QED BY <1>1, <2>1, <3>1, <3>2
  <2>2. CASE bridge.sel.sel # Null
    <3> DEFINE reply == [kind |-> "rows", of |-> of]
    <3>0. bridge.sel = of
      BY <1>1, <1>2 DEF Tells
    <3> HIDE DEF of
    <3>1. head = <<reply>>
      BY <2>2, <3>0 DEF Rows
    <3>2. reply.kind = "rows" /\ reply.of = of
      OBVIOUS
    <3> HIDE DEF reply
    <3>3. <<reply>> \in Seq({reply}) /\ Comes(<<reply>>, rows, of)
      BY <3>2 DEF Comes
    <3> QED BY <3>1, <3>3
  <2> QED BY <2>1, <2>2
<1> HIDE DEF head, of
<1>4. PICK S : head \in Seq(S) /\ Comes(head, rows, of)
  BY <1>3
<1>5. (\E T : sent \in Seq(T)) /\ Comes(sent, rows, of)
  BY <1>4, SeriesComes
<1> HIDE DEF sent
<1>6. Tells(bridge', stores, rows, excused)
  <2>1. /\ bridge' \in [started : BOOLEAN, lastSelect : {bridge.lastSelect},
                        lastWatch : {bridge.lastWatch}, sel : {bridge.sel},
                        watch : {bridge.watch}, replies : {sent}]
        /\ bridge'.started = bridge.started /\ bridge'.lastSelect = bridge.lastSelect
        /\ bridge'.lastWatch = bridge.lastWatch /\ bridge'.sel = bridge.sel
        /\ bridge'.watch = bridge.watch /\ bridge'.replies = sent
    BY <1>1, <1>2 DEF Tells
  <2> QED BY <1>1, <1>2, <1>5, <2>1 DEF Tells, of
<1> QED BY <1>1, <1>6 DEF StepInv

\* The page takes a reply: rows are of what they say.
LEMMA ReplyInStep == ASSUME StepInv, TakesReply PROVE StepInv'
<1> DEFINE reply == Head(bridge.replies)
           rest == Tail(bridge.replies)
           rows == IF reply.kind = "rows" THEN reply.of ELSE messages.rows
           of == Selecting(stores)
<1>1. /\ bridge' = [bridge EXCEPT !.replies = rest] /\ bridge.replies # <<>>
      /\ stores' = stores /\ editor' = editor /\ excused' = excused
      /\ messages' = IF reply.kind = "rows" THEN [messages EXCEPT !.rows = reply.of]
                     ELSE [messages EXCEPT !.series = reply.of]
  BY DEF TakesReply
<1>2. Tells(bridge, stores, messages.rows, excused)
  BY DEF StepInv
<1>3. PICK S : bridge.replies \in Seq(S)
  BY <1>2 DEF Tells
<1>4. /\ rest \in Seq(S)
      /\ bridge.started => Comes(rest, rows, of)
  <2>1. rest \in Seq(S)
    BY <1>1, <1>3
  <2>2. ASSUME bridge.started PROVE Comes(rest, rows, of)
    <3>1. Comes(bridge.replies, messages.rows, of)
      BY <1>2, <2>2 DEF Tells
    <3> HIDE DEF of
    <3> QED BY <1>1, <1>3, <3>1, ReplyTaken
  <2> QED BY <2>1, <2>2
<1> HIDE DEF reply, rest, of
<1>5. /\ messages' \in [rows : {messages'.rows}, series : {messages'.series}]
      /\ messages'.rows = rows
  BY <1>1 DEF StepInv
<1> HIDE DEF rows
<1>6. Tells(bridge', stores, rows, excused)
  <2>1. /\ bridge' \in [started : BOOLEAN, lastSelect : {bridge.lastSelect},
                        lastWatch : {bridge.lastWatch}, sel : {bridge.sel},
                        watch : {bridge.watch}, replies : {rest}]
        /\ bridge'.started = bridge.started /\ bridge'.lastSelect = bridge.lastSelect
        /\ bridge'.lastWatch = bridge.lastWatch /\ bridge'.sel = bridge.sel
        /\ bridge'.watch = bridge.watch /\ bridge'.replies = rest
    BY <1>1, <1>2 DEF Tells
  <2> QED BY <1>1, <1>2, <1>4, <2>1 DEF Tells, of
<1> QED BY <1>1, <1>5, <1>6 DEF StepInv

\* What is typed is kept for its target, and nothing else is touched.
LEMMA TextWritten ==
  ASSUME NEW p, NEW N, Fits(p, N), NEW v \in DOMAIN p.views, NEW k, NEW text, NEW needle
  PROVE  /\ LET q == setFrameFormula(p, k, text)
            IN  q.frameFormulas[k] = text /\ q.views = p.views /\ q.fieldRuns = p.fieldRuns
         /\ LET q == setViewFormula(p, v, text)
            IN  /\ q.views[v].formula = text /\ q.views[v].filter = p.views[v].filter
                /\ q.frameFormulas = p.frameFormulas /\ q.fieldRuns = p.fieldRuns
         /\ LET q == mutateFilter(p, v, text, needle)
            IN  /\ q.views[v].filter.hides = text /\ q.views[v].formula = p.views[v].formula
                /\ q.frameFormulas = p.frameFormulas /\ q.fieldRuns = p.fieldRuns
<1> DEFINE old == p.views[v]
           filter == [hides |-> text, needle |-> needle]
           a == [old EXCEPT !.formula = text]
           b == [old EXCEPT !.filter = filter]
           formulas == Put(p.frameFormulas, k, text)
           q(view) == [p EXCEPT !.views[v] = view]
           r == [p EXCEPT !.frameFormulas = formulas]
<1>0. Record(p) /\ ViewFits(old)
  BY DEF Fits, ViewsFit
<1>1. /\ setFrameFormula(p, k, text) = r
      /\ setViewFormula(p, v, text) = q(a)
      /\ mutateFilter(p, v, text, needle) = q(b)
  BY DEF setFrameFormula, setViewFormula, mutateFilter, OnView
<1>2. formulas[k] = text
  BY DEF Put
<1>3. filter.hides = text
  OBVIOUS
<1>4. a.formula = text /\ a.filter = old.filter /\ b.formula = old.formula /\ b.filter = filter
  <2> HIDE DEF old, filter
  <2> QED BY <1>0 DEF ViewFits
<1> HIDE DEF a, b, filter, formulas
<1>5. r.frameFormulas[k] = text /\ r.views = p.views /\ r.fieldRuns = p.fieldRuns
  BY <1>0, <1>2 DEF Record
<1>6. ASSUME NEW view
      PROVE  /\ q(view).views[v] = view
             /\ q(view).frameFormulas = p.frameFormulas /\ q(view).fieldRuns = p.fieldRuns
  BY <1>0 DEF Record
<1> HIDE DEF r, q
<1>7. /\ q(a).views[v] = a /\ q(a).frameFormulas = p.frameFormulas /\ q(a).fieldRuns = p.fieldRuns
      /\ q(b).views[v] = b /\ q(b).frameFormulas = p.frameFormulas /\ q(b).fieldRuns = p.fieldRuns
  BY <1>6
<1> QED BY <1>1, <1>3, <1>4, <1>5, <1>7

\* What is typed is what the editor shows.
LEMMA TypedInStep ==
  ASSUME LinkInv, ProjInv, StepInv, NEW which \in Editors, NEW text, Types(which, text)
  PROVE  StepInv' /\ RunsStay
<1> DEFINE p == Written(Project, which, text)
           v == stores.activeView
           needle == Project.views[v].filter.needle
           st == [stores EXCEPT !.project = p]
<1>1. /\ stores' = st /\ bridge' = Posted(bridge, stores, <<stores'>>)
      /\ editor' = [editor EXCEPT ![which].text = text] /\ excused' = excused \ {which}
      /\ messages' = messages /\ stores.mode = "explore"
  BY DEF Types, Panel
<1>2. p = IF which = "custom" THEN setFrameFormula(Project, Sel, text)
          ELSE IF which = "tab" THEN setViewFormula(Project, v, text)
          ELSE mutateFilter(Project, v, text, needle)
  BY DEF Written
<1>3. Target(stores, which) # Null
  BY DEF Types
<1>4. Fits(Project, Unused) /\ v \in DOMAIN Project.views
  BY DEF ProjInv
<1>5. /\ st.project = p /\ st.activeView = v /\ st.selected = stores.selected
      /\ st.mode = "explore"
  BY <1>1, ShownProject DEF LinkInv
<1> HIDE DEF p, st, needle
<1>6. /\ p.fieldRuns = Project.fieldRuns
      /\ which = "custom" => p.frameFormulas[Sel] = text /\ p.views = Project.views
      /\ which = "tab" => /\ p.views[v].formula = text
                          /\ p.views[v].filter = Project.views[v].filter
                          /\ p.frameFormulas = Project.frameFormulas
      /\ which = "filter" => /\ p.views[v].filter.hides = text
                             /\ p.views[v].formula = Project.views[v].formula
                             /\ p.frameFormulas = Project.frameFormulas
  <2>1. CASE which = "custom"
    BY <1>2, <1>4, <2>1, TextWritten
  <2>2. CASE which = "tab"
    BY SMTT(60), <1>2, <1>4, <2>2, TextWritten
  <2>3. CASE which = "filter"
    BY SMTT(60), <1>2, <1>4, <2>3, TextWritten
  <2> QED BY <2>1, <2>2, <2>3 DEF Editors
<1>7. RunsStay
  BY <1>1, <1>5, <1>6 DEF RunsStay, fieldRuns
<1>8. Tells(bridge', stores', messages.rows, excused')
  <2>1. Last(<<st>>) = st
    BY Finally
  <2>2. Smooth(<<st>>)
    BY <1>1 DEF Smooth, Calm
  <2>3. "watch" \notin excused' => "watch" \notin excused
    BY <1>1 DEF Editors
  <2> QED BY <1>1, <2>1, <2>2, <2>3, BridgeFollows DEF StepInv
<1>9. Reflect(editor', stores', excused')
  <2>0. Reflect(editor, stores, excused)
    BY DEF StepInv
  <2>1. ASSUME NEW w \in Editors PROVE Target(st, w) = Target(stores, w)
    BY <1>5 DEF Target
  <2>2. Kept(st, which) = text
    BY <1>3, <1>5, <1>6 DEF Kept, Editors, Target, Sel
  <2>3. ASSUME NEW w \in Editors, w # which PROVE Kept(st, w) = Kept(stores, w)
    BY <1>5, <1>6, <2>3 DEF Kept, Editors, Project
  <2>4. /\ editor' = [w \in Editors |-> editor'[w]]
        /\ \A w \in Editors : w # which => editor'[w] = editor[w]
        /\ editor'[which] = [editor[which] EXCEPT !.text = text]
    BY <1>1, <2>0 DEF Reflect
  <2>5. editor'[which] = [for |-> Target(stores, which), text |-> text]
    <3>1. editor[which] = [for |-> Target(stores, which), text |-> editor[which].text]
      BY <1>1, <2>0 DEF Reflect
    <3> QED BY <2>4, <3>1
  <2>6. ASSUME NEW w \in Editors
        PROVE  /\ editor'[w] = [for |-> Target(st, w), text |-> editor'[w].text]
               /\ w \notin excused' => editor'[w].text = Kept(st, w)
    <3>1. CASE w = which
      BY <2>1, <2>2, <2>5, <3>1
    <3>2. CASE w # which
      BY <1>1, <2>0, <2>1, <2>3, <2>4, <3>2 DEF Reflect
    <3> QED BY <3>1, <3>2
  <2> QED BY <1>1, <1>5, <2>4, <2>6 DEF Reflect
<1> QED BY <1>1, <1>7, <1>8, <1>9 DEF StepInv

\* A file is loaded: excused is what has not followed.
LEMMA LoadInStep == ASSUME LinkInv, ProjInv', StepInv, NEW file, Load(file) PROVE StepInv'
<1> DEFINE st == Loaded(stores, file)
           u == [stores EXCEPT !.project = st.project]
           mid == IF Panel("cluster") THEN {"watch"} ELSE excused
           b == Post(bridge, stores, u)
           rows == messages.rows
<1>1. /\ stores' = Last(<<u, st>>) /\ bridge' = Posted(bridge, stores, <<u, st>>)
      /\ editor' = [w \in Editors |-> Hydrated(editor[w], Last(<<u, st>>), w)]
      /\ messages' = messages
      /\ excused' = (excused \ Fresh(st))
                       \cup {w \in Editors \ Fresh(st) : editor[w].text # Kept(st, w)}
                       \cup (IF Panel("cluster") THEN {"watch"} ELSE {})
  BY DEF Load, Settles
<1>2. st.mode = stores.mode
  BY ShownLoaded DEF LinkInv
<1>3. u.mode = stores.mode /\ u.project = st.project
  <2> DEFINE q == st.project
  <2> HIDE DEF q, st
  <2>1. [stores EXCEPT !.project = q].mode = stores.mode /\ [stores EXCEPT !.project = q].project = q
    BY ShownProject DEF LinkInv
  <2> QED BY <2>1 DEF q
<1> HIDE DEF st, u
<1>4. Last(<<u, st>>) = st
  BY Finally
<1>5. bridge' = Post(b, u, st)
  BY <1>1, PostedTwo
<1>6. Tells(b, u, rows, mid)
  <2>1. "watch" \notin mid => ("watch" \notin excused \/ stores.mode # u.mode) /\ Calm(stores, u)
    BY DEF Calm, Panel
  <2> HIDE DEF mid
  <2> QED BY <2>1, PostTells DEF StepInv
<1>7. Tells(Post(b, u, st), st, rows, excused')
  <2>1. "watch" \notin excused' => ("watch" \notin mid \/ u.mode # st.mode) /\ Calm(u, st)
    BY <1>1, <1>2, <1>3 DEF Calm, Panel, Fresh, Editors
  <2> HIDE DEF mid, b
  <2> QED BY <1>6, <2>1, PostTells
<1>8. Reflect(editor', stores', excused')
  <2>1. ASSUME NEW w \in Editors \ excused', stores.mode = "explore", st.mode = "explore",
               Target(st, w) = Target(stores, w)
        PROVE  editor[w].text = Kept(st, w)
    <3>1. editor[w].for = Target(stores, w)
      BY <2>1 DEF StepInv, Reflect
    <3>2. w \notin Fresh(st)
      BY <2>1, <3>1 DEF Fresh, Editors
    <3> QED BY <1>1, <2>1, <3>2
  <2>2. st.activeView # Null
    BY <1>1, <1>4 DEF ProjInv, Fits, ViewsFit, Unused
  <2> QED BY <1>1, <1>4, <2>1, <2>2, Hydrates DEF StepInv
<1> QED BY <1>1, <1>4, <1>5, <1>7, <1>8 DEF StepInv

\* A page that opens is in step.
LEMMA StepFirst == Init => StepInv
<1> SUFFICES ASSUME Init PROVE StepInv
  OBVIOUS
<1>1. /\ stores = FreshStores /\ editor = [w \in Editors |-> Hydrated(Closed, FreshStores, w)]
      /\ bridge = IdleBridge /\ messages = NoRows /\ excused = {}
  BY DEF Init, CockpitInit
<1>2. FreshStores.activeView # Null
  BY CockpitConstants DEF FreshStores, AllView
<1>3. /\ NoRows \in [rows : {NoRows.rows}, series : {NoRows.series}]
      /\ Tells(IdleBridge, FreshStores, NoRows.rows, {})
      /\ Reflect([w \in Editors |-> Hydrated(Closed, FreshStores, w)], FreshStores, {})
  BY <1>2, OpensInStep
<1> QED BY <1>1, <1>3 DEF StepInv

\* Whatever happens on the page, the workers and the editors follow.
LEMMA StepNext == LinkInv /\ ProjInv /\ ProjInv' /\ StepInv /\ [Next]_vars => StepInv'
<1> SUFFICES ASSUME LinkInv, ProjInv, ProjInv', StepInv, [Next]_vars PROVE StepInv'
  OBVIOUS
<1>1. stores'.activeView # Null
  BY DEF ProjInv, Fits, ViewsFit, Unused
<1>2. ASSUME Followed PROVE StepInv'
  BY <1>1, <1>2, FollowedSteps
<1>3. ASSUME Idle PROVE StepInv'
  BY <1>3, IdleSteps
<1>4. CASE ConnectionStep
  <2>1. CASE emitSnapshot \/ ShowsSnapshot \/ Ingests(Keys)
    BY <1>3, <2>1 DEF emitSnapshot, ShowsSnapshot, Ingests, pageVars, Idle
  <2> QED BY <1>4, <2>1, ConnectInStep, TickInStep, ReplyInStep, LoadInStep, ReloadInStep
          DEF ConnectionStep
<1>5. CASE MovingStep
  BY <1>2, <1>3, <1>5, MovingFollowed
<1>6. CASE FrameStep
  BY <1>2, <1>6, FrameFollowed, TypedInStep
<1>7. CASE TabStep
  BY <1>2, <1>7, TabFollowed
<1>8. CASE ScenarioStep \/ ShelfStep
  BY <1>2, <1>3, <1>8, LibraryFollowed
<1>9. CASE FieldStep
  BY <1>2, <1>3, <1>9, FieldFollowed
<1>10. CASE HuntStep
  BY <1>3, <1>10, HuntIdle
<1>11. CASE PromotingStep
  BY <1>2, <1>11, PromotingFollowed
<1>12. CASE UNCHANGED vars
  BY <1>3, <1>12 DEF vars, cockpitVars, pageVars, Idle
<1> QED BY <1>4, <1>5, <1>6, <1>7, <1>8, <1>9, <1>10, <1>11, <1>12 DEF Next

\* However the operator moves, edits, loads and pastes while replies of the worker are under way:
\* the worker is told of the selection, its definition, its window and the tiles, the rows shown
\* are of what is selected once no reply is under way, and an editor shows the text of its target.
THEOREM PageStaysInStep == Spec => []InStep
<1>1. Init => LinkInv /\ ProjInv /\ StepInv
  BY LinkFirst, ProjFirst, StepFirst
<1>2. LinkInv /\ ProjInv /\ StepInv /\ [Next]_vars => LinkInv' /\ ProjInv' /\ StepInv'
  BY LinkNext, ProjNext, StepNext DEF StaysSound
<1>3. StepInv => InStep
  BY StepsHold
<1> QED BY <1>1, <1>2, <1>3, PTL DEF Spec

-----------------------------------------------------------------------------
(* Lists of field runs.                                                    *)

\* A list, and the elements of a list that is another's rearranged.
IsList(list) == \E S : list \in Seq(S)
Among(list, before) ==
  IsList(list) /\ \A i \in DOMAIN list : \E j \in DOMAIN before : list[i] = before[j]

\* A part of a list is a list of its elements.
LEMMA PartAmong ==
  ASSUME NEW list, IsList(list), NEW m \in Int, NEW n \in Int, 1 =< m, n =< Len(list)
  PROVE  Among(SubSeq(list, m, n), list)
<1> DEFINE part == SubSeq(list, m, n)
<1>1. PICK S : list \in Seq(S)
  BY DEF IsList
<1>2. /\ part \in Seq(S) /\ DOMAIN list = 1 .. Len(list) /\ Len(list) \in Nat
      /\ Len(part) = IF m =< n THEN n - m + 1 ELSE 0
      /\ \A i \in 1 .. Len(part) : part[i] = list[m + i - 1]
  BY <1>1, SubSeqProperties
<1>3. DOMAIN part = 1 .. Len(part)
  BY <1>2
<1> HIDE DEF part
<1>4. ASSUME NEW i \in DOMAIN part PROVE \E j \in DOMAIN list : part[i] = list[j]
  <2>1. i \in 1 .. Len(part) /\ m =< n /\ m + i - 1 \in DOMAIN list
    BY SMTT(60), <1>2, <1>3
  <2> QED BY <1>2, <2>1
<1> QED BY <1>2, <1>4 DEF Among, IsList, part

\* So are two of them together.
LEMMA JoinAmong ==
  ASSUME NEW list, NEW a, NEW b, Among(a, list), Among(b, list)
  PROVE  Among(a \o b, list)
<1>1. PICK S, T : a \in Seq(S) /\ b \in Seq(T)
  BY DEF Among, IsList
<1>2. a \in Seq(S \cup T) /\ b \in Seq(S \cup T)
  BY <1>1
<1>3. /\ a \o b \in Seq(S \cup T) /\ Len(a \o b) = Len(a) + Len(b)
      /\ Len(a) \in Nat /\ Len(b) \in Nat
      /\ DOMAIN a = 1 .. Len(a) /\ DOMAIN b = 1 .. Len(b)
      /\ DOMAIN (a \o b) = 1 .. (Len(a) + Len(b))
      /\ \A i \in 1 .. (Len(a) + Len(b)) :
           (a \o b)[i] = IF i =< Len(a) THEN a[i] ELSE b[i - Len(a)]
  BY <1>2
<1>4. ASSUME NEW i \in DOMAIN (a \o b) PROVE \E j \in DOMAIN list : (a \o b)[i] = list[j]
  <2>1. CASE i =< Len(a)
    BY <1>3, <2>1 DEF Among
  <2>2. CASE ~(i =< Len(a))
    <3>1. i - Len(a) \in DOMAIN b /\ (a \o b)[i] = b[i - Len(a)]
      BY <1>3, <2>2
    <3> QED BY <3>1 DEF Among
  <2> QED BY <2>1, <2>2
<1> QED BY <1>3, <1>4 DEF Among, IsList

\* What is among a part is among the whole.
LEMMA AmongAll == ASSUME NEW a, NEW b, NEW c, Among(a, b), Among(b, c) PROVE Among(a, c)
BY DEF Among

\* Taking a record out, and putting one elsewhere, makes no other.
LEMMA ListRearranged ==
  ASSUME NEW list, IsList(list)
  PROVE  /\ \A id : Among(Without(list, id), list)
         /\ \A from, to \in DOMAIN list : Among(Reordered(list, from, to), list)
<1>0. PICK S : list \in Seq(S)
  BY DEF IsList
<1>1. DOMAIN list = 1 .. Len(list) /\ Len(list) \in Nat
  BY <1>0
<1>2. ASSUME NEW i \in DOMAIN list
      PROVE  Among(RemoveAt(list, i), list) /\ Len(RemoveAt(list, i)) = Len(list) - 1
  <2>1. Among(SubSeq(list, 1, i - 1), list) /\ Among(SubSeq(list, i + 1, Len(list)), list)
    BY <1>1, PartAmong
  <2>2. Len(RemoveAt(list, i)) = Len(list) - 1
    BY SMTT(60), <1>0, <1>1 DEF RemoveAt
  <2> QED BY <2>1, <2>2, JoinAmong DEF RemoveAt
<1>3. ASSUME NEW id PROVE Among(Without(list, id), list)
  <2>1. CASE Has(list, id)
    <3>1. (CHOOSE i \in Find(list, id) : TRUE) \in DOMAIN list
      BY <2>1 DEF Has, Find
    <3> QED BY <1>2, <2>1, <3>1 DEF Without
  <2>2. CASE ~Has(list, id)
    BY <2>2 DEF Without, Among
  <2> QED BY <2>1, <2>2
<1>4. ASSUME NEW from \in DOMAIN list, NEW to \in DOMAIN list
      PROVE  Among(Reordered(list, from, to), list)
  <2> DEFINE rest == RemoveAt(list, from)
             one == <<list[from]>>
  <2>1. Among(rest, list) /\ Len(rest) = Len(list) - 1
    BY <1>2
  <2> HIDE DEF rest
  <2>2. Among(one, list)
    <3>1. one \in Seq({list[from]}) /\ DOMAIN one = {1} /\ one[1] = list[from]
      OBVIOUS
    <3> QED BY <3>1 DEF Among, IsList
  <2> HIDE DEF one
  <2>3. IsList(rest)
    BY <2>1 DEF Among
  <2>4. Among(SubSeq(rest, 1, to - 1), rest) /\ Among(SubSeq(rest, to, Len(rest)), rest)
    BY <1>1, <2>1, <2>3, PartAmong
  <2>5. Among(SubSeq(rest, 1, to - 1), list) /\ Among(SubSeq(rest, to, Len(rest)), list)
    BY <2>1, <2>4, AmongAll
  <2>6. Reordered(list, from, to) = SubSeq(rest, 1, to - 1) \o one \o SubSeq(rest, to, Len(rest))
    BY DEF Reordered, InsertAt, rest, one
  <2> QED BY <2>2, <2>5, <2>6, JoinAmong
<1> QED BY <1>3, <1>4

-----------------------------------------------------------------------------
(* What is true of the spans of a run, and of the panel that paints them.  *)

\* The shape of a span.
IsSpan(s) == s \in [id : Int, label : {s.label}, from : Int, to : Int, type : {s.type}, same : {s.same}]

\* A run that is none of the ids N to come, with spans of which the last is `made' at most.
RunFits(r, made, N, exc) ==
  /\ r \in [id : {r.id}, done : {r.done}, labels : {r.labels}, spans : {r.spans}]
  /\ r.id \notin N
  /\ \A s \in r.spans : IsSpan(s) /\ s.id =< made
  /\ SpansFollow(r, exc)

\* Ids tell the runs of a list apart.
RunsFit(runs, made, N, exc) ==
  /\ IsList(runs)
  /\ \A i \in DOMAIN runs : RunFits(runs[i], made, N, exc)
  /\ \A i, j \in DOMAIN runs : runs[i].id = runs[j].id => runs[i] = runs[j]

\* The run that is recorded: its spans have ended, and before the one that is open began.
Within(r, panel, clock) ==
  /\ panel.status = "warmup" => r.spans = {}
  /\ panel.open # Null => panel.open.label \in r.labels
  /\ \A s \in r.spans : s.to - 1 =< clock /\ (panel.open # Null => s.to - 1 =< panel.open.from)

\* The shape of the panel, and what fits it over the run whose id is `run'.
IsPanel(panel) ==
  panel \in [status : {panel.status}, from : {panel.from}, to : {panel.to}, open : {panel.open},
             span : {panel.span}, link : {panel.link}, asked : {panel.asked}, of : {panel.of},
             promoted : {panel.promoted}, strayed : BOOLEAN]

PanelFits(panel, run, runs, clock) ==
  /\ IsPanel(panel)
  /\ panel.status # "recording" => panel.open = Null
  /\ panel.open # Null => panel.open.from \in Nat
  /\ panel.status \in {"warmup", "recording"} /\ ~panel.strayed =>
       /\ panel.open # Null => panel.open.from =< clock
       /\ \A i \in DOMAIN runs : runs[i].id = run => Within(runs[i], panel, clock)

\* What is invariant of the runs and of the panel.
SpanInv ==
  /\ RunsFit(fieldRuns, used.edits, Unused, astray)
  /\ PanelFits(field, chosen.fieldRun, fieldRuns, maxTUs)

\* The invariant says what is promised.
LEMMA SpansHold == SpanInv => SpansFitLabels
<1> SUFFICES ASSUME SpanInv, NEW r \in Range(fieldRuns) PROVE SpansFollow(r, astray)
  BY DEF SpansFitLabels
<1> HIDE DEF fieldRuns
<1>1. PICK i \in DOMAIN fieldRuns : r = fieldRuns[i]
  BY DEF Range
<1> QED BY <1>1 DEF SpanInv, RunsFit, RunFits

\* As time goes on, what fits a run still does.
LEMMA FitsLater ==
  ASSUME NEW r, NEW made \in Int, NEW N, NEW exc, RunFits(r, made, N, exc),
         NEW more \in Int, made =< more, NEW M, M \subseteq N, NEW wider, exc \subseteq wider
  PROVE  RunFits(r, more, M, wider)
<1>1. ASSUME NEW s \in r.spans PROVE IsSpan(s) /\ s.id =< more
  <2>1. IsSpan(s) /\ s.id =< made /\ s.id \in Int
    BY DEF RunFits, IsSpan
  <2> QED BY <2>1
<1>2. SpansFollow(r, wider)
  BY DEF RunFits, SpansFollow
<1> QED BY <1>1, <1>2 DEF RunFits

\* And a list of runs, rearranged.
LEMMA RunsLater ==
  ASSUME NEW runs, NEW made \in Int, NEW N, NEW exc, RunsFit(runs, made, N, exc),
         NEW list, Among(list, runs),
         NEW more \in Int, made =< more, NEW M, M \subseteq N, NEW wider, exc \subseteq wider
  PROVE  RunsFit(list, more, M, wider)
<1>1. ASSUME NEW i \in DOMAIN list PROVE RunFits(list[i], more, M, wider)
  <2>1. PICK j \in DOMAIN runs : list[i] = runs[j]
    BY DEF Among
  <2>2. RunFits(runs[j], made, N, exc)
    BY DEF RunsFit
  <2> QED BY <2>1, <2>2, FitsLater
<1>2. ASSUME NEW i \in DOMAIN list, NEW j \in DOMAIN list, list[i].id = list[j].id
      PROVE  list[i] = list[j]
  <2>1. PICK k, l \in DOMAIN runs : list[i] = runs[k] /\ list[j] = runs[l]
    BY DEF Among
  <2> QED BY <1>2, <2>1 DEF RunsFit
<1> QED BY <1>1, <1>2 DEF RunsFit, Among

\* A run is added.
LEMMA RunAdded ==
  ASSUME NEW runs, NEW made \in Int, NEW N, NEW exc, RunsFit(runs, made, N, exc),
         NEW r, NEW M, M \subseteq N, RunFits(r, made + 1, M, exc), r.id \in N
  PROVE  RunsFit(Append(runs, r), made + 1, M, exc)
<1> DEFINE list == Append(runs, r)
<1>1. PICK S : runs \in Seq(S)
  BY DEF RunsFit, IsList
<1>2. runs \in Seq(S \cup {r}) /\ r \in S \cup {r}
  BY <1>1
<1>3. /\ list \in Seq(S \cup {r}) /\ Len(runs) \in Nat /\ DOMAIN runs = 1 .. Len(runs)
      /\ DOMAIN list = 1 .. (Len(runs) + 1) /\ list[Len(runs) + 1] = r
      /\ \A i \in 1 .. Len(runs) : list[i] = runs[i]
  BY <1>2
<1> HIDE DEF list
<1>4. ASSUME NEW i \in DOMAIN runs
      PROVE  RunFits(runs[i], made + 1, M, exc) /\ runs[i].id # r.id
  <2>1. RunFits(runs[i], made, N, exc)
    BY DEF RunsFit
  <2> QED BY <2>1, FitsLater DEF RunFits
<1>5. ASSUME NEW i \in DOMAIN list
      PROVE  list[i] = r \/ (i \in DOMAIN runs /\ list[i] = runs[i])
  BY <1>3
<1>6. ASSUME NEW i \in DOMAIN list PROVE RunFits(list[i], made + 1, M, exc)
  BY <1>4, <1>5
<1>7. ASSUME NEW i \in DOMAIN list, NEW j \in DOMAIN list, list[i].id = list[j].id
      PROVE  list[i] = list[j]
  BY <1>4, <1>5, <1>7 DEF RunsFit
<1>8. IsList(list)
  BY <1>3 DEF IsList
<1> QED BY <1>6, <1>7, <1>8 DEF RunsFit, list

\* One run is replaced by another with its id.
LEMMA RunReplaced ==
  ASSUME NEW runs, NEW made \in Int, NEW N, NEW exc, RunsFit(runs, made, N, exc),
         NEW r, NEW list, IsList(list), DOMAIN list = DOMAIN runs,
         \A i \in DOMAIN runs : list[i] = IF runs[i].id = r.id THEN r ELSE runs[i],
         NEW more \in Int, made =< more, NEW M, M \subseteq N, NEW wider, exc \subseteq wider,
         RunFits(r, more, M, wider)
  PROVE  RunsFit(list, more, M, wider)
<1>1. ASSUME NEW i \in DOMAIN list PROVE RunFits(list[i], more, M, wider)
  <2>1. RunFits(runs[i], made, N, exc)
    BY DEF RunsFit
  <2>2. RunFits(runs[i], more, M, wider)
    BY <2>1, FitsLater
  <2> QED BY <2>2
<1>2. ASSUME NEW i \in DOMAIN list, NEW j \in DOMAIN list, list[i].id = list[j].id
      PROVE  list[i] = list[j]
  BY <1>2 DEF RunsFit
<1> QED BY <1>1, <1>2 DEF RunsFit

-----------------------------------------------------------------------------
(* The steps of the field run's panel.                                     *)

\* The same of the next state.
FitsNext ==
  /\ RunsFit(stores'.project.fieldRuns, used'.edits, Unused', astray')
  /\ PanelFits(field', chosen'.fieldRun, stores'.project.fieldRuns, maxTUs')

\* It is the invariant of that state.
LEMMA NextFits == FitsNext => SpanInv'
BY DEF FitsNext, SpanInv, fieldRuns, Project

\* An edit gives the stores the project, and the clock stands.
LEMMA ProjectRewritten ==
  ASSUME LinkInv, NEW p, Rewrites(p)
  PROVE  stores'.project = p /\ maxTUs' = maxTUs /\ desk' = desk
<1> DEFINE st == [stores EXCEPT !.project = p]
<1>1. stores' = st /\ maxTUs' = maxTUs /\ desk' = desk
  BY Finally DEF Rewrites, Handler, Settles, parserVars
<1>2. st.project = p
  BY ShownProject DEF LinkInv
<1> QED BY <1>1, <1>2

\* An edit of the runs gives it those runs.
LEMMA RunsRewritten ==
  ASSUME LinkInv, ProjInv, NEW list, Rewrites(WithFieldRuns(Project, list))
  PROVE  stores'.project.fieldRuns = list /\ maxTUs' = maxTUs /\ desk' = desk
<1>1. WithFieldRuns(Project, list).fieldRuns = list
  BY DEF ProjInv, Fits, Record, WithFieldRuns
<1> QED BY <1>1, ProjectRewritten

\* The run that is open is one of the list, and the one chosen.
LEMMA OpenRun ==
  ASSUME NEW r \in Open
  PROVE  r.id = chosen.fieldRun /\ \E i \in DOMAIN fieldRuns : r = fieldRuns[i]
<1> HIDE DEF fieldRuns
<1> QED BY DEF Open, Range

\* A list in which some records are replaced is a list.
LEMMA ListReplaced ==
  ASSUME NEW runs, IsList(runs), NEW list, NEW r,
         list = [i \in DOMAIN runs |-> IF runs[i].id = r.id THEN r ELSE runs[i]]
  PROVE  IsList(list)
<1>1. PICK S : runs \in Seq(S)
  BY DEF IsList
<1>2. list \in Seq(S \cup {r})
  BY <1>1
<1> QED BY <1>2 DEF IsList

\* The run x is r with fewer spans or other labels, the spans being about what they were.
Lesser(x, r) ==
  /\ x \in [id : {r.id}, done : {x.done}, labels : {x.labels}, spans : {x.spans}]
  /\ \A s \in x.spans :
       /\ IsSpan(s) /\ (s.label \in r.labels => s.label \in x.labels)
       /\ \E t \in r.spans : t.id = s.id /\ t.label = s.label /\ t.from = s.from /\ t.to = s.to

\* It fits as r does.
LEMMA LesserFits ==
  ASSUME NEW r, NEW made, NEW N, NEW exc, RunFits(r, made, N, exc), NEW x, Lesser(x, r)
  PROVE  RunFits(x, made, N, exc)
<1>1. ASSUME NEW s \in x.spans
      PROVE  \E t \in r.spans : t.id = s.id /\ t.label = s.label /\ t.from = s.from /\ t.to = s.to
  BY DEF Lesser
<1>2. ASSUME NEW s \in x.spans PROVE IsSpan(s) /\ s.id =< made
  BY <1>1 DEF Lesser, RunFits
<1>3. ASSUME NEW s \in x.spans, s.id \notin exc PROVE s.label \in x.labels
  <2>1. PICK t \in r.spans : t.id = s.id /\ t.label = s.label
    BY <1>1
  <2> QED BY <1>3, <2>1 DEF Lesser, RunFits, SpansFollow
<1>4. ASSUME NEW s \in x.spans, s.id \notin exc, NEW u \in x.spans, u.id \notin exc, u.id < s.id
      PROVE  u.to - 1 =< s.from
  <2>1. PICK t \in r.spans : t.id = s.id /\ t.from = s.from
    BY <1>1
  <2>2. PICK v \in r.spans : v.id = u.id /\ v.to = u.to
    BY <1>1
  <2> QED BY <1>4, <2>1, <2>2 DEF RunFits, SpansFollow
<1>5. x.id = r.id /\ x \in [id : {x.id}, done : {x.done}, labels : {x.labels}, spans : {x.spans}]
  BY DEF Lesser
<1> QED BY <1>2, <1>3, <1>4, <1>5 DEF RunFits, SpansFollow

\* And is recorded as r is.
LEMMA LesserWithin ==
  ASSUME NEW r, NEW panel, NEW clock, Within(r, panel, clock), NEW x, Lesser(x, r),
         panel.open # Null => r.labels \subseteq x.labels
  PROVE  Within(x, panel, clock)
<1>1. ASSUME NEW s \in x.spans PROVE \E t \in r.spans : t.to = s.to
  BY DEF Lesser
<1> QED BY <1>1 DEF Within

\* A change of the run that is open, by a panel that goes on as it was.
LEMMA ChangeFits ==
  ASSUME LinkInv, ProjInv, SpanInv, NEW r \in Open, NEW x, Lesser(x, r),
         field.open # Null => r.labels \subseteq x.labels,
         NEW panel, Changes(x, panel), IsPanel(panel), panel.status = field.status,
         panel.open = field.open, panel.strayed = field.strayed
  PROVE  FitsNext
<1> DEFINE runs == fieldRuns
           list == [i \in DOMAIN runs |-> IF runs[i].id = x.id THEN x ELSE runs[i]]
<1>1. /\ Rewrites(WithFieldRuns(Project, list)) /\ Spends
      /\ field' = panel /\ chosen' = chosen /\ astray' = astray
  BY DEF Changes, Keeps, Edit, Mutated, Each
<1> HIDE DEF list
<1>2. stores'.project.fieldRuns = list /\ maxTUs' = maxTUs /\ desk' = desk
  BY <1>1, RunsRewritten
<1>3. used.edits \in Int /\ used'.edits = used.edits + 1 /\ Unused' \subseteq Unused
  BY <1>1, <1>2, SpendsOne DEF ProjInv, Spends
<1>4. PICK k \in DOMAIN runs : r = runs[k]
  BY OpenRun
<1>5. r.id = chosen.fieldRun
  BY OpenRun
<1> HIDE DEF runs
<1>6. RunsFit(runs, used.edits, Unused, astray) /\ PanelFits(field, chosen.fieldRun, runs, maxTUs)
  BY DEF SpanInv, runs
<1>7. RunFits(r, used.edits, Unused, astray)
  BY <1>4, <1>6 DEF RunsFit
<1>8. RunFits(x, used.edits + 1, Unused', astray)
  BY <1>3, <1>7, LesserFits, FitsLater
<1>9. IsList(list)
  BY <1>6, ListReplaced DEF RunsFit, list
<1>10. RunsFit(list, used.edits + 1, Unused', astray)
  BY <1>3, <1>6, <1>8, <1>9, RunReplaced DEF list
<1>11. PanelFits(panel, chosen.fieldRun, list, maxTUs)
  <2>1. ASSUME panel.status \in {"warmup", "recording"}, ~panel.strayed,
               NEW i \in DOMAIN list, list[i].id = chosen.fieldRun
        PROVE  Within(list[i], panel, maxTUs)
    <3>1. x.id = r.id
      BY DEF Lesser
    <3>2. Within(r, field, maxTUs)
      BY <1>4, <1>5, <1>6, <2>1 DEF PanelFits
    <3>3. list[i] = x
      BY <1>5, <2>1, <3>1 DEF list
    <3>4. Within(x, field, maxTUs)
      BY <3>2, LesserWithin
    <3> QED BY <3>3, <3>4 DEF Within
  <2> QED BY <1>6, <2>1 DEF PanelFits
<1> QED BY <1>1, <1>2, <1>3, <1>10, <1>11 DEF FitsNext

\* A span that means something else, or is linked otherwise, is about what it was.
LEMMA SpanTouched ==
  ASSUME NEW t, IsSpan(t), NEW v
  PROVE  /\ IsSpan([t EXCEPT !.same = v]) /\ IsSpan([t EXCEPT !.type = v])
         /\ LET s == [t EXCEPT !.same = v]
            IN  s.id = t.id /\ s.label = t.label /\ s.from = t.from /\ s.to = t.to
         /\ LET s == [t EXCEPT !.type = v]
            IN  s.id = t.id /\ s.label = t.label /\ s.from = t.from /\ s.to = t.to
BY SMTT(60) DEF IsSpan

\* A span of the run is given a type.
Means(r, id, type) == OnSpan(r, id, LAMBDA s : [s EXCEPT !.type = type])

\* What the buttons make of the run.
LEMMA RunLessened ==
  ASSUME NEW r, NEW made, NEW N, NEW exc, RunFits(r, made, N, exc)
  PROVE  /\ \A label : Lesser([r EXCEPT !.labels = @ \cup {label}], r)
         /\ \A label : Lesser([r EXCEPT !.labels = @ \ {label},
                                        !.spans = {s \in @ : s.label # label}], r)
         /\ \A id, other : Lesser(toggleLink(r, id, other), r)
         /\ \A id, type : Lesser(Means(r, id, type), r)
         /\ \A id : Lesser([r EXCEPT !.spans = {[s EXCEPT !.same = @ \ {id}] :
                                                  s \in {t \in r.spans : t.id # id}}], r)
         /\ Lesser([r EXCEPT !.spans = {}], r)
<1>0. /\ r \in [id : {r.id}, done : {r.done}, labels : {r.labels}, spans : {r.spans}]
      /\ \A s \in r.spans : IsSpan(s)
  BY DEF RunFits
<1>1. ASSUME NEW spans,
             \A s \in spans : IsSpan(s) /\ \E t \in r.spans : t.id = s.id /\ t.label = s.label
                                                             /\ t.from = s.from /\ t.to = s.to
      PROVE  Lesser([r EXCEPT !.spans = spans], r)
  <2>1. /\ [r EXCEPT !.spans = spans] \in [id : {r.id}, done : {r.done}, labels : {r.labels}, spans : {spans}]
        /\ [r EXCEPT !.spans = spans].labels = r.labels
    BY <1>0
  <2> QED BY <1>1, <2>1 DEF Lesser
<1>2. ASSUME NEW label PROVE Lesser([r EXCEPT !.labels = @ \cup {label}], r)
  BY SMTT(60), <1>0 DEF Lesser
<1>3. ASSUME NEW label
      PROVE  Lesser([r EXCEPT !.labels = @ \ {label}, !.spans = {s \in @ : s.label # label}], r)
  <2> DEFINE labels == r.labels \ {label}
             spans == {s \in r.spans : s.label # label}
             x == [r EXCEPT !.labels = labels, !.spans = spans]
  <2>1. x \in [id : {r.id}, done : {r.done}, labels : {labels}, spans : {spans}]
    BY <1>0
  <2> QED BY ZenonT(90), <1>0, <2>1 DEF Lesser
<1>4. ASSUME NEW id, NEW other PROVE Lesser(toggleLink(r, id, other), r)
  <2> DEFINE Op(s) == [s EXCEPT !.same = SymDiff(@, {other})]
             spans == {IF s.id = id THEN Op(s) ELSE s : s \in r.spans}
  <2>1. toggleLink(r, id, other) = [r EXCEPT !.spans = spans]
    BY DEF toggleLink, OnSpan
  <2>2. ASSUME NEW t \in r.spans
        PROVE  IsSpan(Op(t)) /\ Op(t).id = t.id /\ Op(t).label = t.label /\ Op(t).from = t.from /\ Op(t).to = t.to
    BY <1>0, SpanTouched
  <2> HIDE DEF Op
  <2>3. ASSUME NEW s \in spans
        PROVE  IsSpan(s) /\ \E t \in r.spans : t.id = s.id /\ t.label = s.label
                                              /\ t.from = s.from /\ t.to = s.to
    BY <1>0, <2>2
  <2> HIDE DEF spans
  <2> QED BY <1>1, <2>1, <2>3
<1>5. ASSUME NEW id, NEW type PROVE Lesser(Means(r, id, type), r)
  <2> DEFINE Op(s) == [s EXCEPT !.type = type]
             spans == {IF s.id = id THEN Op(s) ELSE s : s \in r.spans}
  <2>1. Means(r, id, type) = [r EXCEPT !.spans = spans]
    BY DEF Means, OnSpan
  <2>2. ASSUME NEW t \in r.spans
        PROVE  IsSpan(Op(t)) /\ Op(t).id = t.id /\ Op(t).label = t.label /\ Op(t).from = t.from /\ Op(t).to = t.to
    BY <1>0, SpanTouched
  <2> HIDE DEF Op
  <2>3. ASSUME NEW s \in spans
        PROVE  IsSpan(s) /\ \E t \in r.spans : t.id = s.id /\ t.label = s.label
                                              /\ t.from = s.from /\ t.to = s.to
    BY <1>0, <2>2
  <2> HIDE DEF spans
  <2> QED BY <1>1, <2>1, <2>3
<1>6. ASSUME NEW id
      PROVE  Lesser([r EXCEPT !.spans = {[s EXCEPT !.same = @ \ {id}] :
                                           s \in {t \in r.spans : t.id # id}}], r)
  <2> DEFINE Op(s) == [s EXCEPT !.same = @ \ {id}]
             spans == {Op(s) : s \in {t \in r.spans : t.id # id}}
  <2>2. ASSUME NEW t \in r.spans
        PROVE  IsSpan(Op(t)) /\ Op(t).id = t.id /\ Op(t).label = t.label /\ Op(t).from = t.from /\ Op(t).to = t.to
    BY <1>0, SpanTouched
  <2>3. ASSUME NEW s \in spans
        PROVE  IsSpan(s) /\ \E t \in r.spans : t.id = s.id /\ t.label = s.label
                                              /\ t.from = s.from /\ t.to = s.to
    <3> HIDE DEF Op
    <3> QED BY <2>2
  <2>4. Lesser([r EXCEPT !.spans = spans], r)
    <3> HIDE DEF spans
    <3> QED BY <1>1, <2>3
  <2> QED BY <2>4
<1>7. Lesser([r EXCEPT !.spans = {}], r)
  BY <1>1
<1> QED BY <1>2, <1>3, <1>4, <1>5, <1>6, <1>7

\* A panel that goes on as it was.
LEMMA PanelGoesOn ==
  ASSUME NEW panel, NEW run, NEW runs, NEW clock, PanelFits(panel, run, runs, clock),
         NEW next, IsPanel(next), next.status = panel.status, next.open = panel.open,
         next.strayed = panel.strayed
  PROVE  PanelFits(next, run, runs, clock)
<1>1. ASSUME NEW i \in DOMAIN runs, Within(runs[i], panel, clock) PROVE Within(runs[i], next, clock)
  BY <1>1 DEF Within
<1> QED BY <1>1 DEF PanelFits

\* A step of the panel alone.
LEMMA TurnFits ==
  ASSUME SpanInv, NEW panel, TurnsField(panel), PanelFits(panel, chosen.fieldRun, fieldRuns, maxTUs)
  PROVE  FitsNext
BY DEF SpanInv, TurnsField, FitsNext, cockpitVars, pageVars, parserVars, fieldRuns, Project, Unused

\* The span painted has one of the labels, and begins when those before it have ended.
LEMMA PaintedFits ==
  ASSUME NEW r, NEW made \in Int, NEW N, NEW exc, RunFits(r, made, N, exc),
         NEW open, open.from \in Nat, NEW s, IsSpan(s), s.id = made + 1, s.label = open.label,
         s.from = open.from, NEW M, M \subseteq N, NEW wider, exc \subseteq wider,
         \/ s.id \in wider
         \/ open.label \in r.labels /\ \A t \in r.spans : t.to - 1 =< open.from
  PROVE  RunFits([r EXCEPT !.spans = @ \cup {s}], made + 1, M, wider)
<1> DEFINE x == [r EXCEPT !.spans = @ \cup {s}]
<1>1. RunFits(r, made + 1, M, wider)
  BY FitsLater
<1>2. /\ x \in [id : {r.id}, done : {r.done}, labels : {r.labels}, spans : {r.spans \cup {s}}]
      /\ x.id = r.id /\ x.labels = r.labels /\ x.spans = r.spans \cup {s}
  BY DEF RunFits
<1> HIDE DEF x
<1>3. ASSUME NEW t \in r.spans PROVE t.id \in Int /\ t.id =< made /\ t.id # s.id /\ ~(s.id < t.id)
  <2>1. IsSpan(t) /\ t.id =< made
    BY DEF RunFits
  <2>2. t.id \in Int
    BY <2>1 DEF IsSpan
  <2> QED BY <2>1, <2>2
<1>4. ASSUME NEW t \in x.spans PROVE IsSpan(t) /\ t.id =< made + 1
  <2>1. CASE t = s
    BY <2>1
  <2>2. CASE t \in r.spans
    BY <1>1, <2>2 DEF RunFits
  <2> QED BY <1>2, <2>1, <2>2
<1>5. ASSUME NEW t \in x.spans, t.id \notin wider PROVE t.label \in x.labels
  <2>1. CASE t = s
    BY <1>2, <1>5, <2>1
  <2>2. CASE t \in r.spans
    BY <1>1, <1>2, <1>5, <2>2 DEF RunFits, SpansFollow
  <2> QED BY <1>2, <2>1, <2>2
<1>6. ASSUME NEW t \in x.spans, t.id \notin wider, NEW u \in x.spans, u.id \notin wider, u.id < t.id
      PROVE  u.to - 1 =< t.from
  <2>1. u \in r.spans
    <3>1. CASE t = s /\ u = s
      BY <1>6, <3>1
    <3>2. CASE t \in r.spans /\ u = s
      BY <1>3, <1>6, <3>2
    <3> QED BY <1>2, <3>1, <3>2
  <2>2. CASE t = s
    BY <1>6, <2>1, <2>2
  <2>3. CASE t \in r.spans
    BY <1>1, <1>6, <2>1, <2>3 DEF RunFits, SpansFollow
  <2> QED BY <1>2, <2>2, <2>3
<1>7. x.id \notin M
  BY <1>1, <1>2 DEF RunFits
<1> QED BY <1>2, <1>4, <1>5, <1>6, <1>7 DEF RunFits, SpansFollow, x

\* The open span is added to the run that is open.
LEMMA PaintFits ==
  ASSUME LinkInv, ProjInv, SpanInv, maxTUs \in Nat, NEW r \in Open,
         field.status = "recording", field.open # Null,
         NEW panel, Paints(r, panel), IsPanel(panel), panel.strayed = field.strayed,
         \/ panel.status = "done" /\ panel.open = Null
         \/ /\ panel.status = "recording"
            /\ panel.open # Null => panel.open.label \in r.labels /\ panel.open.from = maxTUs
  PROVE  FitsNext
<1> DEFINE runs == fieldRuns
           s == Painted(field.open, FreshId)
           x == [r EXCEPT !.spans = @ \cup {s}]
           list == [i \in DOMAIN runs |-> IF runs[i].id = x.id THEN x ELSE runs[i]]
           op == [i \in DOMAIN runs |-> IF runs[i].id = r.id THEN [runs[i] EXCEPT !.spans = @ \cup {s}]
                                        ELSE runs[i]]
<1>1. /\ Rewrites(WithFieldRuns(Project, op)) /\ Spends
      /\ field' = panel /\ chosen' = chosen
      /\ astray' = IF field.strayed THEN astray \cup {FreshId} ELSE astray
  BY DEF Paints, Keeps, Edit, Mutated, Each
<1> HIDE DEF op
<1>2. stores'.project.fieldRuns = op /\ maxTUs' = maxTUs /\ desk' = desk
  BY <1>1, RunsRewritten
<1>3. used.edits \in Int /\ used'.edits = used.edits + 1 /\ Unused' \subseteq Unused
  BY <1>1, <1>2, SpendsOne DEF ProjInv, Spends
<1>4. PICK k \in DOMAIN runs : r = runs[k]
  BY OpenRun
<1>5. r.id = chosen.fieldRun
  BY OpenRun
<1>6. /\ RunsFit(runs, used.edits, Unused, astray)
      /\ PanelFits(field, chosen.fieldRun, runs, maxTUs)
  BY DEF SpanInv
<1> HIDE DEF runs
<1>7. RunFits(r, used.edits, Unused, astray)
  BY <1>4, <1>6 DEF RunsFit
<1>8. field.open.from \in Nat
  BY <1>6 DEF PanelFits
<1>9. /\ IsSpan(s) /\ s.id = used.edits + 1 /\ s.label = field.open.label /\ s.from = field.open.from
      /\ field.open.from =< maxTUs => s.to - 1 =< maxTUs
  BY <1>3, <1>8 DEF Painted, IsSpan, FreshId
<1>10. ~field.strayed => Within(r, field, maxTUs) /\ field.open.from =< maxTUs
  BY <1>4, <1>5, <1>6 DEF PanelFits
<1> HIDE DEF s
<1>11. x.id = r.id /\ x.labels = r.labels /\ x.spans = r.spans \cup {s}
  BY <1>7 DEF RunFits
<1>12. RunFits(x, used.edits + 1, Unused', astray')
  <2>1. \/ s.id \in astray'
        \/ field.open.label \in r.labels /\ \A t \in r.spans : t.to - 1 =< field.open.from
    BY <1>1, <1>9, <1>10 DEF Within, FreshId
  <2>2. astray \subseteq astray'
    BY <1>1
  <2> HIDE DEF x
  <2>3. RunFits([r EXCEPT !.spans = @ \cup {s}], used.edits + 1, Unused', astray')
    BY <1>3, <1>7, <1>8, <1>9, <2>1, <2>2, PaintedFits
  <2> QED BY <2>3 DEF x
<1>13. op = list
  <2>1. ASSUME NEW i \in DOMAIN runs, runs[i].id = r.id PROVE runs[i] = r
    BY <1>4, <1>6, <2>1 DEF RunsFit
  <2> QED BY <1>11, <2>1 DEF op
<1> HIDE DEF x
<1>14. IsList(list)
  BY <1>6, ListReplaced DEF RunsFit
<1> HIDE DEF list
<1>15. RunsFit(list, used.edits + 1, Unused', astray')
  BY <1>1, <1>3, <1>6, <1>12, <1>14, RunReplaced DEF list
<1>16. PanelFits(panel, chosen.fieldRun, list, maxTUs)
  <2>1. ASSUME panel.status \in {"warmup", "recording"}, ~panel.strayed,
               NEW i \in DOMAIN list, list[i].id = chosen.fieldRun
        PROVE  Within(list[i], panel, maxTUs)
    <3>1. list[i] = x
      BY <1>5, <1>11, <2>1 DEF list
    <3>2. ASSUME NEW t \in x.spans PROVE t.to - 1 =< maxTUs
      BY <1>9, <1>10, <1>11, <2>1 DEF Within
    <3>3. Within(x, panel, maxTUs)
      BY <1>11, <2>1, <3>2 DEF Within
    <3> QED BY <3>1, <3>3
  <2> QED BY <2>1 DEF PanelFits
<1> QED BY <1>1, <1>2, <1>3, <1>13, <1>15, <1>16 DEF FitsNext

\* A recording begins: the spans of the run that is open are cleared.
LEMMA StartFits ==
  ASSUME LinkInv, ProjInv, SpanInv, maxTUs \in Nat, NEW led, startRun(led) PROVE FitsNext
<1>1. PICK r \in Open :
        /\ Rewrites(WithFieldRuns(Project, Mutated(fieldRuns, r.id, LAMBDA x : [x EXCEPT !.spans = {}])))
        /\ field' = IF led THEN [[field EXCEPT !.open = Null, !.strayed = FALSE] EXCEPT !.status = "warmup"]
                    ELSE Recording([field EXCEPT !.open = Null, !.strayed = FALSE])
        /\ UNCHANGED <<used, chosen, astray>>
  BY DEF startRun
<1> DEFINE runs == fieldRuns
           x == [r EXCEPT !.spans = {}]
           list == [i \in DOMAIN runs |-> IF runs[i].id = x.id THEN x ELSE runs[i]]
           op == [i \in DOMAIN runs |-> IF runs[i].id = r.id THEN [runs[i] EXCEPT !.spans = {}]
                                        ELSE runs[i]]
<1>2. Rewrites(WithFieldRuns(Project, op))
  BY <1>1 DEF Mutated, Each
<1> HIDE DEF op
<1>3. stores'.project.fieldRuns = op /\ maxTUs' = maxTUs /\ desk' = desk
  BY <1>2, RunsRewritten
<1>4. used' = used /\ used.edits \in Int /\ Unused' = Unused
  BY <1>1, <1>3 DEF ProjInv, Unused
<1>5. PICK k \in DOMAIN runs : r = runs[k]
  BY OpenRun
<1>6. r.id = chosen.fieldRun
  BY OpenRun
<1>7. /\ RunsFit(runs, used.edits, Unused, astray)
      /\ PanelFits(field, chosen.fieldRun, runs, maxTUs)
  BY DEF SpanInv
<1> HIDE DEF runs
<1>8. RunFits(r, used.edits, Unused, astray)
  BY <1>5, <1>7 DEF RunsFit
<1>9. x.id = r.id /\ x.spans = {}
  BY <1>8 DEF RunFits
<1>10. RunFits(x, used.edits, Unused, astray)
  <2>1. Lesser([r EXCEPT !.spans = {}], r)
    BY <1>8, RunLessened
  <2> QED BY <1>8, <2>1, LesserFits
<1>11. op = list
  <2>1. ASSUME NEW i \in DOMAIN runs, runs[i].id = r.id PROVE runs[i] = r
    BY <1>5, <1>7, <2>1 DEF RunsFit
  <2> QED BY <1>9, <2>1 DEF op
<1> HIDE DEF x
<1>12. IsList(list)
  BY <1>7, ListReplaced DEF RunsFit
<1> HIDE DEF list
<1>13. RunsFit(list, used.edits, Unused, astray)
  BY <1>4, <1>7, <1>10, <1>12, RunReplaced DEF list
<1>14. /\ IsPanel(field') /\ field'.open = Null /\ field'.status \in {"warmup", "recording"}
  <2> DEFINE panel == [field EXCEPT !.open = Null, !.strayed = FALSE]
  <2>1. IsPanel(panel) /\ panel.open = Null
    BY <1>7 DEF PanelFits, IsPanel
  <2>2. field' = IF led THEN [panel EXCEPT !.status = "warmup"] ELSE Recording(panel)
    BY <1>1
  <2> HIDE DEF panel
  <2> QED BY <2>1, <2>2 DEF Recording, IsPanel
<1>15. PanelFits(field', chosen.fieldRun, list, maxTUs)
  <2>1. ASSUME NEW i \in DOMAIN list, list[i].id = chosen.fieldRun
        PROVE  Within(list[i], field', maxTUs)
    <3>1. list[i] = x
      BY <1>6, <1>9, <2>1 DEF list
    <3> QED BY <1>9, <1>14, <3>1 DEF Within
  <2> QED BY <1>14, <2>1 DEF PanelFits
<1> QED BY <1>1, <1>3, <1>4, <1>11, <1>13, <1>15 DEF FitsNext

\* A step of the panel of a field run keeps the runs fit.
LEMMA FieldFits ==
  ASSUME LinkInv, ProjInv, SpanInv, maxTUs \in Nat, FieldStep PROVE FitsNext
<1>0. PanelFits(field, chosen.fieldRun, fieldRuns, maxTUs) /\ IsPanel(field)
  BY DEF SpanInv, PanelFits
<1>1. ASSUME NEW r \in Open PROVE RunFits(r, used.edits, Unused, astray) /\ r.id = chosen.fieldRun
  <2> DEFINE runs == fieldRuns
  <2>1. PICK k \in DOMAIN runs : r = runs[k]
    BY OpenRun
  <2>2. RunsFit(runs, used.edits, Unused, astray)
    BY DEF SpanInv
  <2> HIDE DEF runs
  <2>3. RunFits(r, used.edits, Unused, astray)
    BY <2>1, <2>2 DEF RunsFit
  <2> QED BY <2>3, OpenRun
<1>2. ASSUME NEW panel, TurnsField(panel), IsPanel(panel), panel.status = field.status,
             panel.open = field.open, panel.strayed = field.strayed
      PROVE  FitsNext
  BY <1>0, <1>2, PanelGoesOn, TurnFits
<1>3. ASSUME NEW r \in Open, NEW x, Lesser(x, r), field.open # Null => r.labels \subseteq x.labels,
             NEW panel, Changes(x, panel), IsPanel(panel), panel.status = field.status,
             panel.open = field.open, panel.strayed = field.strayed
      PROVE  FitsNext
  BY <1>3, ChangeFits
<1>4. ASSUME NEW v
      PROVE  LET a == [field EXCEPT !.span = v]
             IN  /\ IsPanel(a) /\ a.status = field.status /\ a.open = field.open
                 /\ a.strayed = field.strayed
  BY <1>0 DEF IsPanel
<1>5. ASSUME NEW r \in Open, NEW spans PROVE [r EXCEPT !.spans = spans].labels = r.labels
  BY <1>1 DEF RunFits
<1>6. ASSUME addLabel PROVE FitsNext
  <2>1. PICK r \in Open : Changes([r EXCEPT !.labels = @ \cup {<<r.id, FreshId + 2>>}], field)
    BY <1>6 DEF addLabel
  <2> DEFINE label == <<r.id, FreshId + 2>>
             x == [r EXCEPT !.labels = @ \cup {label}]
  <2> HIDE DEF label
  <2>2. Lesser(x, r) /\ x.labels = r.labels \cup {label}
    BY <1>1, RunLessened DEF RunFits
  <2>3. Changes(x, field)
    BY <2>1 DEF label
  <2> HIDE DEF x
  <2> QED BY <1>0, <1>3, <2>2, <2>3
<1>7. ASSUME NEW label, delLabel(label) PROVE FitsNext
  <2>1. PICK r \in Open : /\ field.status # "recording"
                          /\ Changes([r EXCEPT !.labels = @ \ {label},
                                               !.spans = {s \in @ : s.label # label}], field)
    BY <1>7 DEF delLabel
  <2>2. Lesser([r EXCEPT !.labels = @ \ {label}, !.spans = {s \in @ : s.label # label}], r)
    BY <1>1, RunLessened
  <2>3. field.open = Null
    BY <1>0, <2>1 DEF PanelFits
  <2> QED BY <1>0, <1>3, <2>1, <2>2, <2>3
<1>8. ASSUME beginRecording PROVE FitsNext
  <2> DEFINE panel == Recording(field)
  <2>1. TurnsField(panel) /\ field.status = "warmup" /\ field.open = Null
    BY <1>0, <1>8 DEF beginRecording, PanelFits
  <2>2. /\ IsPanel(panel) /\ panel.status = "recording" /\ panel.open = Null
        /\ panel.strayed = field.strayed
    BY <1>0, <2>1 DEF Recording, IsPanel
  <2> HIDE DEF panel
  <2>3. PanelFits(panel, chosen.fieldRun, fieldRuns, maxTUs)
    <3> DEFINE runs == fieldRuns
    <3>1. ASSUME NEW i \in DOMAIN runs, Within(runs[i], field, maxTUs)
          PROVE  Within(runs[i], panel, maxTUs)
      BY <2>1, <2>2, <3>1 DEF Within
    <3> HIDE DEF runs
    <3>2. PanelFits(panel, chosen.fieldRun, runs, maxTUs)
      BY <1>0, <2>1, <2>2, <3>1 DEF PanelFits, runs
    <3> QED BY <3>2 DEF runs
  <2> QED BY <2>1, <2>3, TurnFits
<1>9. ASSUME NEW label, onLabelTap(label) PROVE FitsNext
  <2> DEFINE next == IF field.open # Null /\ field.open.label = label THEN Null
                     ELSE [label |-> label, from |-> maxTUs]
             panel == [field EXCEPT !.open = next]
  <2>1. PICK r \in Open : /\ field.status = "recording" /\ label \in r.labels
                          /\ IF field.open = Null THEN TurnsField(panel) ELSE Paints(r, panel)
    BY <1>9 DEF onLabelTap
  <2>2. /\ next # Null => next.label \in r.labels /\ next.from = maxTUs
        /\ field.open = Null => next = [label |-> label, from |-> maxTUs]
    BY <2>1
  <2> HIDE DEF next
  <2>3. /\ IsPanel(panel) /\ panel.status = "recording" /\ panel.open = next
        /\ panel.strayed = field.strayed
    BY <1>0, <2>1 DEF IsPanel
  <2> HIDE DEF panel
  <2>4. ASSUME field.open # Null PROVE FitsNext
    BY <2>1, <2>2, <2>3, <2>4, PaintFits
  <2>5. ASSUME field.open = Null PROVE FitsNext
    <3> DEFINE runs == fieldRuns
    <3>1. PICK k \in DOMAIN runs : r = runs[k]
      BY OpenRun
    <3>2. RunsFit(runs, used.edits, Unused, astray) /\ PanelFits(field, chosen.fieldRun, runs, maxTUs)
      BY DEF SpanInv
    <3> HIDE DEF runs
    <3>3. ASSUME ~panel.strayed, NEW i \in DOMAIN runs, runs[i].id = chosen.fieldRun
          PROVE  Within(runs[i], panel, maxTUs)
      <4>1. runs[i] = r
        BY <1>1, <3>1, <3>2, <3>3 DEF RunsFit
      <4>2. Within(r, field, maxTUs)
        BY <2>1, <2>3, <3>2, <3>3, <4>1 DEF PanelFits
      <4> QED BY <2>2, <2>3, <2>5, <4>1, <4>2 DEF Within
    <3>4. PanelFits(panel, chosen.fieldRun, runs, maxTUs)
      BY <2>2, <2>3, <3>3 DEF PanelFits
    <3> QED BY <2>1, <2>5, <3>4, TurnFits DEF runs
  <2> QED BY <2>4, <2>5
<1>10. ASSUME stopRun PROVE FitsNext
  <2> DEFINE panel == [field EXCEPT !.status = "done", !.to = maxTUs, !.open = Null]
  <2>1. PICK r \in Open : /\ field.status = "recording"
                          /\ IF field.open = Null THEN TurnsField(panel) ELSE Paints(r, panel)
    BY <1>10 DEF stopRun
  <2>2. /\ IsPanel(panel) /\ panel.status = "done" /\ panel.open = Null
        /\ panel.strayed = field.strayed
    BY <1>0 DEF IsPanel
  <2> HIDE DEF panel
  <2>3. ASSUME field.open # Null PROVE FitsNext
    BY <2>1, <2>2, <2>3, PaintFits
  <2>4. ASSUME field.open = Null PROVE FitsNext
    <3>1. PanelFits(panel, chosen.fieldRun, fieldRuns, maxTUs)
      BY <2>2 DEF PanelFits
    <3> QED BY <2>1, <2>4, <3>1, TurnFits
  <2> QED BY <2>3, <2>4
<1>11. ASSUME NEW id, pickSpan(id) PROVE FitsNext
  <2>1. PICK r \in Open :
          IF field.link /\ id # Picked(r)
          THEN Changes(toggleLink(r, Picked(r), id), [field EXCEPT !.span = Picked(r)])
          ELSE TurnsField([field EXCEPT !.span = id])
    BY <1>11 DEF pickSpan
  <2> DEFINE picked == Picked(r)
             x == toggleLink(r, picked, id)
  <2>2. Lesser(x, r) /\ x.labels = r.labels
    <3>1. Lesser(toggleLink(r, picked, id), r)
      BY <1>1, RunLessened
    <3>2. PICK spans : toggleLink(r, picked, id) = [r EXCEPT !.spans = spans]
      BY DEF toggleLink, OnSpan
    <3> QED BY <1>5, <3>1, <3>2
  <2>3. \/ Changes(x, [field EXCEPT !.span = picked]) \/ TurnsField([field EXCEPT !.span = id])
    BY <2>1
  <2> HIDE DEF x, picked
  <2> QED BY <1>2, <1>3, <1>4, <2>2, <2>3
<1>12. ASSUME setLinkMode PROVE FitsNext
  <2> DEFINE panel == [field EXCEPT !.link = ~@]
  <2>1. TurnsField(panel)
    BY <1>12 DEF setLinkMode
  <2>2. /\ IsPanel(panel) /\ panel.status = field.status /\ panel.open = field.open
        /\ panel.strayed = field.strayed
    BY <1>0 DEF IsPanel
  <2> QED BY <1>2, <2>1, <2>2
<1>13. ASSUME NEW type, setSpanType(type) PROVE FitsNext
  <2>1. PICK r \in Open : Changes(Means(r, Picked(r), type), field)
    BY <1>13 DEF setSpanType, Means
  <2> DEFINE picked == Picked(r)
             x == Means(r, picked, type)
  <2>2. Lesser(x, r) /\ x.labels = r.labels
    <3>1. Lesser(Means(r, picked, type), r)
      BY <1>1, RunLessened
    <3>2. PICK spans : Means(r, picked, type) = [r EXCEPT !.spans = spans]
      BY DEF Means, OnSpan
    <3> QED BY <1>5, <3>1, <3>2
  <2>3. Changes(x, field)
    BY <2>1
  <2> HIDE DEF x
  <2> QED BY <1>0, <1>3, <2>2, <2>3
<1>14. ASSUME delSpan PROVE FitsNext
  <2>1. PICK r \in Open :
          LET id == Picked(r)
          IN  Changes([r EXCEPT !.spans = {[s EXCEPT !.same = @ \ {id}] : s \in {t \in r.spans : t.id # id}}],
                      [field EXCEPT !.span = Null])
    BY <1>14 DEF delSpan
  <2> DEFINE id == Picked(r)
             x == [r EXCEPT !.spans = {[s EXCEPT !.same = @ \ {id}] : s \in {t \in r.spans : t.id # id}}]
  <2>2. Lesser(x, r) /\ x.labels = r.labels
    BY <1>1, <1>5, RunLessened
  <2>3. Changes(x, [field EXCEPT !.span = Null])
    BY <2>1
  <2> HIDE DEF x
  <2> QED BY <1>3, <1>4, <2>2, <2>3
<1>15. ASSUME NEW raises, analyze(raises) PROVE FitsNext
  <2>1. PICK asked : TurnsField([field EXCEPT !.asked = asked])
    BY <1>15 DEF analyze
  <2> DEFINE panel == [field EXCEPT !.asked = asked]
  <2>2. /\ IsPanel(panel) /\ panel.status = field.status /\ panel.open = field.open
        /\ panel.strayed = field.strayed
    BY <1>0 DEF IsPanel
  <2> QED BY <1>2, <2>1, <2>2
<1>16. ASSUME TakesResult PROVE FitsNext
  <2> DEFINE panel == [field EXCEPT !.of = field.asked.run, !.asked = Null, !.promoted = {}]
  <2>1. TurnsField(panel)
    BY <1>16 DEF TakesResult
  <2>2. /\ IsPanel(panel) /\ panel.status = field.status /\ panel.open = field.open
        /\ panel.strayed = field.strayed
    BY <1>0 DEF IsPanel
  <2> QED BY <1>2, <2>1, <2>2
<1>17. ASSUME NEW k, promoteField(k) PROVE FitsNext
  <2> DEFINE p == addFinding(Project, FreshId, k)
             panel == [field EXCEPT !.promoted = @ \cup {k}]
             runs == fieldRuns
  <2>1. Rewrites(p) /\ Spends /\ field' = panel /\ UNCHANGED <<chosen, astray>>
    BY <1>17 DEF promoteField, Keeps, Edit
  <2>2. p.fieldRuns = runs
    BY DEF ProjInv, Fits, Record, addFinding, fieldRuns
  <2> HIDE DEF p
  <2>3. stores'.project.fieldRuns = runs /\ maxTUs' = maxTUs /\ desk' = desk
    BY <2>1, <2>2, ProjectRewritten
  <2>4. used.edits \in Int /\ used'.edits = used.edits + 1 /\ Unused' \subseteq Unused
    BY <2>1, <2>3, SpendsOne DEF ProjInv, Spends
  <2>5. /\ IsPanel(panel) /\ panel.status = field.status /\ panel.open = field.open
        /\ panel.strayed = field.strayed
    BY <1>0 DEF IsPanel
  <2>6. RunsFit(runs, used.edits, Unused, astray) /\ PanelFits(field, chosen.fieldRun, runs, maxTUs)
    BY DEF SpanInv
  <2> HIDE DEF panel, runs
  <2>7. PanelFits(panel, chosen.fieldRun, runs, maxTUs)
    BY <2>5, <2>6, PanelGoesOn
  <2>8. Among(runs, runs)
    BY <2>6 DEF RunsFit, Among
  <2>9. RunsFit(runs, used'.edits, Unused', astray)
    BY <2>4, <2>6, <2>8, RunsLater
  <2> QED BY <2>1, <2>3, <2>7, <2>9 DEF FitsNext
<1> QED BY <1>6, <1>7, <1>8, <1>9, <1>10, <1>11, <1>12, <1>13, <1>14, <1>15, <1>16, <1>17,
           StartFits DEF FieldStep

-----------------------------------------------------------------------------
(* Every other step.                                                       *)

\* The panel notices what strays under it.
LEMMA PanelStays ==
  ASSUME SpanInv, ClockInv, ClockInv', FieldFollows
  PROVE  PanelFits(field', chosen'.fieldRun, stores'.project.fieldRuns, maxTUs')
<1> DEFINE runs == fieldRuns
           late == stores'.project.fieldRuns
           run == chosen.fieldRun
           strays == /\ field.status \in {"warmup", "recording"}
                     /\ \/ chosen'.fieldRun # run
                        \/ stores'.project # Project
                        \/ maxTUs' < maxTUs
           stays == Shelf("field") /\ stores'.mode = "logbook" /\ stores'.sub = "field"
<1>1. PanelFits(field, run, runs, maxTUs) /\ IsPanel(field)
  BY DEF SpanInv, PanelFits
<1>2. stores'.project = Project => late = runs
  BY DEF fieldRuns
<1>3. maxTUs \in Nat /\ maxTUs' \in Nat
  BY DEF ClockInv
<1>4. ASSUME ~stays PROVE field' = IdleRun
  BY SMTT(60), <1>4 DEF FieldFollows
<1>5. ASSUME stays
      PROVE  \E span : field' = [field EXCEPT !.strayed = @ \/ strays, !.span = span]
  BY <1>5 DEF FieldFollows
<1> HIDE DEF runs, late, run, stays
<1>6. CASE ~stays
  <2>1. IsPanel(IdleRun) /\ IdleRun.status = "idle" /\ IdleRun.open = Null
    BY DEF IdleRun, IsPanel
  <2> QED BY <1>4, <1>6, <2>1 DEF PanelFits, late
<1>7. CASE stays
  <2>1. PICK span : field' = [field EXCEPT !.strayed = @ \/ strays, !.span = span]
    BY <1>5, <1>7
  <2>2. /\ IsPanel(field') /\ field'.status = field.status /\ field'.open = field.open
        /\ field'.strayed = (field.strayed \/ strays)
    BY <1>1, <2>1 DEF IsPanel
  <2>3. ASSUME field'.status \in {"warmup", "recording"}, ~field'.strayed
        PROVE  /\ field'.open # Null => field'.open.from =< maxTUs'
               /\ \A i \in DOMAIN late : late[i].id = chosen'.fieldRun => Within(late[i], field', maxTUs')
    <3>0. ~field.strayed /\ ~strays /\ field.status \in {"warmup", "recording"}
      <4> HIDE DEF strays
      <4>1. field.strayed \in BOOLEAN
        BY <1>1 DEF IsPanel
      <4> QED BY <2>2, <2>3, <4>1
    <3>1. late = runs /\ chosen'.fieldRun = run /\ maxTUs =< maxTUs' /\ ~field.strayed
      BY <1>2, <1>3, <3>0
    <3>2. field.open # Null => field.open.from =< maxTUs /\ field.open.from \in Nat
      BY <1>1, <2>2, <2>3, <3>1 DEF PanelFits
    <3>3. ASSUME NEW i \in DOMAIN runs, runs[i].id = run PROVE Within(runs[i], field', maxTUs')
      <4>1. Within(runs[i], field, maxTUs)
        BY <1>1, <2>2, <2>3, <3>1, <3>3 DEF PanelFits
      <4>2. RunsFit(runs, used.edits, Unused, astray)
        BY DEF SpanInv, runs
      <4>3. ASSUME NEW s \in runs[i].spans PROVE s.to \in Int
        BY <4>2 DEF RunsFit, RunFits, IsSpan
      <4> QED BY <1>3, <2>2, <3>1, <4>1, <4>3 DEF Within
    <3> QED BY <1>3, <2>2, <3>1, <3>2, <3>3
  <2>4. /\ field'.status # "recording" => field'.open = Null
        /\ field'.open # Null => field'.open.from \in Nat
    BY <1>1, <2>2 DEF PanelFits
  <2> QED BY <2>2, <2>3, <2>4 DEF PanelFits, late
<1> QED BY <1>6, <1>7

\* A step that leaves the runs alone keeps them fit, whatever ids it makes.
LEMMA StayFits ==
  ASSUME SpanInv, ProjInv, StaysSound, RunsStay, astray' = astray
  PROVE  RunsFit(stores'.project.fieldRuns, used'.edits, Unused', astray')
<1> DEFINE runs == fieldRuns
<1>1. RunsFit(runs, used.edits, Unused, astray)
  BY DEF SpanInv
<1>2. stores'.project.fieldRuns = runs
  BY DEF RunsStay
<1> HIDE DEF runs
<1>3. Among(runs, runs)
  BY <1>1 DEF RunsFit, Among
<1>4. used.edits \in Int /\ used'.edits \in Int /\ used.edits =< used'.edits /\ Unused' \subseteq Unused
  BY DEF StaysSound, ProjInv
<1> QED BY <1>1, <1>2, <1>3, <1>4, RunsLater

\* So does one that makes a run, deletes one or puts one elsewhere.
LEMMA EditedFits ==
  ASSUME SpanInv, LinkInv, ProjInv, RunsEdited, astray' = astray
  PROVE  RunsFit(stores'.project.fieldRuns, used'.edits, Unused', astray')
<1> DEFINE runs == fieldRuns
<1>1. RunsFit(runs, used.edits, Unused, astray)
  BY DEF SpanInv
<1>2. \E list : Spends /\ Rewrites(WithFieldRuns(Project, list))
  BY DEF RunsEdited, newFieldRun, deleteFieldRun, reorderFieldRun, Keeps, Edit
<1>3. desk' = desk
  BY <1>2 DEF Rewrites
<1>4. /\ used.edits \in Int /\ used'.edits = used.edits + 1
      /\ FreshId \in Unused /\ Unused' = Unused \ {FreshId}
  BY <1>2, <1>3, SpendsOne DEF ProjInv, Spends
<1>5. ASSUME newFieldRun PROVE RunsFit(stores'.project.fieldRuns, used'.edits, Unused', astray')
  <2> DEFINE r == makeFieldRun(FreshId)
  <2>1. stores'.project.fieldRuns = Append(runs, r)
    BY <1>5, RunsRewritten DEF newFieldRun, Keeps, Edit
  <2>2. r.id = FreshId /\ RunFits(r, used.edits + 1, Unused', astray)
    BY <1>4 DEF makeFieldRun, RunFits, SpansFollow
  <2> HIDE DEF r, runs
  <2> QED BY <1>1, <1>4, <2>1, <2>2, RunAdded
<1>6. ASSUME NEW list, Rewrites(WithFieldRuns(Project, list)), Among(list, runs)
      PROVE  RunsFit(stores'.project.fieldRuns, used'.edits, Unused', astray')
  <2>1. stores'.project.fieldRuns = list
    BY <1>6, RunsRewritten
  <2> HIDE DEF runs
  <2> QED BY <1>1, <1>4, <1>6, <2>1, RunsLater
<1>7. ASSUME NEW id, deleteFieldRun(id)
      PROVE  RunsFit(stores'.project.fieldRuns, used'.edits, Unused', astray')
  <2>1. Rewrites(WithFieldRuns(Project, Without(runs, id)))
    BY <1>7 DEF deleteFieldRun, Keeps, Edit
  <2>2. Among(Without(runs, id), runs)
    <3> HIDE DEF runs
    <3> QED BY <1>1, ListRearranged DEF RunsFit
  <2> QED BY <1>6, <2>1, <2>2
<1>8. ASSUME NEW i, NEW j, reorderFieldRun(i, j)
      PROVE  RunsFit(stores'.project.fieldRuns, used'.edits, Unused', astray')
  <2>1. Rewrites(WithFieldRuns(Project, Reordered(runs, i, j))) /\ i \in DOMAIN runs /\ j \in DOMAIN runs
    BY <1>8 DEF reorderFieldRun, Keeps, Edit
  <2>2. Among(Reordered(runs, i, j), runs)
    <3> HIDE DEF runs
    <3> QED BY <1>1, <2>1, ListRearranged DEF RunsFit
  <2> QED BY <1>6, <2>1, <2>2
<1> QED BY <1>5, <1>7, <1>8 DEF RunsEdited

\* The runs of a file fit: their ids are none to come, and their spans were painted before.
LEMMA FileRunsFit ==
  ASSUME NEW file \in Loads, NEW d \in Desks, NEW made \in Nat, NEW N,
         N \subseteq (1 .. MaxEdits[d]) \cup {Null}, NEW exc
  PROVE  RunsFit(ensureViews(file).fieldRuns, made, N, exc)
<1> DEFINE runs == file.fieldRuns
<1>1. AreRuns(runs) /\ ensureViews(file).fieldRuns = runs
  <2>1. /\ AreRuns(runs)
        /\ file \in [frames : {file.frames}, frameFormulas : {file.frameFormulas},
                     derivedSignals : {file.derivedSignals}, messageNames : {file.messageNames},
                     views : {file.views}, scenarios : {file.scenarios}, findings : {file.findings},
                     fieldRuns : {file.fieldRuns}]
    BY LoadsConstants DEF IsProject
  <2>2. ensureViews(file) = file \/ \E views : ensureViews(file) = [file EXCEPT !.views = views]
    BY DEF ensureViews
  <2> QED BY <2>1, <2>2
<1>2. ASSUME NEW r \in Range(runs)
      PROVE  /\ SpansFollow(r, {}) /\ \A s \in r.spans : s.id < 1
             /\ r.id \notin N
  <2>1. SpansFollow(r, {}) /\ \A s \in r.spans : s.id < 1
    BY LoadsConstants
  <2>2. r.id \in Ids(file)
    BY DEF Ids
  <2>3. Null \notin Ids(file) /\ Ids(file) \cap (1 .. MaxEdits[d]) = {}
    BY LoadsConstants
  <2> QED BY <2>1, <2>2, <2>3
<1> HIDE DEF runs
<1>3. ASSUME NEW i \in DOMAIN runs PROVE runs[i] \in Range(runs)
  BY DEF Range
<1>4. ASSUME NEW i \in DOMAIN runs PROVE RunFits(runs[i], made, N, exc)
  <2> DEFINE r == runs[i]
  <2>1. r \in Range(runs)
    BY <1>3
  <2> HIDE DEF r
  <2>2. /\ r \in [id : {r.id}, done : {r.done}, labels : {r.labels}, spans : {r.spans}]
        /\ \A s \in r.spans : IsSpan(s) /\ s.id =< made
    <3>1. ASSUME NEW s \in r.spans PROVE IsSpan(s) /\ s.id =< made
      <4>1. IsSpan(s) /\ s.id < 1
        BY <1>1, <1>2, <2>1 DEF AreRuns, IsSpan
      <4>2. s.id \in Int
        BY <4>1 DEF IsSpan
      <4> QED BY <4>1, <4>2
    <3> QED BY <1>1, <2>1, <3>1 DEF AreRuns
  <2>3. SpansFollow(r, exc) /\ r.id \notin N
    BY <1>2, <2>1 DEF SpansFollow
  <2> QED BY <2>2, <2>3 DEF RunFits, r
<1>5. ASSUME NEW i \in DOMAIN runs, NEW j \in DOMAIN runs, runs[i].id = runs[j].id
      PROVE  runs[i] = runs[j]
  BY <1>1, <1>3, <1>5 DEF AreRuns
<1>6. IsList(runs)
  BY <1>1 DEF AreRuns, IsList
<1> QED BY <1>1, <1>4, <1>5, <1>6 DEF RunsFit

\* A project without runs.
LEMMA NoRunsFit ==
  ASSUME NEW made, NEW N, NEW exc PROVE RunsFit(emptyProject.fieldRuns, made, N, exc)
<1>1. emptyProject.fieldRuns = <<>>
  BY DEF emptyProject
<1>2. <<>> \in Seq({}) /\ DOMAIN <<>> = {}
  OBVIOUS
<1> HIDE DEF emptyProject
<1> QED BY <1>1, <1>2 DEF RunsFit, IsList

\* A file is loaded into the page, or with it.
LEMMA FileFitsRuns ==
  ASSUME LinkInv, ProjInv, StaysSound, desk' = desk,
         \/ \E file \in Loads : Load(file)
         \/ \E file \in Loads \cup {Null} : Reload(file)
  PROVE  RunsFit(stores'.project.fieldRuns, used'.edits, Unused', astray')
<1> DEFINE Goal == RunsFit(stores'.project.fieldRuns, used'.edits, Unused', astray')
<1>1. /\ desk \in Desks /\ used'.edits \in Nat
      /\ Unused' \subseteq (1 .. MaxEdits[desk]) \cup {Null}
  BY EditsConstants DEF StaysSound, ProjInv, Unused
<1>2. ASSUME NEW file \in Loads, stores'.project = ensureViews(file) PROVE Goal
  BY <1>1, <1>2, FileRunsFit
<1>3. ASSUME stores'.project = emptyProject PROVE Goal
  BY <1>3, NoRunsFit
<1> HIDE DEF Goal
<1>4. ASSUME NEW file \in Loads, Load(file) PROVE Goal
  <2> DEFINE p == ensureViews(file)
             v == Canonical(p)
             st == Loaded(stores, file)
             first == [stores EXCEPT !.project = st.project]
  <2>1. stores' = Last(<<first, st>>)
    BY <1>4 DEF Load, Settles
  <2>2. st = [stores EXCEPT !.project = p, !.activeView = v]
    BY DEF Loaded
  <2> HIDE DEF first, p, v, st
  <2>3. st.project = p
    BY <2>2 DEF LinkInv, Shown
  <2>4. stores' = st
    BY <2>1, Finally
  <2> QED BY <1>2, <2>3, <2>4 DEF p
<1>5. ASSUME NEW file \in Loads \cup {Null}, Reload(file) PROVE Goal
  <2> DEFINE q == ensureViews(file)
             w == Canonical(q)
             loaded == Loaded(FreshStores, file)
             booted == IF file = Null THEN FreshStores ELSE loaded
  <2>1. FreshStores.project = emptyProject
    BY DEF FreshStores
  <2>2. (Shown(loaded) /\ loaded.project = q) \/ file = Null
    <3>1. CASE file # Null
      <4>1. Shown(loaded)
        BY <3>1, ShownFresh, ShownLoaded
      <4>2. loaded = [FreshStores EXCEPT !.project = q, !.activeView = w]
        BY DEF Loaded
      <4> HIDE DEF q, w, loaded
      <4> QED BY <4>1, <4>2, ShownFresh DEF Shown
    <3> QED BY <3>1
  <2>3. stores' = applyHash(booted, hash)
    BY <1>5 DEF Reload, Starts
  <2>4. Shown(booted)
    BY <2>2, ShownFresh
  <2> HIDE DEF booted
  <2>5. stores'.project = booted.project
    BY <2>3, <2>4, LinkSpares
  <2>6. CASE file = Null
    BY <1>3, <2>1, <2>5, <2>6 DEF booted
  <2>7. CASE file # Null
    BY <1>2, <2>2, <2>5, <2>7 DEF booted
  <2> QED BY <2>6, <2>7
<1> QED BY <1>4, <1>5 DEF Goal

\* A page that opens has no runs.
LEMMA SpanFirst == Init => SpanInv
<1> SUFFICES ASSUME Init PROVE SpanInv
  OBVIOUS
<1>1. /\ stores = FreshStores /\ field = IdleRun
  BY DEF Init, CockpitInit
<1>2. fieldRuns = emptyProject.fieldRuns
  BY <1>1 DEF fieldRuns, Project, FreshStores
<1>3. RunsFit(fieldRuns, used.edits, Unused, astray)
  BY <1>2, NoRunsFit
<1>4. PanelFits(field, chosen.fieldRun, fieldRuns, maxTUs)
  <2>1. IsPanel(IdleRun) /\ IdleRun.status = "idle" /\ IdleRun.open = Null
    BY DEF IdleRun, IsPanel
  <2> QED BY <1>1, <2>1 DEF PanelFits
<1> QED BY <1>3, <1>4 DEF SpanInv

\* Whatever happens on the page, the runs and the panel stay fit.
LEMMA SpanNext ==
  /\ LinkInv /\ ClockInv /\ ProjInv /\ StepInv /\ SpanInv
  /\ ClockInv' /\ StaysSound /\ [Next]_vars
  => SpanInv'
<1> SUFFICES ASSUME LinkInv, ClockInv, ProjInv, StepInv, SpanInv, ClockInv', StaysSound, [Next]_vars
             PROVE  SpanInv'
  OBVIOUS
<1>0. ProjInv'
  BY DEF StaysSound
<1> DEFINE StillFit == RunsFit(stores'.project.fieldRuns, used'.edits, Unused', astray')
<1>1. ASSUME RunsStay, astray' = astray PROVE StillFit
  BY <1>1, StayFits
<1>2. ASSUME StillFit, FieldFollows PROVE SpanInv'
  BY <1>2, PanelStays, NextFits DEF FitsNext
<1> HIDE DEF StillFit
<1>3. ASSUME ConnectionStep, astray' = astray PROVE StillFit
  <2>1. CASE connect \/ emitSnapshot \/ ShowsSnapshot \/ Ticks \/ TakesReply \/ Ingests(Keys)
    <3>1. RunsStay
      BY <2>1 DEF connect, emitSnapshot, ShowsSnapshot, Ticks, TakesReply, Ingests, pageVars, RunsStay,
                  fieldRuns, Project
    <3> QED BY <1>1, <1>3, <3>1
  <2>2. CASE \/ \E file \in Loads : Load(file)
             \/ \E file \in Loads \cup {Null} : Reload(file)
    <3>1. desk' = desk
      BY <2>2 DEF Load, Reload
    <3> QED BY <2>2, <3>1, FileFitsRuns DEF StillFit
  <2> QED BY <1>3, <2>1, <2>2 DEF ConnectionStep
<1>4. ASSUME MovingStep, astray' = astray PROVE StillFit
  BY <1>0, <1>1, <1>4, MovingFollowed
<1>5. ASSUME FrameStep, astray' = astray PROVE StillFit
  BY <1>0, <1>1, <1>5, FrameFollowed, TypedInStep
<1>6. ASSUME TabStep, astray' = astray PROVE StillFit
  BY <1>0, <1>1, <1>6, TabFollowed
<1>7. ASSUME ScenarioStep \/ ShelfStep, astray' = astray PROVE StillFit
  BY <1>0, <1>1, <1>7, LibraryFollowed, EditedFits DEF StillFit
<1>8. CASE FieldStep
  BY <1>8, FieldFits, NextFits DEF ClockInv
<1>9. ASSUME RunsStay, UNCHANGED <<chosen, field, astray>>, maxTUs' = maxTUs PROVE SpanInv'
  <2>1. StillFit
    BY <1>1, <1>9
  <2>2. PanelFits(field, chosen.fieldRun, fieldRuns, maxTUs)
    BY DEF SpanInv
  <2> QED BY <1>9, <2>1, <2>2, NextFits DEF FitsNext, StillFit, RunsStay
<1>10. CASE HuntStep /\ UNCHANGED <<chosen, field, astray>>
  <2>1. RunsStay /\ maxTUs' = maxTUs
    BY <1>10, HuntIdle, HuntLinks DEF LinkStep, Quiet, parserVars
  <2> QED BY <1>9, <1>10, <2>1
<1>11. CASE PromotingStep /\ UNCHANGED <<chosen, astray>> /\ FieldFollows
  BY <1>0, <1>1, <1>2, <1>11, PromotingFollowed
<1>12. CASE UNCHANGED vars
  <2>1. RunsStay /\ UNCHANGED <<chosen, field, astray>> /\ maxTUs' = maxTUs
    BY <1>12 DEF vars, cockpitVars, pageVars, parserVars, RunsStay, fieldRuns, Project
  <2> QED BY <1>9, <2>1
<1> QED BY <1>2, <1>3, <1>4, <1>5, <1>6, <1>7, <1>8, <1>10, <1>11, <1>12 DEF Next

\* However spans are painted, linked and deleted, labels made and deleted, runs reordered and files
\* loaded, in any order: the spans of a run have its labels and follow one another in time, but for
\* recordings during which another run, project or session was taken up.
THEOREM SpansStayFit == Spec => []SpansFitLabels
<1>1. Init => LinkInv /\ ClockInv /\ ProjInv /\ StepInv /\ SpanInv
  BY LinkFirst, ClockFirst, ProjFirst, StepFirst, SpanFirst
<1>2. LinkInv /\ ClockInv /\ ProjInv /\ StepInv /\ SpanInv /\ [Next]_vars
      => LinkInv' /\ ClockInv' /\ ProjInv' /\ StepInv' /\ SpanInv'
  BY LinkNext, ClockNext, ProjNext, StepNext, SpanNext DEF StaysSound
<1>3. SpanInv => SpansFitLabels
  BY SpansHold
<1> QED BY <1>1, <1>2, <1>3, PTL DEF Spec
=============================================================================
