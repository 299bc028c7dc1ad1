------------------------------ MODULE Cockpit ------------------------------
(***************************************************************************)
(* The cockpit's page: the stores of state/store.ts, what the panels of    *)
(* Explore and Cluster do to them, the link in the address bar             *)
(* (state/urlState.ts), and the two workers the stores keep informed.      *)
(*                                                                         *)
(* The page is one thread: a handler is one step, with every subscription  *)
(* it sets off. A message to a worker is handled when it is posted, for    *)
(* the page learns of a worker only by its replies, and these wait. What   *)
(* the analysis worker computes is MessageModel's and Hunt's subject, what *)
(* connect() does to the socket CockpitLink's; here a reply only says what *)
(* it is about.                                                            *)
(***************************************************************************)
EXTENDS Project

CONSTANTS
  Windows,     \* what the operator may choose for messageWindowSeconds
  Loads,       \* projects in files, as they are before ensureViews
  Pasted,      \* links the operator may paste
  Desks,       \* bound: a behaviour keeps to one part of the cockpit
  MaxEdits,    \* bound: per desk, edits of the project
  MaxBatches,  \* bound: per desk, batches of frames in a session
  MaxSessions, \* bound: per desk, connects and reloads
  MaxBehind,   \* bound: per desk, replies under way when the operator acts, and one
  Visited      \* bound: per desk, the modes the operator goes to

VARIABLES
  stores,     \* what the page shows
  selection,  \* the frames selected together
  table,      \* FrameTable: [anchor, frozen]
  editor,     \* per editor, [for, text]: see Editors
  hash,       \* the link in the address bar
  bridge,     \* the analysis worker and the page's end of it
  messages,   \* the rows of messages shown
  parser,     \* the parser worker
  frameRows, maxTUs, \* what its last snapshot said
  excused,    \* history: parts known to be out of step, see InStep
  pasted,     \* history: the link is as it was pasted
  desk, used  \* bound: the desk, and how much of MaxEdits and MaxSessions is used

pageVars == <<stores, selection, table, editor, hash, bridge, messages, excused, pasted>>
parserVars == <<parser, frameRows, maxTUs>>
cockpitVars == <<pageVars, parserVars, desk, used>>

Modes == {"explore", "hunt", "logbook", "cluster"}
Subs == {"storyboard", "field", "findings"}

\* A link names a sub-tab there is, or none.
ASSUME CockpitConstants ==
    /\ Null \notin Subs \cup Nat
    /\ \A link \in Pasted : link.sub \in Subs \cup {Null}

ASSUME EditsConstants == \A d \in Desks : MaxEdits[d] \in Nat

\* A file was written by a cockpit, one that knew of the canonical tab or not; its ids are none
\* that this session makes (newId).
ASSUME LoadsConstants ==
    \A file \in Loads :
      /\ IsProject(file) /\ OneMultiplexor(file)
      /\ OneCanonical(file) \/ Locked(file) = {}
      /\ \A r \in Range(file.fieldRuns) : SpansFollow(r, {}) /\ \A s \in r.spans : s.id < 1
      /\ Null \notin Ids(file)
      /\ \A d \in Desks : Ids(file) \cap (1 .. MaxEdits[d]) = {}

-----------------------------------------------------------------------------
(* Stores that are set. Selecting another frame forgets the message, and selecting a frame
   or another message forgets the signal. *)

SetSelected(st, k) ==
    [st EXCEPT !.selected = k, !.mux = IF k = st.selected THEN @ ELSE Null, !.signal = Null]

SetMux(st, mux) == [st EXCEPT !.mux = mux, !.signal = IF mux = st.mux THEN @ ELSE Null]

\* loadProject goes to the canonical tab.
Loaded(st, file) ==
    LET p == ensureViews(file)
    IN  [st EXCEPT !.project = p, !.activeView = Canonical(p)]

-----------------------------------------------------------------------------
(* The analysis worker. *)

Selecting(st) == [sel |-> st.selected,
                  def |-> IF st.selected = Null THEN Null ELSE frameDefFor(st.project, st.selected),
                  window |-> st.window]

Nothing == [sel |-> Null, def |-> Null, window |-> Null]

Rows(of) == <<[kind |-> "rows", of |-> of]>>
Series(watch) == IF watch = {} THEN <<>> ELSE <<[kind |-> "series", of |-> watch]>>

\* postSelect: unless the worker was told the same last time.
PostSelect(b, st) ==
    IF ~b.started \/ Selecting(st) = b.lastSelect THEN b
    ELSE [b EXCEPT !.lastSelect = Selecting(st), !.sel = Selecting(st),
                   !.replies = @ \o Rows(Selecting(st))]

\* postClusterWatch, on a change of the project or the mode. While the panel shows the
\* tiles, they have not followed yet when the project's subscribers are told of a change.
PostWatch(b, before, st) ==
    LET seen == IF before.mode = "cluster" THEN before.project ELSE st.project
        watch == IF st.mode = "cluster" THEN clusterCards(seen) ELSE {}
    IN  IF \/ ~b.started \/ watch = b.lastWatch
           \/ before.project = st.project /\ before.mode = st.mode THEN b
        ELSE [b EXCEPT !.lastWatch = watch, !.watch = watch, !.replies = @ \o Series(watch)]

\* The subscriptions of the stores, for each of the values a handler gives them in turn.
Posted(b, st0, values) ==
    LET told[i \in 0 .. Len(values)] ==
          IF i = 0 THEN b
          ELSE PostWatch(PostSelect(told[i - 1], values[i]), IF i = 1 THEN st0 ELSE values[i - 1], values[i])
    IN  told[Len(values)]

\* Mutant: what the old session was told last counts in the new one.
Remembered(b) == b.lastSelect

Forgotten(b) == Nothing

\* connect(): both workers are reset, and the selection is posted again. (A worker that was
\* never told of a selection has the page's default window.)
Reset(b, st) ==
    PostSelect([b EXCEPT !.started = TRUE, !.lastSelect = Forgotten(b), !.sel = Nothing,
                         !.replies = @ \o Rows(Nothing) \o Series(b.watch)], st)

-----------------------------------------------------------------------------
(* The link. *)

buildHash(st) ==
    LET shows == st.mode = "explore" /\ st.selected # Null
    IN  [mode |-> st.mode, sub |-> IF st.mode = "logbook" THEN st.sub ELSE Null,
         frame |-> IF shows THEN st.selected ELSE Null,
         mux |-> IF shows THEN st.mux ELSE Null,
         signal |-> IF shows THEN st.signal ELSE Null]

Part(st, value, set(_, _)) == IF value = Null THEN st ELSE set(st, value)
SetSignal(st, id) == [st EXCEPT !.signal = id]
SetSub(st, sub) == [st EXCEPT !.sub = sub]

\* Mutant: the signal is restored before the message.
SignalThenMux(st, link) == Part(Part(SetSelected(st, link.frame), link.signal, SetSignal), link.mux, SetMux)

FrameParts(st, link) == Part(Part(SetSelected(st, link.frame), link.mux, SetMux), link.signal, SetSignal)

\* applyHash. A link without a frame leaves the selection alone.
applyHash(st, link) ==
    LET moved == [st EXCEPT !.mode = link.mode]
    IN  IF link.mode = "logbook" THEN Part(moved, link.sub, SetSub)
        ELSE IF link.mode = "explore" /\ link.frame # Null THEN FrameParts(moved, link)
        ELSE moved

-----------------------------------------------------------------------------
(* A handler. *)

Closed == [for |-> Null, text |-> Null]
Unsorted == [anchor |-> Null, frozen |-> Null]

\* Two ComputeEditors, of the frame and of the tab, and the FilterBar keep what they show in
\* variables of their own: what each is about, and what is kept for it in the project.
Editors == {"custom", "tab", "filter"}

Target(st, which) == IF which = "custom" THEN st.selected ELSE st.activeView

Kept(st, which) ==
    IF which = "tab" THEN st.project.views[st.activeView].formula
    ELSE IF which = "filter" THEN st.project.views[st.activeView].filter.hides
    ELSE IF st.selected = Null THEN Null ELSE st.project.frameFormulas[st.selected]

Hydrated(ed, st, which) ==
    IF st.mode # "explore" THEN Closed
    ELSE IF Target(st, which) = ed.for THEN ed
    ELSE [for |-> Target(st, which), text |-> Kept(st, which)]

\* The stores take the values one after the other; panels of a mode that is left are
\* destroyed, and the editors read what is kept for a target that is new to them.
Settles(values) ==
    LET st == Last(values)
    IN  /\ Len(bridge.replies) < MaxBehind[desk]
        /\ stores' = st
        /\ bridge' = Posted(bridge, stores, values)
        /\ editor' = [w \in Editors |-> Hydrated(editor[w], st, w)]

Fresh(st) ==
    {w \in Editors : st.mode # "explore" \/ Target(st, w) # editor[w].for}
    \cup (IF st.mode = stores.mode THEN {} ELSE {"watch"})

Handler(values) == Settles(values) /\ excused' = excused \ Fresh(Last(values))

\* A handler that moves about, and so rewrites the link.
Moves(values) ==
    /\ Handler(values)
    /\ hash' = buildHash(Last(values)) /\ pasted' = FALSE
    /\ UNCHANGED <<messages, parserVars, desk>>

Shows(values) == Moves(values) /\ UNCHANGED used

\* A handler that edits the project or a setting, to the bound.
Spends == /\ used.edits < MaxEdits[desk]
          /\ used' = [used EXCEPT !.edits = @ + 1]

Rewrites(p) ==
    /\ Handler(<<[stores EXCEPT !.project = p]>>)
    /\ UNCHANGED <<messages, parserVars, desk, hash, pasted>>

Edit(p) == Spends /\ Rewrites(p)

EditMoving(p, values) == Spends /\ Moves(<<[stores EXCEPT !.project = p]>> \o values)

At(places) == desk \in places
Panel(mode) == stores.mode = mode
Project == stores.project
Sel == stores.selected
FreshId == used.edits + 1

TableStays == UNCHANGED <<table, selection>>

\* A change of mode destroys the FrameTable of the mode that is left.
TableAfter(mode) == table' = IF mode = stores.mode THEN table ELSE Unsorted

-----------------------------------------------------------------------------
(* Moving about. *)

SetMode(mode) ==
    /\ mode \in Visited[desk]
    /\ Shows(<<[stores EXCEPT !.mode = mode]>>)
    /\ TableAfter(mode) /\ UNCHANGED selection

PickSub(sub) ==
    /\ Panel("logbook") /\ At({"links", "painting", "review", "library"})
    /\ Shows(<<[stores EXCEPT !.sub = sub]>>)
    /\ TableStays

\* The frames of the table, in the order shown.
TableRows == IF table.frozen # Null THEN table.frozen
             ELSE filteredRows(Project, stores.activeView, frameRows)

setPrimary(st, k) == SetMux(SetSelected(st, k), Null)

\* A click on a row: alone, with Ctrl, or with Shift from the row clicked before. A range
\* that reaches beyond the rows there are now raises, and nothing is done.
onRowClick(i, how) ==
    LET k == TableRows[i]
        ranges == how = "shift" /\ table.anchor # Null
        lo == IF table.anchor < i THEN table.anchor ELSE i
        hi == IF table.anchor < i THEN i ELSE table.anchor
    IN  /\ Panel("explore") /\ At(IF how = "plain" THEN {"tabs", "signals", "links"} ELSE {"tabs"})
        /\ i \in DOMAIN TableRows
        /\ ranges => hi <= Len(TableRows)
        /\ selection' = IF ranges THEN Range(SubSeq(TableRows, lo, hi))
                        ELSE IF how = "ctrl" THEN SymDiff(selection, {k})
                        ELSE {k}
        /\ table' = IF ranges THEN table ELSE [table EXCEPT !.anchor = i]
        /\ Shows(<<SetSelected(stores, k), setPrimary(stores, k)>>)

selectAll ==
    /\ Panel("explore") /\ At({"tabs"}) /\ TableRows # <<>>
    /\ selection' = Range(TableRows)
    /\ table' = [table EXCEPT !.anchor = 1]
    /\ Shows(<<SetSelected(stores, TableRows[1]), setPrimary(stores, TableRows[1])>>)

\* A sort freezes the rows as they are; by id, either way, stands for any column.
snapshotSort ==
    LET rows == filteredRows(Project, stores.activeView, frameRows)
    IN  /\ Panel("explore") /\ At({"tabs"})
        /\ table' = [table EXCEPT !.frozen = IF @ = rows THEN Reverse(rows) ELSE rows]
        /\ UNCHANGED <<stores, selection, editor, hash, bridge, messages, excused, pasted,
                       parserVars, desk, used>>

clearSort ==
    /\ Panel("explore") /\ table.frozen # Null
    /\ table' = [table EXCEPT !.frozen = Null]
    /\ UNCHANGED <<stores, selection, editor, hash, bridge, messages, excused, pasted,
                   parserVars, desk, used>>

\* Inspector: one of the frames selected together.
selectOne(k) ==
    /\ Panel("explore") /\ At({"tabs"}) /\ k \in selection
    /\ selection' = {k}
    /\ UNCHANGED table
    /\ Shows(<<SetSelected(stores, k)>>)

\* MessageList: a row, and the crumb of the whole frame.
selectMessage(mux) ==
    /\ Panel("explore") /\ Sel # Null /\ At({"signals", "links"})
    /\ Shows(<<SetMux(stores, mux)>>)
    /\ TableStays

\* SignalList: of the message selected, or of the one in the payload.
selectSignal(live) ==
    /\ Panel("explore") /\ Sel # Null /\ At({"signals", "links"})
    /\ \E s \in messageSignals(Project, Sel, IF stores.mux # Null THEN stores.mux ELSE live) :
         Shows(<<SetSignal(stores, s.id)>>)
    /\ TableStays

\* ClusterPanel: a tile.
inspect(card) ==
    /\ Panel("cluster") /\ card \in clusterCards(Project)
    /\ LET st == SetSelected(stores, card.frame)
       IN  Shows(<<st, [st EXCEPT !.mode = "explore"]>>)
    /\ TableAfter("explore") /\ UNCHANGED selection

setWindow(seconds) ==
    /\ Panel("explore") /\ Sel # Null /\ At({"signals"})
    /\ Spends
    /\ Handler(<<[stores EXCEPT !.window = seconds]>>)
    /\ TableStays
    /\ UNCHANGED <<messages, parserVars, desk, hash, pasted>>

\* Another link is pasted: it is applied, and stays in the address bar.
onHashChange(link) ==
    /\ At({"links"})
    /\ Handler(<<[stores EXCEPT !.mode = link.mode], applyHash(stores, link)>>)
    /\ TableAfter(link.mode) /\ UNCHANGED selection
    /\ hash' = link /\ pasted' = TRUE
    /\ UNCHANGED <<messages, parserVars, desk, used>>

-----------------------------------------------------------------------------
(* The session. *)

NoRows == [rows |-> Nothing, series |-> {}]

\* Connect: both workers are reset, and what the page shows of them is cleared. A snapshot
\* under way still arrives.
connect ==
    /\ Len(bridge.replies) < MaxBehind[desk] /\ used.sessions < MaxSessions[desk]
    /\ used' = [used EXCEPT !.sessions = @ + 1]
    /\ bridge' = Reset(bridge, stores)
    /\ parser' = [parser EXCEPT !.seen = {}, !.maxTUs = 0, !.batches = 0]
    /\ frameRows' = {} /\ messages' = [messages EXCEPT !.rows = Nothing]
    /\ excused' = IF ~bridge.started /\ Panel("cluster") THEN excused \cup {"watch"} ELSE excused
    /\ UNCHANGED <<stores, selection, table, editor, hash, pasted, maxTUs, desk>>

\* The parser worker: a batch carries some frames, each later than those before.
Ingests(keys) ==
    /\ bridge.started /\ parser.batches < MaxBatches[desk]
    /\ parser' = [parser EXCEPT !.seen = @ \cup keys, !.maxTUs = @ + 1, !.batches = @ + 1]
    /\ UNCHANGED <<pageVars, frameRows, maxTUs, desk, used>>

\* The worker's snapshot, sent every so often; one that says what the page shows is left out.
emitSnapshot ==
    /\ bridge.started /\ parser.snapshot = Null
    /\ <<parser.seen, parser.maxTUs>> # <<frameRows, maxTUs>>
    /\ parser' = [parser EXCEPT !.snapshot = [rows |-> parser.seen, maxTUs |-> parser.maxTUs]]
    /\ UNCHANGED <<pageVars, frameRows, maxTUs, desk, used>>

ShowsSnapshot ==
    /\ parser.snapshot # Null
    /\ frameRows' = parser.snapshot.rows /\ maxTUs' = parser.snapshot.maxTUs
    /\ parser' = [parser EXCEPT !.snapshot = Null]
    /\ UNCHANGED <<pageVars, desk, used>>

\* The analysis worker's tick.
Ticks ==
    /\ bridge.started /\ bridge.replies = <<>> /\ At({"links"})
    /\ bridge' = [bridge EXCEPT !.replies = (IF bridge.sel.sel = Null THEN <<>> ELSE Rows(bridge.sel))
                                           \o Series(bridge.watch)]
    /\ UNCHANGED <<stores, selection, table, editor, hash, messages, excused, pasted, parserVars, desk, used>>

\* The page takes a reply.
TakesReply ==
    /\ bridge.replies # <<>>
    /\ LET reply == Head(bridge.replies)
       IN  messages' = IF reply.kind = "rows" THEN [messages EXCEPT !.rows = reply.of]
                       ELSE [messages EXCEPT !.series = reply.of]
    /\ bridge' = [bridge EXCEPT !.replies = Tail(@)]
    /\ UNCHANGED <<stores, selection, table, editor, hash, excused, pasted, parserVars, desk, used>>

-----------------------------------------------------------------------------
(* The page is loaded, and loaded again. *)

FreshStores == [project |-> emptyProject, activeView |-> AllView, selected |-> Null, mux |-> Null,
                signal |-> Null, mode |-> "explore", sub |-> "storyboard",
                window |-> CHOOSE w \in Windows : TRUE]

IdleBridge == [started |-> FALSE, lastSelect |-> Nothing, lastWatch |-> {}, sel |-> Nothing,
               watch |-> {}, replies |-> <<>>]
IdleParser == [seen |-> {}, maxTUs |-> 0, batches |-> 0, snapshot |-> Null]

\* Everything but the link starts afresh; the link is applied, and written again. A link of
\* the documentation names a project that is loaded first.
Starts(link, file) ==
    LET booted == IF file = Null THEN FreshStores ELSE Loaded(FreshStores, file)
    IN  applyHash(booted, link)

Reload(file) ==
    /\ At({"links"}) /\ used.sessions < MaxSessions[desk]
    /\ used' = [used EXCEPT !.sessions = @ + 1]
    /\ stores' = Starts(hash, file)
    /\ editor' = [w \in Editors |-> Hydrated(Closed, stores', w)]
    /\ selection' = {} /\ table' = Unsorted
    /\ bridge' = IdleBridge /\ messages' = NoRows /\ excused' = {}
    /\ parser' = IdleParser /\ frameRows' = {} /\ maxTUs' = 0
    /\ hash' = buildHash(stores') /\ pasted' = FALSE
    /\ UNCHANGED desk

CockpitInit ==
    /\ stores = FreshStores
    /\ editor = [w \in Editors |-> Hydrated(Closed, FreshStores, w)]
    /\ selection = {} /\ table = Unsorted
    /\ bridge = IdleBridge /\ messages = NoRows /\ excused = {}
    /\ parser = IdleParser /\ frameRows = {} /\ maxTUs = 0
    /\ hash = buildHash(FreshStores) /\ pasted = FALSE
    /\ desk \in Desks /\ used = [edits |-> 0, sessions |-> 0]
=============================================================================
