---------------------------- MODULE MessageModel ----------------------------
(***************************************************************************)
(* The analysis worker's message list: worker/analysis.worker.ts owns a    *)
(* frame ring and the incremental model of protocol/messageModel.ts, which *)
(* keeps one group of frames per message of the selected frame and folds   *)
(* in only what since() reports.  The worker is one thread: handling a     *)
(* posted message, or the 100 ms tick, is one step.                        *)
(*                                                                         *)
(* A message-ID field is a function from payloads to group keys; which     *)
(* field the detector finds and whether its five-second backstop is due    *)
(* are free.  Rates, formatting and the inspector are left out.            *)
(***************************************************************************)
EXTENDS FrameRing, FiniteSets, SequencesExt

CONSTANTS
  Keys,        \* discriminator values
  Fields,      \* message-ID fields: functions from payloads to Keys
  Whole,       \* "no field": every payload is the one message
  Forced,      \* what a definition may fix: a multiplexor's field, or Whole
  Open,        \* a frame definition that leaves the choice to the detector
  MaxMessages, \* MAX_MESSAGES: groups kept before giving up on a split
  NoDef,       \* no frame definition: the detector chooses too
  Null,        \* no selection, no field
  Rewinds      \* the capture loops unpaced, so stamps may step back

\* A frame carries the id it belongs to, a payload and its stamp.
ASSUME ModelConstants ==
  /\ \A f \in Frames : f.id # Null /\ f.t \in Nat
  /\ Whole \in Fields /\ Forced \subseteq Fields
  /\ \A fd \in Fields : \A f \in Frames : fd[f.data] \in Keys
  /\ \A f, g \in Frames : Whole[f.data] = Whole[g.data]
  /\ MaxMessages \in Nat \ {0} /\ Rewinds \in BOOLEAN

VARIABLES
  sel, def,    \* worker: the selected id and its frame definition
  curSel, curDef, lastGen, \* model: what the last sync saw
  eff,         \* model: the field detected
  curField,    \* model: the field the groups are split by
  mode,        \* "incremental" or "passthrough"
  cursor,      \* model: where since() resumes
  groups,      \* model: per key, how many frames and the latest
  idCount, detectCount, \* model: frames folded, and at the last detection
  rows,        \* the rows last posted
  log,         \* history: frames pushed since the last clear
  synced       \* history: how many of them the rows posted reflect

modelVars == <<curSel, curDef, lastGen, eff, curField, mode, cursor, groups,
               idCount, detectCount>>
vars == <<ringVars, sel, def, modelVars, rows, log, synced>>

Ids == {f.id : f \in Frames}

Defs == {NoDef, Open} \cup Forced

-----------------------------------------------------------------------------
(* Grouping *)

NoGroup == [n |-> 0, last |-> NoFrame]
NoGroups == [k \in Keys |-> NoGroup]

Active(gs) == {k \in Keys : gs[k].n > 0}

Tally(gs, field, f) ==
  [gs EXCEPT ![field[f.data]] = [n |-> @.n + 1, last |-> f]]

\* Fold one frame in; a split that turns out too wide takes no more (addFrame).
Added(acc, field, f, limited) ==
  IF acc.wide THEN acc
  ELSE LET gs == Tally(acc.groups, field, f)
       IN  [groups |-> gs, n |-> acc.n + 1,
            wide |-> limited /\ Cardinality(Active(gs)) > MaxMessages]

\* The frames at the positions at, one after the other.
Fold(start, field, frames, at, limited) ==
  LET after[n \in 0 .. Len(frames)] ==
        IF n = 0 THEN start
        ELSE IF n \in at THEN Added(after[n - 1], field, frames[n], limited)
        ELSE after[n - 1]
  IN  after[Len(frames)]

Empty == [groups |-> NoGroups, n |-> 0, wide |-> FALSE]

\* Where in frames those of an id are.
OfId(frames, id) == {i \in DOMAIN frames : frames[i].id = id}

\* histOf: lastSeconds() looks back from the newest frame, so a frame stamped
\* after it is not in the window.
Hist(id) == {i \in OfId(Contents, id) : Contents[i].t <= Contents[count].t}

\* The history of an id, grouped from scratch, however wide (computeMessages).
GroupAll(field, id) == Fold(Empty, field, Contents, Hist(id), FALSE).groups

-----------------------------------------------------------------------------
(* The decisions of one sync, for selection s. *)

GenerationChanged == gen # lastGen

\* Enough new evidence: idCount >= detectCount * DETECT_GROWTH + 1.
Grown == 4 * idCount >= 5 * detectCount + 4

\* What the detector may answer under frame definition d.
Detections(d) == IF d \in Forced THEN {d} ELSE Fields

Folds == mode = "incremental"

\* Mutant: a lapped cursor is taken for an empty delta.
RebuildsUnlapped(selChanged, field) == selChanged \/ field # curField

Rebuilds(selChanged, field) ==
  \/ selChanged \/ field # curField
  \/ Folds /\ Lapped(cursor)

CursorAfter(rebuilt) == IF rebuilt \/ Folds THEN totalPushed ELSE cursor

\* Rebuilt from the ring, extended by the delta, or (passthrough) left alone.
Folded(s, rebuilt, field) ==
  IF rebuilt THEN Fold(Empty, field, Contents, Hist(s), TRUE)
  ELSE IF Folds THEN Fold([groups |-> groups, n |-> idCount, wide |-> FALSE],
                          field, Since(cursor), OfId(Since(cursor), s), TRUE)
  ELSE [groups |-> NoGroups, n |-> idCount, wide |-> TRUE]

Kept(folded) == IF folded.wide THEN NoGroups ELSE folded.groups

\* The rows sync() returns: its groups, or (passthrough) a regrouping.
Emitted(s, folded, field) ==
  IF folded.wide THEN GroupAll(field, s) ELSE folded.groups

\* model.sync(ring, s, d, ...) and the post of its rows.  defNew: d is another
\* object than last time; due: the backstop has expired; det: what the detector
\* finds if it is asked.
Sync(s, d, defNew, due, det) ==
  LET selChanged == s # curSel \/ defNew \/ GenerationChanged
      detects    == eff = Null \/ selChanged \/ Grown \/ due
      field      == IF detects THEN det ELSE eff
      rebuilt    == Rebuilds(selChanged, field)
      folded     == Folded(s, rebuilt, field)
  IN  /\ curSel' = s /\ curDef' = d /\ lastGen' = gen
      /\ eff' = field
      /\ curField' = field
      /\ mode' = IF folded.wide THEN "passthrough" ELSE "incremental"
      /\ cursor' = CursorAfter(rebuilt)
      /\ groups' = Kept(folded)
      /\ idCount' = folded.n
      /\ detectCount' = IF detects THEN folded.n ELSE detectCount
      /\ rows' = Emitted(s, folded, field)
      /\ synced' = Len(log)

-----------------------------------------------------------------------------
(* The worker's message handlers and its tick. *)

\* 'ingest': one frame of a batch (a batch of several is several in a row).
Ingest(f) ==
  /\ totalPushed < MaxPushed
  /\ ~Rewinds /\ count > 0 => f.t >= Contents[count].t
  /\ Push(f)
  /\ log' = Append(log, f)
  /\ UNCHANGED <<sel, def, modelVars, rows, synced>>

\* 'select': recompute at once.  A definition is cloned into the worker, so it
\* is a new object at every select; only "none" equals "none".
Select(s, d, det) ==
  /\ sel' = s /\ def' = d
  /\ IF s = Null
       THEN /\ rows' = NoGroups /\ synced' = Len(log)
            /\ UNCHANGED modelVars
       ELSE Sync(s, d, d # NoDef \/ curDef # NoDef, FALSE, det)
  /\ UNCHANGED <<ringVars, log>>

\* 'reset': a new connection.  The model itself is not told.
Reset ==
  /\ gen < MaxGen
  /\ Clear
  /\ sel' = Null /\ def' = NoDef
  /\ rows' = NoGroups
  /\ log' = <<>> /\ synced' = 0
  /\ UNCHANGED modelVars

Tick(due, det) ==
  /\ sel # Null
  /\ Sync(sel, def, FALSE, due, det)
  /\ UNCHANGED <<ringVars, sel, def, log>>

-----------------------------------------------------------------------------
MInit ==
  /\ InitRing
  /\ sel = Null /\ def = NoDef
  /\ curSel = Null /\ curDef = NoDef /\ lastGen = -1
  /\ eff = Null /\ curField = Null /\ mode = "incremental" /\ cursor = 0
  /\ groups = NoGroups /\ idCount = 0 /\ detectCount = 0
  /\ rows = NoGroups /\ log = <<>> /\ synced = 0

MNext ==
  \/ \E f \in Frames : Ingest(f)
  \/ \E s \in Ids, d \in Defs : \E det \in Detections(d) : Select(s, d, det)
  \/ Select(Null, NoDef, Whole)
  \/ Reset
  \/ \E due \in BOOLEAN : \E det \in Detections(def) : Tick(due, det)

MSpec == MInit /\ [][MNext]_vars

-----------------------------------------------------------------------------
(* Properties *)

\* The oldest frame the ring still held after n pushes.
Retained(n) == IF n > Cap THEN n - Cap ELSE 0

\* The frames of an id at positions from + 1 .. to, counted by what field makes of them.
Counted(frames, field, id, from, to) ==
  [k \in Keys |->
     LET mine == {i \in from + 1 .. to : frames[i].id = id /\ field[frames[i].data] = k}
     IN  [n |-> Cardinality(mine), last |-> IF mine = {} THEN NoFrame ELSE frames[Max(mine)]]]

\* The rows count every frame of the selected id once, from some point of this
\* session that lies no later than the oldest frame the ring holds, up to the
\* newest frame at the last post, and each shows its latest frame: whatever the
\* order of ingests, selections, laps and resets, no frame is folded twice or
\* missed, and none from before the reset survives.
RowsAreExact ==
  sel # Null =>
    \E from \in 0 .. Retained(synced) : rows = Counted(log, curField, sel, from, synced)
=============================================================================
