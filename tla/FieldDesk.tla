----------------------------- MODULE FieldDesk -----------------------------
(***************************************************************************)
(* A field run (components/MarkhuntPanel.svelte): the operator prepares    *)
(* labels, paints spans with them while a run is recorded, says afterwards *)
(* what each span meant, and has the run analysed. The labels, the spans   *)
(* and the library stay in reach of every button while a run is recorded.  *)
(***************************************************************************)
EXTENDS Library

CONSTANT SpanTypes

VARIABLES
  field, \* what the panel keeps while it is shown
  astray \* history: spans painted in a recording that strayed

\* asked: the run whose analysis is awaited. of: the run the result shown is about. strayed:
\* history, the run open or the project changed while a run was recorded.
IdleRun == [status |-> "idle", from |-> 0, to |-> 0, open |-> Null, span |-> Null, link |-> FALSE,
            asked |-> Null, of |-> Null, promoted |-> {}, strayed |-> FALSE]

\* The run that is open: none, or the one selected.
Open == {r \in Range(fieldRuns) : Shelf("field") /\ At({"painting", "review"}) /\ r.id = chosen.fieldRun}

\* A step of the panel alone, and one that also changes the run that is open.
TurnsField(panel) == field' = panel /\ UNCHANGED <<cockpitVars, chosen, astray>>

Changes(r, panel) ==
    /\ Keeps(WithFieldRuns(Project, Mutated(fieldRuns, r.id, LAMBDA x : r)))
    /\ field' = panel /\ UNCHANGED <<chosen, astray>>

-----------------------------------------------------------------------------
(* Labels. *)

addLabel ==
    \E r \in Open :
      /\ At({"painting"})
      /\ field.status # "recording"
      /\ Changes([r EXCEPT !.labels = @ \cup {<<r.id, FreshId + 2>>}], field)

\* Mutant: the spans of the label stay.
delLabelAlone(label) ==
    \E r \in Open :
      /\ At({"painting"})
      /\ field.status # "recording" /\ label \in r.labels
      /\ Changes([r EXCEPT !.labels = @ \ {label}], field)

\* The spans of a label that goes, go; links to them stay.
delLabel(label) ==
    \E r \in Open :
      /\ At({"painting"})
      /\ field.status # "recording" /\ label \in r.labels
      /\ Changes([r EXCEPT !.labels = @ \ {label},
                           !.spans = {s \in @ : s.label # label}], field)

-----------------------------------------------------------------------------
(* The recording. *)

canRecord(r) == maxTUs > 0 /\ r.labels # {}

Recording(panel) == [panel EXCEPT !.status = "recording", !.from = maxTUs, !.to = maxTUs]

startRun(led) ==
    \E r \in Open :
      /\ At({"painting"})
      /\ canRecord(r) /\ field.status \in {"idle", "done"}
      /\ LET cleared == [field EXCEPT !.open = Null, !.strayed = FALSE]
         IN  /\ Rewrites(WithFieldRuns(Project, Mutated(fieldRuns, r.id, LAMBDA x : [x EXCEPT !.spans = {}])))
             /\ field' = IF led THEN [cleared EXCEPT !.status = "warmup"] ELSE Recording(cleared)
             /\ TableStays /\ UNCHANGED <<used, chosen, astray>>

\* The lead-in is over, whatever run is open by then.
beginRecording ==
    /\ Shelf("field") /\ field.status = "warmup"
    /\ TurnsField(Recording(field))

\* A span ends no earlier than one microsecond after it began, which is a unit here.
Painted(open, id) ==
    [id |-> id, label |-> open.label, from |-> open.from, type |-> Null, same |-> {},
     to |-> IF maxTUs < open.from + 1 THEN open.from + 1 ELSE maxTUs]

\* The open span is added to the run that is open.
Paints(r, panel) ==
    /\ Keeps(WithFieldRuns(Project, Mutated(fieldRuns, r.id,
               LAMBDA x : [x EXCEPT !.spans = @ \cup {Painted(field.open, FreshId)}])))
    /\ astray' = IF field.strayed THEN astray \cup {FreshId} ELSE astray
    /\ field' = panel /\ UNCHANGED chosen

\* A tap of the label that is open closes its span; a tap of another hands over.
onLabelTap(label) ==
    \E r \in Open :
      /\ At({"painting"})
      /\ field.status = "recording" /\ label \in r.labels
      /\ LET next == IF field.open # Null /\ field.open.label = label THEN Null
                     ELSE [label |-> label, from |-> maxTUs]
         IN  IF field.open = Null THEN TurnsField([field EXCEPT !.open = next])
             ELSE Paints(r, [field EXCEPT !.open = next])

\* With a span open and no run open, stopping raises: nothing is done.
stopRun ==
    \E r \in Open :
      /\ At({"painting"})
      /\ field.status = "recording"
      /\ LET ended == [field EXCEPT !.status = "done", !.to = maxTUs, !.open = Null]
         IN  IF field.open = Null THEN TurnsField(ended)
             ELSE Paints(r, ended)

-----------------------------------------------------------------------------
(* What the spans meant. The first span is picked when none is. *)

HasSpan(r, id) == \E s \in r.spans : s.id = id

Picked(r) == IF HasSpan(r, field.span) THEN field.span
             ELSE IF r.spans = {} THEN Null
             ELSE (CHOOSE s \in r.spans : \A t \in r.spans : s.id <= t.id).id

OnSpan(r, id, op(_)) == [r EXCEPT !.spans = {IF s.id = id THEN op(s) ELSE s : s \in @}]

toggleLink(r, id, other) ==
    OnSpan(r, id, LAMBDA s : [s EXCEPT !.same = SymDiff(@, {other})])

pickSpan(id) ==
    \E r \in Open :
      /\ At({"review"})
      /\ HasSpan(r, id)
      /\ IF field.link /\ id # Picked(r)
         THEN Changes(toggleLink(r, Picked(r), id), [field EXCEPT !.span = Picked(r)])
         ELSE TurnsField([field EXCEPT !.span = id])

setLinkMode ==
    \E r \in Open :
      /\ At({"review"}) /\ r.spans # {}
      /\ TurnsField([field EXCEPT !.link = ~@])

setSpanType(type) ==
    \E r \in Open :
      /\ At({"review"})
      /\ Picked(r) # Null
      /\ Changes(OnSpan(r, Picked(r), LAMBDA s : [s EXCEPT !.type = type]), field)

delSpan ==
    \E r \in Open :
      LET id == Picked(r)
          rest == {[s EXCEPT !.same = @ \ {id}] : s \in {t \in r.spans : t.id # id}}
      IN  /\ At({"review"}) /\ id # Null
          /\ Changes([r EXCEPT !.spans = rest], [field EXCEPT !.span = Null])

-----------------------------------------------------------------------------
(* The analysis: of the run that is open when it is asked; its answer is shown with whatever
   run is open when it comes. A worker that raises never answers, and the button stays off. *)

analyze(raises) ==
    \E r \in Open :
      /\ At({"review"})
      /\ field.asked = Null /\ r.spans # {}
      /\ TurnsField([field EXCEPT !.asked = [run |-> r.id, lost |-> raises]])

TakesResult ==
    /\ Shelf("field") /\ field.asked # Null /\ ~field.asked.lost
    /\ TurnsField([field EXCEPT !.of = field.asked.run, !.asked = Null, !.promoted = {}])

promoteField(k) ==
    /\ Open # {} /\ field.of # Null
    /\ Keeps(addFinding(Project, FreshId, k))
    /\ field' = [field EXCEPT !.promoted = @ \cup {k}]
    /\ UNCHANGED <<chosen, astray>>

-----------------------------------------------------------------------------
(* Every other step: the panel is made anew with every visit. A recording strays when another
   run is opened or the project is changed under it, or the clock of another session is
   shown. The first span of the run that is opened is picked. *)

FieldFollows ==
    LET stays == Shelf("field") /\ stores'.mode = "logbook" /\ stores'.sub = "field"
        strays == /\ field.status \in {"warmup", "recording"}
                  /\ \/ chosen'.fieldRun # chosen.fieldRun
                     \/ stores'.project # Project
                     \/ maxTUs' < maxTUs
        repicks == \E r \in Range(stores'.project.fieldRuns) :
                      r.id = chosen'.fieldRun /\ r.spans # {} /\ ~HasSpan(r, field.span)
    IN  field' = IF stays THEN [field EXCEPT !.strayed = @ \/ strays,
                                             !.span = IF repicks THEN Null ELSE @]
                 ELSE IdleRun
=============================================================================
