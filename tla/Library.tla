------------------------------ MODULE Library ------------------------------
(***************************************************************************)
(* The libraries of the Logbook's three panels: scenarios (LogbookPanel),  *)
(* field runs (MarkhuntPanel) and findings (FindingsPanel). What a         *)
(* scenario that runs does is Logbook's subject, what its analysis finds   *)
(* Experiment's.                                                           *)
(***************************************************************************)
EXTENDS Cockpit

CONSTANT StepKinds \* the kinds of the steps of a loop

VARIABLE chosen \* selectedScenarioId and selectedFieldRunId

NoneChosen == [scenario |-> Null, fieldRun |-> Null]

Places == [storyboard |-> {"library"}, findings |-> {"library"}, field |-> {"library", "painting", "review"}]
Shelf(sub) == Panel("logbook") /\ stores.sub = sub /\ At(Places[sub])

\* A change of the project in a library.
Keeps(p) == Edit(p) /\ TableStays

-----------------------------------------------------------------------------
(* Scenarios: a loop of steps, each ended by a timer or by the operator. *)

scenarios == Project.scenarios
WithScenarios(list) == [Project EXCEPT !.scenarios = list]

MakeStep(kind) == [kind |-> kind, advance |-> IF kind = "stimulus" THEN "input" ELSE "timer"]
makeScenario(id) == [id |-> id, done |-> FALSE,
                     steps |-> <<MakeStep("stimulus"), MakeStep("observe")>>]

newScenario ==
    /\ Shelf("storyboard")
    /\ Keeps(WithScenarios(Append(scenarios, makeScenario(FreshId))))
    /\ chosen' = [chosen EXCEPT !.scenario = FreshId]

deleteScenario(id) ==
    /\ Shelf("storyboard") /\ Has(scenarios, id)
    /\ Keeps(WithScenarios(Without(scenarios, id)))
    /\ chosen' = [chosen EXCEPT !.scenario = IF @ = id THEN Null ELSE @]

reorderScenario(from, to) ==
    /\ Shelf("storyboard") /\ {from, to} \subseteq DOMAIN scenarios /\ from # to
    /\ Keeps(WithScenarios(Reordered(scenarios, from, to)))
    /\ UNCHANGED chosen

\* An edit of one scenario: the tick in the list, or a step of the one that is open.
mutateScenario(id, op(_)) == Keeps(WithScenarios(Mutated(scenarios, id, op))) /\ UNCHANGED chosen

TickScenario(id) ==
    /\ Shelf("storyboard") /\ Has(scenarios, id)
    /\ mutateScenario(id, LAMBDA s : [s EXCEPT !.done = ~@])

OpenScenario == {s \in Range(scenarios) : Shelf("storyboard") /\ s.id = chosen.scenario}

addStep(kind) ==
    \E s \in OpenScenario :
      mutateScenario(s.id, LAMBDA x : [x EXCEPT !.steps = Append(@, MakeStep(kind))])

\* The last step stays.
delStep(i) ==
    \E s \in OpenScenario :
      /\ i \in DOMAIN s.steps
      /\ mutateScenario(s.id, LAMBDA x : IF Len(x.steps) > 1 THEN [x EXCEPT !.steps = RemoveAt(@, i)] ELSE x)

toggleAdvance(i) ==
    \E s \in OpenScenario :
      /\ i \in DOMAIN s.steps
      /\ mutateScenario(s.id, LAMBDA x :
           [x EXCEPT !.steps[i].advance = IF @ = "input" THEN "timer" ELSE "input"])

moveStep(from, to) ==
    \E s \in OpenScenario :
      /\ {from, to} \subseteq DOMAIN s.steps /\ from # to
      /\ mutateScenario(s.id, LAMBDA x : [x EXCEPT !.steps = InsertAt(RemoveAt(@, from), to, @[from])])

-----------------------------------------------------------------------------
(* Findings: a frame's byte or bit that is held responsible, to be left out of later hunts. *)

findings == Project.findings
Finding(id, k) == [id |-> id, frame |-> k, confirmed |-> FALSE, excluded |-> FALSE]
addFinding(p, id, k) == [p EXCEPT !.findings = Append(@, Finding(id, k))]

mutateFinding(id, op(_)) ==
    /\ Shelf("findings") /\ Has(findings, id)
    /\ Keeps([Project EXCEPT !.findings = Mutated(@, id, op)])
    /\ UNCHANGED chosen

toggleStatus(id) == mutateFinding(id, LAMBDA f : [f EXCEPT !.confirmed = ~@])
toggleExclude(id) == mutateFinding(id, LAMBDA f : [f EXCEPT !.excluded = ~@])

deleteFinding(id) ==
    /\ Shelf("findings") /\ Has(findings, id)
    /\ Keeps([Project EXCEPT !.findings = Without(@, id)])
    /\ UNCHANGED chosen

\* A finding becomes a signal of its frame, and the cockpit goes there.
toSignal(id) ==
    \E i \in Find(findings, id) :
      LET k == findings[i].frame
          p == addSignal(Project, k, MakeSignal(FreshId, 0, FALSE))
          st == SetSelected([stores EXCEPT !.project = p], k)
      IN  /\ Shelf("findings")
          /\ EditMoving(p, <<st, [st EXCEPT !.mode = "explore"]>>)
          /\ TableAfter("explore") /\ UNCHANGED selection
          /\ UNCHANGED chosen

-----------------------------------------------------------------------------
(* Field runs: labels, and the spans painted with them. *)

fieldRuns == Project.fieldRuns
WithFieldRuns(p, list) == [p EXCEPT !.fieldRuns = list]

\* A label is known by the run it was made for and a number of its own. The spans of a run are
\* listed as they were painted, which is in the order of their ids.
makeFieldRun(id) == [id |-> id, done |-> FALSE, labels |-> {<<id, 1>>, <<id, 2>>}, spans |-> {}]

newFieldRun ==
    /\ Shelf("field")
    /\ Keeps(WithFieldRuns(Project, Append(fieldRuns, makeFieldRun(FreshId))))
    /\ chosen' = [chosen EXCEPT !.fieldRun = FreshId]

deleteFieldRun(id) ==
    /\ Shelf("field") /\ Has(fieldRuns, id)
    /\ Keeps(WithFieldRuns(Project, Without(fieldRuns, id)))
    /\ chosen' = [chosen EXCEPT !.fieldRun = IF @ = id THEN Null ELSE @]

reorderFieldRun(from, to) ==
    /\ Shelf("field") /\ At({"library"}) /\ {from, to} \subseteq DOMAIN fieldRuns /\ from # to
    /\ Keeps(WithFieldRuns(Project, Reordered(fieldRuns, from, to)))
    /\ UNCHANGED chosen

\* A row of a list.
Chooses(selected) ==
    /\ chosen' = selected
    /\ UNCHANGED cockpitVars

ChooseScenario(id) == /\ Shelf("storyboard") /\ Has(scenarios, id)
                      /\ Chooses([chosen EXCEPT !.scenario = id])
ChooseFieldRun(id) == /\ Shelf("field") /\ Has(fieldRuns, id)
                      /\ Chooses([chosen EXCEPT !.fieldRun = id])
=============================================================================
