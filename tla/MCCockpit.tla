----------------------------- MODULE MCCockpit -----------------------------
EXTENDS Desks

CONSTANTS m1, none

MCKeys == {1, 2}

\* A file: a frame with a multiplexor and a signal under a message, a formula and a tab of its
\* own, but no canonical tab; another with a canonical tab that hides a frame.
MCLoads ==
    {[emptyProject EXCEPT
        !.frames = 1 :> [named |-> TRUE, auto |-> TRUE,
                         signals |-> {[id |-> 21, at |-> 0, isMultiplexor |-> TRUE, under |-> none],
                                     [id |-> 22, at |-> 1, isMultiplexor |-> FALSE, under |-> m1]}],
        !.frameFormulas[1] = "b", !.views = 20 :> NewView({Whole(1)})],
     [emptyProject EXCEPT
        !.views = AllView :> [canonicalView EXCEPT !.filter.hides = {2}, !.formula = "b"],
        !.findings = <<[id |-> 23, frame |-> 1, confirmed |-> FALSE, excluded |-> FALSE]>>,
        !.fieldRuns = <<[makeFieldRun(24) EXCEPT !.spans =
          {[id |-> -2, label |-> <<24, 1>>, from |-> 0, to |-> 1, type |-> none, same |-> {-1}],
           [id |-> -1, label |-> <<24, 2>>, from |-> 1, to |-> 2, type |-> none, same |-> {-2}]}]>>]}

Link(mode, sub, frame, mux, signal) ==
    [mode |-> mode, sub |-> sub, frame |-> frame, mux |-> mux, signal |-> signal]

MCPasted == {Link("explore", none, 2, m1, 21), Link("explore", none, 1, none, none),
             Link("logbook", "findings", none, none, none), Link("explore", none, none, none, none)}

MCDesks == {"signals", "tabs", "links", "captures", "scans", "painting", "review", "library"}
MCVisited ==
    [signals |-> {"explore", "cluster"}, tabs |-> {}, links |-> {"explore", "logbook"},
     captures |-> {"explore", "hunt"},
     scans |-> {"explore", "hunt"}, painting |-> {"logbook"}, review |-> {"logbook", "hunt"}, library |-> {"explore", "logbook"}]
MCBehind == [signals |-> 2, tabs |-> 1, links |-> 1, captures |-> 1, scans |-> 1, painting |-> 1, review |-> 1, library |-> 1]
MCEdits == [signals |-> 2, tabs |-> 2, links |-> 1, captures |-> 0, scans |-> 2, painting |-> 3, review |-> 3, library |-> 3]
MCBatches == [signals |-> 1, tabs |-> 1, links |-> 1, captures |-> 2, scans |-> 1, painting |-> 2, review |-> 1, library |-> 0]
MCTurns == [captures |-> 3, scans |-> 4]
MCSessions == [signals |-> 1, tabs |-> 1, links |-> 2, captures |-> 1, scans |-> 1, painting |-> 1, review |-> 1, library |-> 0]
=============================================================================
