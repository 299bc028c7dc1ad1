------------------------------ MODULE Project ------------------------------
(***************************************************************************)
(* What the operator of the cockpit keeps: the project of                  *)
(* protocol/datamodel.ts and the edits state/store.ts makes of it. Every   *)
(* edit is a function of the project before it.                            *)
(*                                                                         *)
(* A signal of eight bits stands for any, in the byte `at'; the signals of *)
(* a frame are known by their ids, in whatever order they are listed; a    *)
(* frame is named or not; a formula is one of a few texts. Absent          *)
(* formulas, names and lists are Null, FALSE and empty, as the code        *)
(* deletes them.                                                           *)
(***************************************************************************)
EXTENDS Integers, SequencesExt

CONSTANTS
  Keys,      \* frame keys, numbered in the order of their ids
  Muxes,     \* message ids
  Texts,     \* texts of formulas that are not blank
  Null       \* none, of anything

AllView == 0 \* the id of the canonical tab; a newId is a larger number

-----------------------------------------------------------------------------
(* Frame definitions. *)

\* What ensureFrameDef and the edits below give a frame that has none.
NewDef == [named |-> FALSE, signals |-> {}, auto |-> TRUE]

Defined(p, k) == k \in DOMAIN p.frames
frameDefFor(p, k) == IF Defined(p, k) THEN p.frames[k] ELSE Null
DefOf(p, k) == IF Defined(p, k) THEN p.frames[k] ELSE NewDef
Put(f, x, y) == [z \in {x} \cup DOMAIN f |-> IF z = x THEN y ELSE f[z]]
WithDef(p, k, def) == [p EXCEPT !.frames = Put(@, k, def)]

\* makeSignal: a signal is a multiplexor, or carried under one message id, or always.
MakeSignal(id, byte, selects) == [id |-> id, at |-> byte, isMultiplexor |-> selects, under |-> Null]

renameFrame(p, k, named) == WithDef(p, k, [DefOf(p, k) EXCEPT !.named = named])

addSignal(p, k, sig) == WithDef(p, k, [DefOf(p, k) EXCEPT !.signals = @ \cup {sig}])

\* An edit of the signals of a frame that is defined.
OnSignals(p, k, op(_)) == IF Defined(p, k) THEN [p EXCEPT !.frames[k].signals = op(@)] ELSE p

updateSignal(p, k, sig) ==
    OnSignals(p, k, LAMBDA sigs : {IF s.id = sig.id THEN sig ELSE s : s \in sigs})

\* Mutant: the multiplexor before stays one.
SelectsToo(s, id) == [s EXCEPT !.isMultiplexor = @ \/ s.id = id]

Selects(s, id) == [s EXCEPT !.isMultiplexor = s.id = id]

\* Ticking one signal unticks the others; id is Null when the tick is taken away.
setMultiplexor(p, k, id) == OnSignals(p, k, LAMBDA sigs : {Selects(s, id) : s \in sigs})

removeSignal(p, k, id) == OnSignals(p, k, LAMBDA sigs : {s \in sigs : s.id # id})

\* The multiplexor of a frame that has one (the code takes the first it finds).
HasMultiplexor(def) == \E s \in def.signals : s.isMultiplexor
multiplexorSignal(def) == CHOOSE s \in def.signals : s.isMultiplexor

\* One signal is moved; those elsewhere are no multiplexor any more; none is.
Moved(sigs, mux, byte) == {IF s = mux THEN [s EXCEPT !.at = byte] ELSE s : s \in sigs}
Forced(sigs, byte) == {[s EXCEPT !.isMultiplexor = @ /\ s.at = byte] : s \in sigs}
Plain(sigs) == {[s EXCEPT !.isMultiplexor = FALSE] : s \in sigs}

\* The message id of a frame: found by the detector, forced to a byte (its multiplexor is
\* moved there, or one is made), or none.
setMessageIdMode(p, k, mode, byte, id) ==
    LET def == DefOf(p, k)
        moved == IF HasMultiplexor(def) THEN Moved(def.signals, multiplexorSignal(def), byte)
                 ELSE def.signals \cup {MakeSignal(id, byte, TRUE)}
    IN  WithDef(p, k, [def EXCEPT !.signals = IF mode = "forced" THEN Forced(moved, byte) ELSE Plain(@),
                                  !.auto = mode # "none"])

\* The signals of the selected frame that are listed under message id mux (Null: all).
messageSignals(p, k, mux) ==
    IF ~Defined(p, k) THEN {}
    ELSE {s \in p.frames[k].signals :
            s.under = Null \/ s.isMultiplexor \/ mux = Null \/ s.under = mux}
         \cup {MakeSignal(id, -1, FALSE) : id \in Range(p.derivedSignals[k])}

-----------------------------------------------------------------------------
(* Formulas, derived signals and names of messages. *)

setFrameFormula(p, k, text) == [p EXCEPT !.frameFormulas = Put(@, k, text)]
addDerivedSignal(p, k, id) == [p EXCEPT !.derivedSignals[k] = Append(@, id)]
removeDerivedSignal(p, k, id) == [p EXCEPT !.derivedSignals[k] = SelectSeq(@, LAMBDA d : d # id)]

\* A message is a frame under one message id, or (Null) the frame that has none.
Message(k, mux) == [frame |-> k, mux |-> mux]
Whole(k) == [frame |-> k, mux |-> "frame"]

setMessageName(p, message, named) ==
    [p EXCEPT !.messageNames = IF named THEN @ \cup {message} ELSE @ \ {message}]

\* The tiles of the cluster: every signal but a multiplexor, and every formula.
clusterCards(p) ==
    {[frame |-> k, expr |-> p.frameFormulas[k]] : k \in {x \in Keys : p.frameFormulas[x] # Null}}
    \cup UNION {{[frame |-> k, sig |-> s] : s \in {x \in p.frames[k].signals : ~x.isMultiplexor}}
                  : k \in DOMAIN p.frames}

-----------------------------------------------------------------------------
(* Tabs. A filter hides the frames whose rows fail one of its criteria now, and may ask
   for a name. *)

emptyFilter == [hides |-> {}, needle |-> FALSE]
NewView(members) == [locked |-> FALSE, filter |-> emptyFilter, members |-> members, formula |-> Null]
canonicalView == [NewView({}) EXCEPT !.locked = TRUE]

\* An edit of a tab that exists, and of one that is not the canonical tab.
OnView(p, v, op(_)) == IF v \in DOMAIN p.views THEN [p EXCEPT !.views[v] = op(@)] ELSE p
OnTab(p, v, op(_)) == OnView(p, v, LAMBDA view : IF view.locked THEN view ELSE op(view))

createView(p, id, members) == [p EXCEPT !.views = Put(@, id, NewView(members))]

Goes(p, v) == v \in DOMAIN p.views /\ ~p.views[v].locked

deleteView(p, v) ==
    IF Goes(p, v) THEN [p EXCEPT !.views = [w \in DOMAIN @ \ {v} |-> @[w]]] ELSE p

setFramesInView(p, v, members, in) ==
    OnTab(p, v, LAMBDA view : [view EXCEPT !.members = IF in THEN @ \cup members ELSE @ \ members])

clearViewMembers(p, v) == OnTab(p, v, LAMBDA view : [view EXCEPT !.members = {}])
setViewFormula(p, v, text) == OnView(p, v, LAMBDA view : [view EXCEPT !.formula = text])
mutateFilter(p, v, hides, needle) ==
    OnView(p, v, LAMBDA view : [view EXCEPT !.filter = [hides |-> hides, needle |-> needle]])

\* The frames of a tab: of a message, its frame (frameKeyOfMember).
FramesOf(view) == {m.frame : m \in view.members}

passesFilter(filter, k) == k \notin filter.hides

\* `show all' takes no notice of the name that is asked for.
tagAllVisible(p, v, rows) ==
    OnTab(p, v, LAMBDA view :
            [view EXCEPT !.members = @ \cup {Whole(k) : k \in {r \in rows : passesFilter(view.filter, r)}}])

\* The rows of a tab, in the order of ids.
filteredRows(p, v, rows) ==
    LET view == p.views[v]
        shown == {k \in rows : /\ passesFilter(view.filter, k)
                               /\ view.locked \/ k \in FramesOf(view)
                               /\ view.filter.needle => Defined(p, k) /\ p.frames[k].named}
    IN  SetToSortSeq(shown, <)

\* The canonical tab: the locked one.
Canonical(p) == CHOOSE v \in DOMAIN p.views : p.views[v].locked

\* ensureViews: a project that is loaded has the canonical tab.
ensureViews(p) == IF \E v \in DOMAIN p.views : p.views[v].locked THEN p
                  ELSE [p EXCEPT !.views = Put(@, AllView, canonicalView)]

-----------------------------------------------------------------------------
(* Libraries: scenarios, field runs and findings, lists of records with an id. *)

\* The sequence of op(x) for the elements x of a sequence.
Each(seq, op(_)) == [i \in DOMAIN seq |-> op(seq[i])]

Find(list, id) == {i \in DOMAIN list : list[i].id = id}
Has(list, id) == Find(list, id) # {}

\* One record is taken out, if it is there.
Without(list, id) == IF Has(list, id) THEN RemoveAt(list, CHOOSE i \in Find(list, id) : TRUE) ELSE list

Mutated(list, id, op(_)) == Each(list, LAMBDA x : IF x.id = id THEN op(x) ELSE x)

\* The one dragged is taken out and put in at the place where the other was before.
Reordered(list, from, to) == InsertAt(RemoveAt(list, from), to, list[from])

-----------------------------------------------------------------------------
(* The shape of a project: records, in which ids tell signals of a frame, and runs, apart. *)

AreRuns(runs) ==
    /\ runs \in Seq(Range(runs))
    /\ \A r \in Range(runs) :
         /\ r \in [id : {r.id}, done : {r.done}, labels : {r.labels}, spans : {r.spans}]
         /\ \A s \in r.spans : s \in [id : Int, label : {s.label}, from : Int, to : Int,
                                     type : {s.type}, same : {s.same}]
         /\ \A x \in Range(runs) : x.id = r.id => x = r

IsProject(p) ==
    /\ p \in [frames : {p.frames}, frameFormulas : {p.frameFormulas},
              derivedSignals : {p.derivedSignals}, messageNames : {p.messageNames},
              views : {p.views}, scenarios : {p.scenarios}, findings : {p.findings},
              fieldRuns : {p.fieldRuns}]
    /\ \A k \in DOMAIN p.frames :
         LET def == p.frames[k]
         IN  /\ def \in [named : BOOLEAN, signals : {def.signals}, auto : BOOLEAN]
             /\ \A s \in def.signals :
                  s \in [id : {s.id}, at : {s.at}, isMultiplexor : BOOLEAN, under : {s.under}]
             /\ \A s, t \in def.signals : s.id = t.id => s = t
    /\ \A v \in DOMAIN p.views :
         LET view == p.views[v]
         IN  view \in [locked : BOOLEAN, filter : {view.filter}, members : {view.members},
                       formula : {view.formula}]
    /\ AreRuns(p.fieldRuns)

\* The ids that newId made: of signals, of tabs and of runs. (Those of spans are known apart.)
Ids(p) == DOMAIN p.views \cup {r.id : r \in Range(p.fieldRuns)}
          \cup UNION {{s.id : s \in p.frames[k].signals} : k \in DOMAIN p.frames}

\* The spans of a run, but for some: painted with its labels, one after the other; a span
\* lasts a unit of time at least.
SpansFollow(r, excepted) ==
    \A s \in r.spans :
      s.id \notin excepted =>
        /\ s.label \in r.labels
        /\ \A t \in r.spans : t.id \notin excepted /\ t.id < s.id => t.to - 1 <= s.from

OneMultiplexor(p) ==
    \A k \in DOMAIN p.frames : \A s, t \in p.frames[k].signals :
      s.isMultiplexor /\ t.isMultiplexor => s = t

Locked(p) == {v \in DOMAIN p.views : p.views[v].locked}
OneCanonical(p) == \E v \in Locked(p) : Locked(p) = {v} /\ p.views[v].members = {}

emptyProject == [frames |-> <<>>, frameFormulas |-> [k \in Keys |-> Null],
                 derivedSignals |-> [k \in Keys |-> <<>>], messageNames |-> {},
                 views |-> Put(<<>>, AllView, canonicalView),
                 scenarios |-> <<>>, findings |-> <<>>, fieldRuns |-> <<>>]
=============================================================================
