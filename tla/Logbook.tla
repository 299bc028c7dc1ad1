------------------------------ MODULE Logbook ------------------------------
(***************************************************************************)
(* A Logbook run of the cockpit: the storyboard engine that stamps the     *)
(* windows of a scenario's phases (logbook/runEngine.ts), the controller   *)
(* that drives it with a lead-in timer and a 100 ms loop and asks for the  *)
(* analysis (logbook/runController.ts), the melody that tells the operator *)
(* the phase (logbook/audio.ts), and the panel that arms it, takes the     *)
(* operator's buttons and relays the commands of viewers                   *)
(* (components/LogbookPanel.svelte).                                       *)
(*                                                                         *)
(* All of it is one browser thread.  The panel's reactive statements run   *)
(* after every handler that changed what they read: dirty, and Flush.      *)
(* Single beeps, labels and the snapshots sent to viewers are left out.    *)
(***************************************************************************)
EXTENDS Integers, Sequences, SequencesExt

CONSTANTS
  Scenarios, \* scenario objects; an edit makes another object
  Phases,    \* per scenario: its expanded phases, timed or on input
  LeadIn,    \* ticks of the lead-in (3)
  None,      \* no scenario, no result
  MaxRuns,   \* bound: starts
  MaxAsked,  \* bound: analyses asked for
  MaxLate,   \* bound: how late a tick may come
  MaxWait    \* bound: time spent in one input phase

ASSUME LogbookConstants ==
  /\ None \notin Scenarios
  /\ \A s \in Scenarios :
       Phases[s] \in Seq([input : BOOLEAN, type : STRING, dur : Nat \ {0}]) /\ Phases[s] # <<>>
  /\ LeadIn \in Nat \ {0}
  /\ MaxRuns \in Nat /\ MaxAsked \in Nat /\ MaxLate \in Nat /\ MaxWait \in Nat

VARIABLES
  scenario, \* controller: the scenario armed
  eng,      \* the run engine of that scenario
  lead,     \* leadTimer: ticks to go, 0 = none
  looping,  \* mainTimer is set
  finished, \* controller: this run was concluded
  ui,       \* the status published
  result,   \* the analysis shown
  clock,    \* the run clock
  sel,      \* panel: the scenario selected
  armed,    \* panel: the scenario it armed last
  dirty,    \* panel: reactive statements are due
  alive,    \* the panel is mounted
  voice,    \* the voice the melody plays in, None = no melody
  muted,    \* isMuted
  hushed,   \* history: muted at some time since this phase began
  run,      \* history: starts so far
  asked,    \* history: the runs an analysis was asked for
  answered  \* how many of them the worker has answered

panelVars == <<sel, armed, alive>>
audioVars == <<voice, muted, hushed>>
vars == <<scenario, eng, lead, looping, finished, ui, result, clock,
          panelVars, audioVars, dirty, run, asked, answered>>

-----------------------------------------------------------------------------
(* The engine: pure functions of its state. *)

Windows == Seq([phase : Nat \ {0}, from : Nat, to : Nat])

EngineStates == [status : {"idle", "running", "done", "stopped"},
                 idx : Nat, start : Nat, windows : Windows]

Fresh == [status |-> "idle", idx |-> 0, start |-> 0, windows |-> <<>>]

Started(t) == [status |-> "running", idx |-> 1, start |-> t, windows |-> <<>>]

Phase(e) == Phases[scenario][e.idx]

Awaiting(e) == e.status = "running" /\ Phase(e).input

Stamped(e, t) == Append(e.windows, [phase |-> e.idx, from |-> e.start, to |-> t])

Advanced(e, t) ==
  LET last == e.idx = Len(Phases[scenario])
  IN  [status |-> IF last THEN "done" ELSE "running",
       idx |-> IF last THEN 0 ELSE e.idx + 1,
       start |-> t, windows |-> Stamped(e, t)]

Due(e, t) ==
  /\ e.status = "running" /\ e.idx \in DOMAIN Phases[scenario] /\ ~Phase(e).input
  /\ t >= e.start + Phase(e).dur

\* Mutant: a late tick closes the phase at the time of the tick.
BoundaryNow(e, t) == t

\* A timed phase ends at its scheduled boundary, however late the tick is.
Boundary(e, t) == e.start + Phase(e).dur

\* tick(): as many phases as are due by now, one after the other, in no more turns
\* than its guard allows.
Ticked(e, t) ==
  LET guard == Len(Phases[scenario]) + 1
      turns[n \in 0 .. guard] ==
        [p \in EngineStates |->
           IF n > 0 /\ Due(p, t) THEN turns[n - 1][Advanced(p, Boundary(p, t))] ELSE p]
  IN  turns[guard][e]

Confirmed(e, t) == IF Awaiting(e) THEN Advanced(e, t) ELSE e

Stopped(e, t) ==
  IF e.status = "running"
    THEN [e EXCEPT !.status = "stopped", !.idx = 0, !.windows = Stamped(e, t)]
    ELSE e

-----------------------------------------------------------------------------
(* The melody. *)

VoiceFor(p) == CASE p.type = "noise" -> "noise"
                 [] p.type # "noise" /\ p.input -> "awaiting"
                 [] p.type = "stimulus" /\ ~p.input -> "stimulus"
                 [] OTHER -> "observe"

\* setVoice: a muted melody is not begun.
SetVoice(v) == voice' = IF muted THEN None ELSE v

StopSonif == voice' = None /\ hushed' = FALSE /\ UNCHANGED muted

\* Mutant: a run that comes to its end plays on.
CuesToTheEnd(e) ==
  /\ UNCHANGED muted
  /\ IF e.status = "running" /\ e.idx # eng.idx THEN SetVoice(VoiceFor(Phase(e))) /\ hushed' = muted
     ELSE UNCHANGED <<voice, hushed>>

\* cues(): a phase entered since the last look gets its voice; the first one, which
\* beginRun has entered already, gets none. A run that is over falls silent.
Cues(e) ==
  /\ UNCHANGED muted
  /\ IF e.status = "done" THEN voice' = None /\ hushed' = FALSE
     ELSE IF e.status = "running" /\ e.idx # eng.idx THEN SetVoice(VoiceFor(Phase(e))) /\ hushed' = muted
     ELSE UNCHANGED <<voice, hushed>>

-----------------------------------------------------------------------------
(* The controller.  Each step republishes and leaves the panel dirty if      *)
(* anything it reads has changed.                                            *)

Ready == alive /\ ~dirty

Notify == dirty' = (ui' # ui \/ sel' # sel \/ armed' # armed)

\* Mutant: every end of a run asks for an analysis of its own.
ConcludedAgain(e) ==
  /\ finished' = TRUE /\ lead' = 0 /\ looping' = FALSE
  /\ asked' = Append(asked, [run |-> run, windows |-> e.windows])

\* finish(): once per run, stop the timers and ask for the analysis.
Concluded(e) ==
  IF finished THEN UNCHANGED <<finished, lead, looping, asked>>
  ELSE /\ finished' = TRUE /\ lead' = 0 /\ looping' = FALSE
       /\ asked' = Append(asked, [run |-> run, windows |-> e.windows])

\* loop() and next(): publish the engine, and conclude a run that is done.
Publish(e) ==
  /\ eng' = e /\ ui' = e.status /\ Cues(e)
  /\ IF e.status = "done" THEN Concluded(e)
     ELSE UNCHANGED <<finished, lead, looping, asked>>
  /\ UNCHANGED <<scenario, result, clock, panelVars, run, answered>>
  /\ Notify

\* arm(): a new engine, no timers.
Arm(s) ==
  /\ scenario' = s /\ eng' = Fresh
  /\ lead' = 0 /\ looping' = FALSE /\ finished' = FALSE /\ StopSonif
  /\ result' = None /\ ui' = "armed"

\* start(): a new engine and the lead-in.
StartOf(s) ==
  /\ run < MaxRuns
  /\ run' = run + 1
  /\ scenario' = s /\ eng' = Fresh
  /\ lead' = LeadIn /\ looping' = FALSE /\ finished' = FALSE /\ StopSonif
  /\ result' = None /\ ui' = "leadin"
  /\ UNCHANGED <<clock, asked, answered>>
  /\ Notify

\* Mutant: the countdown never gets to zero.
LeadTickShort ==
  /\ Ready /\ lead > 1
  /\ lead' = lead - 1 /\ ui' = "leadin"
  /\ UNCHANGED <<scenario, eng, looping, finished, result, clock, panelVars, audioVars, run,
                 asked, answered>>
  /\ Notify

\* The lead-in counts down and, at zero, begins the run on a new clock.
LeadTick ==
  /\ Ready /\ lead > 0
  /\ lead' = lead - 1
  /\ IF lead > 1
       THEN /\ ui' = "leadin"
            /\ UNCHANGED <<eng, looping, finished, result, clock>>
       ELSE /\ eng' = Started(0) /\ clock' = 0
            /\ looping' = TRUE /\ finished' = FALSE
            /\ result' = None /\ ui' = "running"
  /\ UNCHANGED <<scenario, panelVars, audioVars, run, asked, answered>>
  /\ Notify

Loop == Ready /\ looping /\ Publish(Ticked(eng, clock))

PressNext == Ready /\ scenario # None /\ Publish(Confirmed(eng, clock))

\* stop(), whatever the state of the run.
Stop ==
  /\ Ready /\ scenario # None /\ Len(asked) < MaxAsked
  /\ LET e == Stopped(eng, clock)
     IN  /\ eng' = e /\ ui' = "stopped" /\ StopSonif
         /\ lead' = 0 /\ looping' = FALSE /\ finished' = TRUE
         /\ asked' = IF finished THEN asked
                     ELSE Append(asked, [run |-> run, windows |-> e.windows])
  /\ UNCHANGED <<scenario, result, clock, panelVars, run, answered>>
  /\ Notify

\* The worker answers in the order it was asked; the promise of an earlier run
\* resolves all the same.
Analysed ==
  /\ Ready /\ answered < Len(asked)
  /\ answered' = answered + 1
  /\ result' = asked[answered + 1]
  /\ UNCHANGED <<scenario, eng, lead, looping, finished, ui, clock, panelVars, audioVars, dirty, run, asked>>

TimePasses ==
  /\ alive /\ looping
  /\ clock - eng.start < IF Awaiting(eng) THEN MaxWait ELSE Phase(eng).dur + MaxLate
  /\ clock' = clock + 1
  /\ UNCHANGED <<scenario, eng, lead, looping, finished, ui, result, panelVars,
                 audioVars, dirty, run, asked, answered>>

-----------------------------------------------------------------------------
(* The panel *)

\* The operator selects or edits a scenario.
Choose(s) ==
  /\ Ready /\ s # sel
  /\ sel' = s
  /\ UNCHANGED <<scenario, eng, lead, looping, finished, ui, result, clock, armed, alive,
                 audioVars, run, asked, answered>>
  /\ Notify

Rearms == ui \notin {"running", "leadin"}

\* The reactive arm: whenever another scenario object is selected, never
\* while a run is on.
Flush ==
  /\ alive /\ dirty
  /\ dirty' = FALSE
  /\ IF sel # None /\ sel # armed /\ Rearms
       THEN armed' = sel /\ Arm(sel)
       ELSE UNCHANGED <<armed, scenario, eng, lead, looping, finished, result, ui, audioVars>>
  /\ UNCHANGED <<sel, alive, clock, run, asked, answered>>

\* Start, Restart or Space.
PressStart ==
  /\ Ready /\ sel # None /\ scenario # None
  /\ ui \notin {"running", "leadin"}
  /\ StartOf(scenario)
  /\ UNCHANGED panelVars

\* A viewer starts a scenario: select, arm and start in one handler.
RemoteStart(s) ==
  /\ Ready
  /\ sel' = s
  /\ UNCHANGED <<armed, alive>>
  /\ StartOf(s)

\* The mute button. What was hushed is heard again from the next phase on.
ToggleMute ==
  /\ Ready
  /\ muted' = ~muted /\ hushed' = (eng.status = "running" /\ eng.idx > 1)
  /\ voice' = IF muted THEN voice ELSE None
  /\ UNCHANGED <<scenario, eng, lead, looping, finished, ui, result, clock, panelVars,
                 dirty, run, asked, answered>>

\* Stop and Next are also commands of viewers, which may send them late: the
\* panel passes them on in any state.
Dispose ==
  /\ alive
  /\ alive' = FALSE /\ lead' = 0 /\ looping' = FALSE /\ StopSonif
  /\ UNCHANGED <<scenario, eng, finished, ui, result, clock, sel, armed, dirty,
                 run, asked, answered>>

-----------------------------------------------------------------------------
Init ==
  /\ scenario = None /\ eng = Fresh /\ lead = 0 /\ looping = FALSE
  /\ finished = FALSE /\ ui = "idle" /\ result = None /\ clock = 0
  /\ sel = None /\ armed = None /\ dirty = FALSE /\ alive = TRUE
  /\ voice = None /\ muted = FALSE /\ hushed = FALSE
  /\ run = 0 /\ asked = <<>> /\ answered = 0

Next ==
  \/ \E s \in Scenarios : Choose(s) \/ RemoteStart(s)
  \/ PressStart \/ LeadTick \/ Loop \/ PressNext \/ Stop
  \/ Analysed \/ TimePasses \/ Flush \/ ToggleMute \/ Dispose

\* The clock goes on; the browser runs the reactive statements after a handler
\* and comes back to a due timer whatever the operator and the viewers do.
Spec ==
  /\ Init /\ [][Next]_vars
  /\ WF_vars(Flush) /\ WF_vars(TimePasses) /\ SF_vars(LeadTick) /\ SF_vars(Loop)

-----------------------------------------------------------------------------
(* Properties *)

\* Type invariant.
TypeOK ==
  /\ scenario \in Scenarios \cup {None} /\ sel \in Scenarios \cup {None}
  /\ armed \in Scenarios \cup {None} /\ eng \in EngineStates
  /\ ui \in {"idle", "armed", "leadin", "running", "done", "stopped"}
  /\ lead \in 0 .. LeadIn /\ clock \in Nat /\ run \in Nat
  /\ {looping, finished, dirty, alive, muted, hushed} \subseteq BOOLEAN
  /\ asked \in Seq([run : Nat, windows : Windows]) /\ answered \in 0 .. Len(asked)

\* The two timers share a run: a running engine has its loop while the panel is
\* mounted, nothing else has, and the lead-in never runs beside it.
TimersOK ==
  /\ looping <=> alive /\ eng.status = "running"
  /\ lead > 0 => eng = Fresh /\ ~finished

\* The labels the analysis reads: the windows are the phases in order, without
\* a gap or an overlap from the start of the run; a timed phase lasts exactly
\* its duration however late the ticks came; a run is done only after its last
\* phase.
Tile(w, e, c) ==
  \A i \in DOMAIN w :
    /\ w[i].phase = i
    /\ w[i].from = IF i = 1 THEN 0 ELSE w[i - 1].to
    /\ w[i].from <= w[i].to /\ w[i].to <= c
    /\ ~Phases[scenario][i].input /\ (i < Len(w) \/ e.status # "stopped")
         => w[i].to = w[i].from + Phases[scenario][i].dur

Covers(e, c) ==
  /\ Tile(e.windows, e, c)
  /\ e.status = "running" =>
       /\ e.idx = Len(e.windows) + 1
       /\ e.start = IF e.windows = <<>> THEN 0 ELSE Last(e.windows).to
  /\ e.status = "done" => Len(e.windows) = Len(Phases[scenario])
  /\ e.status = "stopped" => e.windows # <<>>

WindowsTile == Covers(eng, clock)

\* One analysis for each run, with every window it stamped, whether it ended
\* by itself, by Next, by Stop, or was stopped after it had ended.  (Stop on a
\* scenario that is armed again asks too, about no window at all.)
AskedOnceAndWhole ==
  /\ \A i, j \in DOMAIN asked :
       i < j /\ asked[i].run = asked[j].run => asked[j].windows = <<>>
  /\ finished => asked # <<>> /\ Last(asked) = [run |-> run, windows |-> eng.windows]

\* Each run is analysed once, with every window it stamped; and when every analysis
\* is answered, the result shown for a finished run is its own, whichever earlier
\* answers came in after it had started.
AnalysisIsItsOwn ==
  /\ AskedOnceAndWhole
  /\ finished /\ answered = Len(asked) => result = Last(asked)

\* runController.ts:136-139: by the melody the operator hears which phase the run is in,
\* from the second on.  Whatever ends a run, skips a phase or is pressed late, a
\* melody is that of the present phase, and there is none without a running phase;
\* a phase that was never muted has its own.
MelodyTellsPhase ==
  voice = IF alive /\ eng.status = "running" /\ eng.idx > 1 /\ ~muted /\ ~hushed
            THEN VoiceFor(Phase(eng)) ELSE None

\* A started run gets through its lead-in and does not stall in a timed phase,
\* whatever is pressed meanwhile.
RunMovesOn ==
  /\ lead > 0 ~> (lead = 0 \/ ~alive)
  /\ eng.status = "running" ~> (eng.status # "running" \/ Awaiting(eng) \/ ~alive)
=============================================================================
