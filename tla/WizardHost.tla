----------------------------- MODULE WizardHost -----------------------------
(***************************************************************************)
(* The Wizard host of the cockpit: frontend/cockpit/src/hunt/wizardHost.ts *)
(* runs the reducer of WizardFsm with real timers, and HuntPanel.svelte    *)
(* starts the series, routes the verdicts of the cockpit overlay and of    *)
(* the viewers into it, and harvests an event mark per good trial.         *)
(*                                                                         *)
(* One browser task is one action: a timer callback, a button, a relayed   *)
(* trialFeedback message.  Svelte re-renders and runs onHostPhase in the   *)
(* microtask that follows, before the next task, so both are in the same   *)
(* action.  Time is counted in cues: the instant of a mark is the number   *)
(* of the cue it belongs to.                                               *)
(***************************************************************************)
EXTENDS WizardFsm, Sequences, FiniteSets

CONSTANTS
  LateVerdicts, \* a viewer's trialFeedback may arrive in any phase
  MaxLedger,    \* bound: recorded trials per series
  MaxSeries     \* bound: series started

ASSUME HostConstants ==
  LateVerdicts \in BOOLEAN /\ MaxLedger \in Nat /\ MaxSeries \in Nat

VARIABLES
  fsm,           \* WizardHost.state
  timer,         \* the pending feedback or retry timer, "none" if null
  cueWatchdog,   \* is the cue timer pending
  ledger,        \* the trial outcomes of this series
  abandonReason, \* "none", "guard" or "explicit"
  active,        \* a series is on screen
  mounted,       \* HuntPanel exists; destroy() ends it
  guidedActive, prevPhase, guidedMarks, \* HuntPanel's variables
  pendingCueAt,  \* the cue whose feedback request is up, 0 for null
  series,        \* number of series started
  cues,          \* history: cues played in this series; the clock of marks
  confirmed,     \* history: cues whose test the operator confirmed
  silentRun      \* history: unanswered tests since the last verdict taken

hostVars  == <<fsm, timer, cueWatchdog, ledger, abandonReason, active>>
panelVars == <<guidedActive, prevPhase, guidedMarks, pendingCueAt>>
vars == <<hostVars, panelVars, mounted, series, cues, confirmed, silentRun>>

TrialRecords == [repIndex : Nat, outcome : Outcomes]

TypeOK ==
  /\ fsm \in States
  /\ timer \in Timers \cup {"none"}
  /\ cueWatchdog \in BOOLEAN /\ active \in BOOLEAN /\ mounted \in BOOLEAN
  /\ ledger \in Seq(TrialRecords)
  /\ abandonReason \in {"none", "guard", "explicit"}
  /\ guidedActive \in BOOLEAN
  /\ prevPhase \in Phases \cup {"none"}
  /\ guidedMarks \in Seq([repIndex : Nat, at : Nat])
  /\ pendingCueAt \in Nat /\ series \in Nat /\ cues \in Nat
  /\ confirmed \subseteq Nat /\ silentRun \in Nat

\* The panel subscribes while it is set up and sees the idle phase.
Init ==
  /\ fsm = initialState /\ timer = "none" /\ cueWatchdog = FALSE
  /\ ledger = <<>> /\ abandonReason = "none" /\ active = FALSE
  /\ mounted = TRUE /\ guidedActive = FALSE /\ prevPhase = "idle"
  /\ guidedMarks = <<>> /\ pendingCueAt = 0 /\ series = 0
  /\ cues = 0 /\ confirmed = {} /\ silentRun = 0

-----------------------------------------------------------------------------
(* WizardHost.dispatch from state s with ledger l.                         *)

\* Events that leave the generic timer alone: the timeouts, whose timer has
\* just fired and is null, and CUE_DONE.
CancelsTimerOnlyOnEffect(e) == FALSE
CancelsTimer(e) == e \notin Timers \cup {"CUE_DONE"}

TimerAfter(e, r) ==
  IF r.state.phase \in Terminal THEN "none"
  ELSE IF r.arm # "none" THEN r.arm
  ELSE IF CancelsTimer(e) \/ e \in Timers THEN "none"
  ELSE timer

Dispatch(s, e, l) ==
  LET r == step(s, e) IN
    /\ fsm' = r.state
    /\ timer' = TimerAfter(e, r)
    /\ cueWatchdog' = /\ r.state.phase \notin Terminal
                      /\ r.cue \/ (cueWatchdog /\ e # "CUE_DONE")
    \* applyEffect reads this.state, which is the next state already.
    /\ ledger' = IF r.record = "none" THEN l
                 ELSE Append(l, [repIndex |-> r.state.repIndex,
                                 outcome  |-> r.record])
    /\ abandonReason' =
         IF r.state.phase # "abandoned"
         THEN IF e = "START" THEN "none" ELSE abandonReason
         ELSE IF r.state.silence >= SilenceGuard THEN "guard" ELSE "explicit"
    /\ cues' = (IF e = "START" THEN 0 ELSE cues) + (IF r.cue THEN 1 ELSE 0)

-----------------------------------------------------------------------------
(* HuntPanel.onHostPhase, run on what the host publishes.                  *)

\* Leaving feedback, the panel keeps the mark if the newest ledger entry is
\* good.
KeepsMarkNever == FALSE
KeepsMark ==
  /\ prevPhase = "feedback" /\ pendingCueAt # 0
  /\ ledger' # <<>> /\ ledger'[Len(ledger')].outcome = "good"

onHostPhase ==
  IF fsm'.phase = prevPhase
  THEN UNCHANGED panelVars
  ELSE /\ prevPhase' = fsm'.phase
       /\ guidedActive' = (guidedActive /\ fsm'.phase \notin Terminal)
       /\ pendingCueAt' =
            IF guidedActive /\ fsm'.phase = "feedback" THEN cues'
            ELSE IF guidedActive /\ prevPhase = "feedback" THEN 0
            ELSE pendingCueAt
       /\ guidedMarks' =
            IF guidedActive /\ KeepsMark
            THEN Append(guidedMarks,
                        [repIndex |-> ledger'[Len(ledger')].repIndex,
                         at       |-> pendingCueAt])
            ELSE guidedMarks

\* One event reaching the host of a series in progress.
Handle(e) ==
  /\ mounted
  /\ Dispatch(fsm, e, ledger)
  /\ onHostPhase
  /\ confirmed' = IF e = "SUCCESS" /\ fsm.phase = "feedback"
                  THEN confirmed \cup {cues} ELSE confirmed
  /\ silentRun' = IF e = "RETRY_TIMEOUT" THEN silentRun + 1
                  ELSE IF e \in Presses /\ fsm' # fsm THEN 0
                  ELSE silentRun
  /\ UNCHANGED <<active, mounted, series>>

-----------------------------------------------------------------------------
\* startGuided: fresh panel state, fresh host state, then START.  The overlay
\* is modal, so there is no series on screen.
Start ==
  /\ mounted /\ ~active
  /\ series < MaxSeries
  /\ series' = series + 1
  /\ active' = TRUE
  /\ Dispatch(initialState, "START", <<>>)
  /\ guidedMarks' = <<>> /\ pendingCueAt' = 0
  /\ prevPhase' = fsm'.phase
  /\ guidedActive' = (fsm'.phase \notin Terminal)
  /\ confirmed' = {} /\ silentRun' = 0
  /\ UNCHANGED mounted

\* The watchdog fires cueTotalMs plus a margin after the cue began.
CueDone == cueWatchdog /\ Handle("CUE_DONE")

\* The feedback or the retry window elapses.
TimerFires == timer # "none" /\ Handle(timer)

\* The buttons FeedbackOverlay shows in phase p; Escape is ABANDON.
Shown(p) ==
  CASE p = "cueing"      -> {"ABANDON"}
    [] p = "feedback"    -> {"SUCCESS", "FAIL", "ABANDON"}
    [] p = "retryPrompt" -> {"ABANDON", "SKIP"}
    [] OTHER             -> {}

RoomInLedger == Len(ledger) < MaxLedger

\* A press on the cockpit overlay, or a viewer's verdict relayed by the
\* backend; the panel hands the latter to the host in whatever phase it is.
Press(e) ==
  /\ e \in Shown(fsm.phase) \/ LateVerdicts
  /\ e # "ABANDON" => RoomInLedger
  /\ Handle(e)

\* "Done" / "Close" on a finished series: host.reset().
Close ==
  /\ mounted /\ active /\ fsm.phase \in Terminal
  /\ fsm' = initialState /\ timer' = "none" /\ cueWatchdog' = FALSE
  /\ ledger' = <<>> /\ abandonReason' = "none" /\ active' = FALSE
  /\ cues' = 0 /\ confirmed' = {} /\ silentRun' = 0
  /\ onHostPhase
  /\ UNCHANGED <<mounted, series>>

\* HuntPanel's onDestroy: unsubscribe, then host.destroy().
Destroy ==
  /\ mounted
  /\ mounted' = FALSE
  /\ timer' = "none" /\ cueWatchdog' = FALSE
  /\ UNCHANGED <<fsm, ledger, abandonReason, active, panelVars, series, cues,
                 confirmed, silentRun>>

Next == \/ Start \/ CueDone \/ TimerFires
        \/ \E e \in Presses : Press(e)
        \/ Close \/ Destroy

Spec == Init /\ [][Next]_vars

-----------------------------------------------------------------------------
(* Properties.                                                             *)

Running == mounted /\ fsm.phase \in {"cueing", "feedback", "retryPrompt"}

\* No timer outlives the window it was armed for, in any race of timeouts,
\* presses and restarts: a stale timeout would cut a later window short.
NoStaleTimer ==
  /\ timer = "FEEDBACK_TIMEOUT" => mounted /\ fsm.phase = "feedback"
  /\ timer = "RETRY_TIMEOUT" => mounted /\ fsm.phase = "retryPrompt"
  /\ cueWatchdog => mounted /\ fsm.phase = "cueing"

\* wizardHost.ts:243 "keeps exactly one feedback/retry timer live": every
\* phase of a running series has the timer that moves it on without a press.
ClockIsLive ==
  Running => /\ fsm.phase = "cueing" => cueWatchdog
             /\ fsm.phase = "feedback" => timer = "FEEDBACK_TIMEOUT"
             /\ fsm.phase = "retryPrompt" => timer = "RETRY_TIMEOUT"

\* The honest count (wizardHost.ts:39): the good trials the reducer counts are
\* those in the ledger, and a series is done exactly at its target.
CountsAgree ==
  /\ fsm.good = Cardinality({i \in DOMAIN ledger : ledger[i].outcome = "good"})
  /\ fsm.phase = "done" => fsm.good = Repetitions
  /\ Running => fsm.good < Repetitions

\* The reason shown is honest (WIZARD.md "Abandon reason from state"): "guard"
\* means SilenceGuard tests in a row went unanswered, and no series goes on
\* after that many.
ReasonHonest ==
  /\ abandonReason = "guard" <=>
       (fsm.phase = "abandoned" /\ silentRun >= SilenceGuard)
  /\ Running => silentRun < SilenceGuard

\* Each confirmed test has its mark when the series ends (HuntPanel.svelte:123,
\* "one action-instant ... confirmed on SUCCESS").
ConfirmedAreMarked ==
  active => \A n \in confirmed : \E i \in DOMAIN guidedMarks :
              guidedMarks[i].at = n

=============================================================================
