----------------------------- MODULE WizardFsm ------------------------------
(***************************************************************************)
(* frontend/shared/wizard-fsm.ts: the pure reducer of the per-trial loop.  *)
(* step(state, event) returns the next state and the side effects the host *)
(* carries out; here the effects a host acts upon are three fields: play   *)
(* the cue, arm one of the two timers, append an outcome to the ledger.    *)
(***************************************************************************)
EXTENDS Integers

CONSTANTS
  Repetitions,  \* config.repetitions: good trials that complete a series
  SilenceGuard  \* config.silenceGuard: consecutive silences that abandon it

ASSUME WizardConstants == Repetitions \in Nat /\ SilenceGuard \in Nat \ {0}

Phases   == {"idle", "cueing", "feedback", "retryPrompt", "done", "abandoned"}
Terminal == {"done", "abandoned"}
Timers   == {"FEEDBACK_TIMEOUT", "RETRY_TIMEOUT"}
Presses  == {"SUCCESS", "FAIL", "ABANDON", "SKIP"}
Events   == {"START", "CUE_DONE"} \cup Timers \cup Presses
Outcomes == {"good", "failed", "skipped"}
States   == [phase : Phases, repIndex : Nat, good : Nat, silence : Nat]

initialState == [phase |-> "idle", repIndex |-> 0, good |-> 0, silence |-> 0]

Result(s, cue, arm, record) ==
  [state |-> s, cue |-> cue, arm |-> arm, record |-> record]
noop(s)       == Result(s, FALSE, "none", "none")
Cue(s, o)     == Result([s EXCEPT !.phase = "cueing"], TRUE, "none", o)
Wait(s, p, t) == Result([s EXCEPT !.phase = p], FALSE, t, "none")
End(s, p, o)  == Result([s EXCEPT !.phase = p], FALSE, "none", o)

\* Any verdict ends a run of silences.
Answered(s) == [s EXCEPT !.silence = 0]

NextTest(s) == [s EXCEPT !.repIndex = @ + 1]

AbandonInPromptOnly(s) ==
  IF s.phase = "retryPrompt" THEN End(Answered(s), "abandoned", "none") ELSE noop(s)
abandon(s) == End(Answered(s), "abandoned", "none")

\* Record a good trial; finish the series or cue the next test.
GoodPastTarget(s) ==
  LET g == [Answered(s) EXCEPT !.good = @ + 1]
  IN  IF s.good > Repetitions THEN End(g, "done", "good")
      ELSE Cue(NextTest(g), "good")
advanceAfterGood(s) ==
  LET g == [Answered(s) EXCEPT !.good = @ + 1]
  IN  IF g.good >= Repetitions THEN End(g, "done", "good")
      ELSE Cue(NextTest(g), "good")

advanceAfterSkip(s) == Cue(NextTest(Answered(s)), "skipped")

ReplayUncued(s, o) ==
  Result([Answered(s) EXCEPT !.phase = "cueing"], FALSE, "none", o)
replaySameTest(s, o) == Cue(Answered(s), o)

\* Silence in the retry prompt: replay, or give up at the guard.
ReplayForever(s) == Cue(s, "none")
ReplayOrGiveUp(s) ==
  LET q == [s EXCEPT !.silence = @ + 1]
  IN  IF q.silence >= SilenceGuard THEN End(q, "abandoned", "none")
      ELSE Cue(q, "none")

step(s, e) ==
  CASE s.phase = "idle" /\ e = "START" ->
         IF Repetitions = 0 THEN End(s, "done", "none") ELSE Cue(s, "none")
    [] s.phase = "cueing" /\ e = "CUE_DONE" ->
         Wait(s, "feedback", "FEEDBACK_TIMEOUT")
    [] s.phase = "feedback" /\ e = "SUCCESS" -> advanceAfterGood(s)
    [] s.phase = "feedback" /\ e = "FAIL" -> replaySameTest(s, "failed")
    [] s.phase = "feedback" /\ e = "FEEDBACK_TIMEOUT" ->
         Wait(s, "retryPrompt", "RETRY_TIMEOUT")
    [] s.phase = "retryPrompt" /\ e = "SKIP" -> advanceAfterSkip(s)
    [] s.phase = "retryPrompt" /\ e = "RETRY_TIMEOUT" -> ReplayOrGiveUp(s)
    [] s.phase \in {"cueing", "feedback", "retryPrompt"} /\ e = "ABANDON" ->
         abandon(s)
    [] OTHER -> noop(s)
=============================================================================
