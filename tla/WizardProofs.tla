---------------------------- MODULE WizardProofs ----------------------------
(***************************************************************************)
(* Proofs about WizardHost, for every number of repetitions, every silence *)
(* guard and every arrival of late verdicts; and about WizardRelay, where  *)
(* the host beside a phone is such a host and the phone tells the truth.   *)
(***************************************************************************)
EXTENDS WizardRelay, SequenceTheorems, FiniteSetTheorems, TLAPS

\* What a result of the reducer promises: it is well typed, a cue is asked for
\* only in cueing, and a timer only in the phase it times.
GoodResult(r) ==
  /\ r.state \in States
  /\ r.cue \in BOOLEAN
  /\ r.arm \in Timers \cup {"none"}
  /\ r.record \in Outcomes \cup {"none"}
  /\ r.cue => r.state.phase = "cueing"
  /\ r.arm = "FEEDBACK_TIMEOUT" => r.state.phase = "feedback"
  /\ r.arm = "RETRY_TIMEOUT" => r.state.phase = "retryPrompt"

\* The updates the reducer makes of a state lead to states.
LEMMA UpdateStates ==
  ASSUME NEW s \in States
  PROVE  /\ Answered(s) \in States
         /\ NextTest(s) \in States
         /\ [s EXCEPT !.good = @ + 1] \in States
         /\ [s EXCEPT !.silence = @ + 1] \in States
<1>1. Answered(s) \in States
  BY DEF States, Answered
<1>2. NextTest(s) \in States
  BY DEF States, NextTest
<1>3. [s EXCEPT !.good = @ + 1] \in States
  BY DEF States
<1>4. [s EXCEPT !.silence = @ + 1] \in States
  BY DEF States
<1> QED BY <1>1, <1>2, <1>3, <1>4

\* Going to a cue, from any state, is a good result.
LEMMA CueResult ==
  ASSUME NEW s \in States, NEW o \in Outcomes \cup {"none"}
  PROVE  GoodResult(Cue(s, o))
BY DEF GoodResult, Cue, Result, States, Phases, Timers

\* So is waiting for an answer, with the timer of that wait.
LEMMA WaitResult ==
  ASSUME NEW s \in States
  PROVE  /\ GoodResult(Wait(s, "feedback", "FEEDBACK_TIMEOUT"))
         /\ GoodResult(Wait(s, "retryPrompt", "RETRY_TIMEOUT"))
BY DEF GoodResult, Wait, Result, States, Phases, Timers, Outcomes

\* So is ending the wizard.
LEMMA EndResult ==
  ASSUME NEW s \in States, NEW p \in Terminal, NEW o \in Outcomes \cup {"none"}
  PROVE  GoodResult(End(s, p, o))
BY DEF GoodResult, End, Result, States, Phases, Terminal, Timers

\* So is every answer of the reducer.
LEMMA StepResult ==
  ASSUME NEW s \in States, NEW e \in Events
  PROVE  GoodResult(step(s, e))
<1> USE DEF Outcomes, Terminal
<1>1. GoodResult(noop(s))
  BY DEF GoodResult, noop, Result, Timers
<1>2. GoodResult(advanceAfterGood(s))
  <2> DEFINE a == Answered(s)
             g == [a EXCEPT !.good = @ + 1]
  <2>1. a \in States
    BY UpdateStates
  <2> HIDE DEF a
  <2>2. g \in States
    BY <2>1, UpdateStates
  <2> HIDE DEF g
  <2>3. NextTest(g) \in States
    BY <2>2, UpdateStates
  <2>4. GoodResult(End(g, "done", "good"))
    BY <2>2, EndResult
  <2>5. GoodResult(Cue(NextTest(g), "good"))
    BY <2>3, CueResult
  <2> QED BY <2>4, <2>5 DEF advanceAfterGood, g, a
<1>3. GoodResult(advanceAfterSkip(s))
  BY UpdateStates, CueResult DEF advanceAfterSkip
<1>4. GoodResult(replaySameTest(s, "failed"))
  BY UpdateStates, CueResult DEF replaySameTest
<1>5. GoodResult(ReplayOrGiveUp(s))
  <2> DEFINE q == [s EXCEPT !.silence = @ + 1]
  <2>1. q \in States
    BY UpdateStates
  <2>2. GoodResult(End(q, "abandoned", "none")) /\ GoodResult(Cue(q, "none"))
    BY <2>1, EndResult, CueResult
  <2> QED BY <2>2 DEF ReplayOrGiveUp
<1>6. GoodResult(abandon(s))
  BY UpdateStates, EndResult DEF abandon
<1>7. GoodResult(End(s, "done", "none")) /\ GoodResult(Cue(s, "none"))
  BY EndResult, CueResult
<1> HIDE DEF Outcomes, Terminal
<1>8. QED
  BY <1>1, <1>2, <1>3, <1>4, <1>5, <1>6, <1>7, WaitResult DEF step

-----------------------------------------------------------------------------
(* What step does to the counts, by the helper that produces its result.   *)

InSeries == {"cueing", "feedback", "retryPrompt"}

\* The fields of s that a helper leaves alone.
LEMMA UpdateFields ==
  ASSUME NEW s \in States
  PROVE  /\ Answered(s).phase = s.phase /\ Answered(s).good = s.good
         /\ Answered(s).silence = 0
         /\ NextTest(s).phase = s.phase /\ NextTest(s).good = s.good
         /\ NextTest(s).silence = s.silence
         /\ [s EXCEPT !.good = @ + 1].good = s.good + 1
         /\ [s EXCEPT !.good = @ + 1].silence = s.silence
         /\ [s EXCEPT !.silence = @ + 1].good = s.good
         /\ [s EXCEPT !.silence = @ + 1].silence = s.silence + 1
<1>1. /\ Answered(s).phase = s.phase /\ Answered(s).good = s.good
      /\ Answered(s).silence = 0
  BY DEF States, Answered
<1>2. /\ NextTest(s).phase = s.phase /\ NextTest(s).good = s.good
      /\ NextTest(s).silence = s.silence
  BY DEF States, NextTest
<1>3. /\ [s EXCEPT !.good = @ + 1].good = s.good + 1
      /\ [s EXCEPT !.good = @ + 1].silence = s.silence
  BY DEF States
<1>4. /\ [s EXCEPT !.silence = @ + 1].good = s.good
      /\ [s EXCEPT !.silence = @ + 1].silence = s.silence + 1
  BY DEF States
<1> QED BY <1>1, <1>2, <1>3, <1>4

\* The result r is in phase p, with g good trials and q silences, and records o.
Yields(r, p, g, q, o) ==
  /\ r.state.phase = p /\ r.state.good = g /\ r.state.silence = q
  /\ r.record = o

\* What the three kinds of result hold.
LEMMA ResultFields ==
  ASSUME NEW s \in States, NEW o \in Outcomes \cup {"none"},
         NEW p \in Phases, NEW t \in Timers
  PROVE  /\ Yields(Cue(s, o), "cueing", s.good, s.silence, o) /\ Cue(s, o).cue
         /\ Yields(End(s, p, o), p, s.good, s.silence, o)
         /\ Yields(Wait(s, p, t), p, s.good, s.silence, "none")
         /\ Wait(s, p, t).arm = t
<1>1. Yields(Cue(s, o), "cueing", s.good, s.silence, o) /\ Cue(s, o).cue
  BY DEF Yields, Cue, Result, States
<1>2. Yields(End(s, p, o), p, s.good, s.silence, o)
  BY DEF Yields, End, Result, States
<1>3. /\ Yields(Wait(s, p, t), p, s.good, s.silence, "none")
      /\ Wait(s, p, t).arm = t
  BY DEF Yields, Wait, Result, States
<1> QED BY <1>1, <1>2, <1>3

Unmoved(s, r) ==
  r.state = s /\ r.cue = FALSE /\ r.arm = "none" /\ r.record = "none"

\* Every step of the reducer, seen from outside.
StepShape(s, e, r) ==
  \/ /\ Unmoved(s, r)
     /\ <<s.phase, e>> \notin {<<"idle", "START">>, <<"cueing", "CUE_DONE">>,
                              <<"feedback", "SUCCESS">>,
                              <<"feedback", "FEEDBACK_TIMEOUT">>,
                              <<"retryPrompt", "RETRY_TIMEOUT">>}
  \/ /\ s.phase = "idle" /\ e = "START"
     /\ \/ Repetitions = 0 /\ Yields(r, "done", s.good, s.silence, "none")
        \/ /\ Repetitions # 0 /\ r.cue
           /\ Yields(r, "cueing", s.good, s.silence, "none")
  \/ /\ s.phase = "cueing" /\ e = "CUE_DONE" /\ r.arm = "FEEDBACK_TIMEOUT"
     /\ Yields(r, "feedback", s.good, s.silence, "none")
  \/ /\ s.phase = "feedback" /\ e = "SUCCESS"
     /\ \/ /\ s.good + 1 >= Repetitions
           /\ Yields(r, "done", s.good + 1, 0, "good")
        \/ /\ s.good + 1 < Repetitions
           /\ Yields(r, "cueing", s.good + 1, 0, "good")
  \/ /\ s.phase = "feedback" /\ e = "FAIL"
     /\ Yields(r, "cueing", s.good, 0, "failed")
  \/ /\ s.phase = "feedback" /\ e = "FEEDBACK_TIMEOUT"
     /\ r.arm = "RETRY_TIMEOUT"
     /\ Yields(r, "retryPrompt", s.good, s.silence, "none")
  \/ /\ s.phase = "retryPrompt" /\ e = "SKIP"
     /\ Yields(r, "cueing", s.good, 0, "skipped")
  \/ /\ s.phase = "retryPrompt" /\ e = "RETRY_TIMEOUT"
     /\ \/ /\ s.silence + 1 >= SilenceGuard
           /\ Yields(r, "abandoned", s.good, s.silence + 1, "none")
        \/ /\ s.silence + 1 < SilenceGuard
           /\ Yields(r, "cueing", s.good, s.silence + 1, "none")
  \/ /\ s.phase \in InSeries /\ e = "ABANDON"
     /\ Yields(r, "abandoned", s.good, 0, "none")

\* A good trial ends the wizard at the last repetition and cues the next one before it.
LEMMA GoodShape ==
  ASSUME NEW s \in States
  PROVE  \/ /\ s.good + 1 >= Repetitions
            /\ Yields(advanceAfterGood(s), "done", s.good + 1, 0, "good")
         \/ /\ s.good + 1 < Repetitions
            /\ Yields(advanceAfterGood(s), "cueing", s.good + 1, 0, "good")
<1> DEFINE a == Answered(s)
           g == [a EXCEPT !.good = @ + 1]
           n == NextTest(g)
<1>1. a \in States /\ a.good = s.good /\ a.silence = 0
  BY UpdateStates, UpdateFields
<1> HIDE DEF a
<1>2. g \in States /\ g.good = s.good + 1 /\ g.silence = 0
  BY ZenonT(90), <1>1, UpdateStates, UpdateFields
<1> HIDE DEF g
<1>3. n \in States /\ n.good = s.good + 1 /\ n.silence = 0
  BY <1>2, UpdateStates, UpdateFields
<1> HIDE DEF n
<1>4. Yields(End(g, "done", "good"), "done", s.good + 1, 0, "good")
  BY <1>2, ResultFields DEF Outcomes, Phases, Timers
<1>5. Yields(Cue(n, "good"), "cueing", s.good + 1, 0, "good")
  BY <1>3, ResultFields DEF Outcomes, Phases, Timers
<1>6. advanceAfterGood(s) = IF g.good >= Repetitions THEN End(g, "done", "good")
                            ELSE Cue(n, "good")
  BY DEF advanceAfterGood, n, g, a
<1>7. s.good + 1 \in Nat /\ Repetitions \in Nat
  BY WizardConstants DEF States
<1>8. CASE s.good + 1 >= Repetitions
  BY <1>2, <1>4, <1>6, <1>8
<1>9. CASE ~(s.good + 1 >= Repetitions)
  <2>1. s.good + 1 < Repetitions
    BY <1>7, <1>9
  <2>2. advanceAfterGood(s) = Cue(n, "good")
    BY <1>2, <1>6, <1>9
  <2> QED BY <2>1, <2>2, <1>5
<1> QED BY <1>8, <1>9

\* A silence ends the wizard at the guard and replays the cue before it.
LEMMA SilenceShape ==
  ASSUME NEW s \in States
  PROVE  \/ /\ s.silence + 1 >= SilenceGuard
            /\ Yields(ReplayOrGiveUp(s), "abandoned", s.good, s.silence + 1, "none")
         \/ /\ s.silence + 1 < SilenceGuard
            /\ Yields(ReplayOrGiveUp(s), "cueing", s.good, s.silence + 1, "none")
<1> DEFINE q == [s EXCEPT !.silence = @ + 1]
<1>1. q \in States /\ q.good = s.good /\ q.silence = s.silence + 1
  BY UpdateStates, UpdateFields
<1> HIDE DEF q
<1>2. Yields(End(q, "abandoned", "none"), "abandoned", s.good, s.silence + 1, "none")
  BY <1>1, ResultFields DEF Outcomes, Phases, Timers
<1>3. Yields(Cue(q, "none"), "cueing", s.good, s.silence + 1, "none")
  BY <1>1, ResultFields DEF Outcomes, Phases, Timers
<1>4. ReplayOrGiveUp(s) = IF q.silence >= SilenceGuard
                          THEN End(q, "abandoned", "none") ELSE Cue(q, "none")
  BY DEF ReplayOrGiveUp, q
<1>5. s.silence + 1 \in Nat /\ SilenceGuard \in Nat
  BY WizardConstants DEF States
<1>6. CASE s.silence + 1 >= SilenceGuard
  BY <1>1, <1>2, <1>4, <1>6
<1>7. CASE ~(s.silence + 1 >= SilenceGuard)
  <2>1. s.silence + 1 < SilenceGuard
    BY <1>5, <1>7
  <2>2. ReplayOrGiveUp(s) = Cue(q, "none")
    BY SMTT(60), <1>1, <1>4, <1>7
  <2> QED BY <2>1, <2>2, <1>3
<1> QED BY <1>6, <1>7

\* The reducer's answer, event by event.
LEMMA StepHasShape ==
  ASSUME NEW s \in States, NEW e \in Events
  PROVE  StepShape(s, e, step(s, e))
<1> USE DEF StepShape
<1>0. Answered(s) \in States /\ NextTest(Answered(s)) \in States
  BY UpdateStates
<1>1. CASE s.phase = "idle" /\ e = "START"
  <2>1. step(s, e) = IF Repetitions = 0 THEN End(s, "done", "none") ELSE Cue(s, "none")
    BY <1>1 DEF step
  <2> QED BY <1>1, <2>1, ResultFields DEF Outcomes, Phases, Timers
<1>2. CASE s.phase = "cueing" /\ e = "CUE_DONE"
  <2>1. step(s, e) = Wait(s, "feedback", "FEEDBACK_TIMEOUT")
    BY <1>2 DEF step
  <2> QED BY <1>2, <2>1, ResultFields DEF Outcomes, Phases, Timers
<1>3. CASE s.phase = "feedback" /\ e = "SUCCESS"
  <2>1. step(s, e) = advanceAfterGood(s)
    BY <1>3 DEF step
  <2> QED BY <1>3, <2>1, GoodShape
<1>4. CASE s.phase = "feedback" /\ e = "FAIL"
  <2>1. step(s, e) = Cue(Answered(s), "failed")
    BY <1>4 DEF step, replaySameTest
  <2> QED BY <1>0, <1>4, <2>1, ResultFields, UpdateFields DEF Outcomes, Phases, Timers
<1>5. CASE s.phase = "feedback" /\ e = "FEEDBACK_TIMEOUT"
  <2>1. step(s, e) = Wait(s, "retryPrompt", "RETRY_TIMEOUT")
    BY <1>5 DEF step
  <2> QED BY <1>5, <2>1, ResultFields DEF Outcomes, Phases, Timers
<1>6. CASE s.phase = "retryPrompt" /\ e = "SKIP"
  <2>1. step(s, e) = Cue(NextTest(Answered(s)), "skipped")
    BY <1>6 DEF step, advanceAfterSkip
  <2>2. /\ NextTest(Answered(s)).good = s.good
        /\ NextTest(Answered(s)).silence = 0
    BY <1>0, UpdateFields
  <2> QED BY <1>0, <1>6, <2>1, <2>2, ResultFields DEF Outcomes, Phases, Timers
<1>7. CASE s.phase = "retryPrompt" /\ e = "RETRY_TIMEOUT"
  <2>1. step(s, e) = ReplayOrGiveUp(s)
    BY <1>7 DEF step
  <2> QED BY <1>7, <2>1, SilenceShape
<1>8. CASE s.phase \in InSeries /\ e = "ABANDON"
  <2>1. step(s, e) = End(Answered(s), "abandoned", "none")
    BY <1>8 DEF step, abandon, InSeries
  <2> QED BY <1>0, <1>8, <2>1, ResultFields, UpdateFields DEF Outcomes, Phases, Timers
<1>9. CASE /\ <<s.phase, e>> \notin
                {<<"idle", "START">>, <<"cueing", "CUE_DONE">>,
                 <<"feedback", "SUCCESS">>, <<"feedback", "FAIL">>,
                 <<"feedback", "FEEDBACK_TIMEOUT">>, <<"retryPrompt", "SKIP">>,
                 <<"retryPrompt", "RETRY_TIMEOUT">>}
           /\ ~(s.phase \in InSeries /\ e = "ABANDON")
  <2>1. step(s, e) = noop(s)
    BY <1>9 DEF step, InSeries
  <2>2. Unmoved(s, noop(s))
    BY DEF Unmoved, noop, Result
  <2> QED BY <1>9, <2>1, <2>2
<1> QED
  BY <1>1, <1>2, <1>3, <1>4, <1>5, <1>6, <1>7, <1>8, <1>9

-----------------------------------------------------------------------------
(* The inductive invariant.                                                *)

Goods(l) == {i \in DOMAIN l : l[i].outcome = "good"}

\* CountsAgree without the mounted panel: destroy() leaves the state as it is.
CountInv ==
  /\ fsm.good = Cardinality(Goods(ledger))
  /\ fsm.phase = "idle" => fsm.good = 0
  /\ fsm.phase = "done" => fsm.good = Repetitions
  /\ fsm.phase \in InSeries => fsm.good < Repetitions

\* The reducer's silence counter is the run of silences that happened.
SilenceInv ==
  /\ silentRun = fsm.silence
  /\ abandonReason = "guard" <=>
       (fsm.phase = "abandoned" /\ fsm.silence >= SilenceGuard)
  /\ fsm.phase \in InSeries => fsm.silence < SilenceGuard

IInv == TypeOK /\ NoStaleTimer /\ CountInv /\ SilenceInv

\* Appending a record adds one to the goods, or none.
LEMMA GoodsAppend ==
  ASSUME NEW l \in Seq(TrialRecords), NEW t \in TrialRecords
  PROVE  /\ Cardinality(Goods(l)) \in Nat
         /\ Cardinality(Goods(Append(l, t)))
              = Cardinality(Goods(l)) + (IF t.outcome = "good" THEN 1 ELSE 0)
<1> DEFINE n == Len(l)
           m == Append(l, t)
<1>1. /\ n \in Nat /\ DOMAIN l = 1 .. n /\ DOMAIN m = 1 .. n + 1
      /\ \A i \in 1 .. n : m[i] = l[i]
      /\ m[n + 1] = t
  BY DEF TrialRecords
<1>2. IsFiniteSet(Goods(l)) /\ Cardinality(Goods(l)) \in Nat
  <2>1. Goods(l) \subseteq 1 .. n
    BY <1>1 DEF Goods
  <2>2. IsFiniteSet(1 .. n)
    BY <1>1, FS_Interval
  <2> QED BY <2>1, <2>2, FS_Subset, FS_CardinalityType
<1>3. CASE t.outcome = "good"
  <2>1. Goods(m) = Goods(l) \cup {n + 1}
    BY <1>1, <1>3 DEF Goods
  <2>2. n + 1 \notin Goods(l)
    BY <1>1 DEF Goods
  <2> QED BY <1>2, <1>3, <2>1, <2>2, FS_AddElement
<1>4. CASE t.outcome # "good"
  <2>1. Goods(m) = Goods(l)
    BY <1>1, <1>4 DEF Goods
  <2> QED BY <1>2, <1>4, <2>1
<1> QED BY <1>2, <1>3, <1>4

\* The empty ledger holds no good trial.
LEMMA NoGoods == Cardinality(Goods(<<>>)) = 0
<1>1. Goods(<<>>) = {}
  BY DEF Goods
<1> QED BY <1>1, FS_EmptySet

\* A dispatch from a state whose ledger agrees with it leaves such a state,
\* and records what the reducer asked for.
LEMMA DispatchCounts ==
  ASSUME NEW s \in States, NEW e \in Events, NEW l \in Seq(TrialRecords),
         s.good = Cardinality(Goods(l)),
         s.phase = "done" => s.good = Repetitions,
         s.phase \in InSeries => s.good < Repetitions,
         s.phase = "idle" => s.good = 0,
         Dispatch(s, e, l)
  PROVE  fsm' \in States /\ ledger' \in Seq(TrialRecords) /\ CountInv'
<1> DEFINE r == step(s, e)
<1>1. StepShape(s, e, r) /\ GoodResult(r)
  BY StepHasShape, StepResult
<1> HIDE DEF r
<1>2. /\ fsm' = r.state
      /\ ledger' = IF r.record = "none" THEN l
                   ELSE Append(l, [repIndex |-> r.state.repIndex,
                                   outcome  |-> r.record])
  BY DEF Dispatch, r
<1>3. fsm' \in States
  BY <1>1, <1>2 DEF GoodResult
<1> DEFINE t == [repIndex |-> r.state.repIndex, outcome |-> r.record]
<1>4. r.record # "none" => t \in TrialRecords
  BY <1>1 DEF GoodResult, States, TrialRecords
<1>5. /\ s.good \in Nat /\ Repetitions \in Nat
      /\ s.phase \in Phases
  BY WizardConstants DEF States
<1>6. ledger' \in Seq(TrialRecords)
  BY <1>2, <1>4
<1>7. fsm'.good = Cardinality(Goods(ledger'))
  <2>1. r.state.good = s.good + (IF r.record = "good" THEN 1 ELSE 0)
    BY <1>1, <1>5 DEF StepShape, Unmoved, Yields
  <2>2. CASE r.record = "none"
    BY <1>2, <1>5, <2>1, <2>2
  <2>3. CASE r.record # "none"
    <3>1. t \in TrialRecords
      BY <1>4, <2>3
    <3>2. Cardinality(Goods(ledger'))
            = Cardinality(Goods(l)) + (IF r.record = "good" THEN 1 ELSE 0)
      BY <1>2, <2>3, <3>1, GoodsAppend
    <3> QED BY <1>2, <2>1, <3>2
  <2> QED BY <2>2, <2>3
<1>8. fsm'.phase = "done" => fsm'.good = Repetitions
  <2>1. CASE Unmoved(s, r)
    BY <1>2, <2>1 DEF Unmoved
  <2>2. CASE ~Unmoved(s, r)
    BY <1>1, <1>2, <1>5, <2>2 DEF StepShape, Yields, InSeries
  <2> QED BY <2>1, <2>2
<1>9. fsm'.phase \in InSeries => fsm'.good < Repetitions
  BY <1>1, <1>2, <1>5 DEF StepShape, Unmoved, Yields, InSeries
<1>10. fsm'.phase = "idle" => fsm'.good = 0
  BY <1>1, <1>2, <1>5 DEF StepShape, Unmoved, Yields
<1> QED BY <1>3, <1>6, <1>7, <1>8, <1>9, <1>10 DEF CountInv

\* The host's other variables stay well typed.
LEMMA DispatchTypes ==
  ASSUME NEW s \in States, NEW e \in Events, NEW l \in Seq(TrialRecords),
         TypeOK, Dispatch(s, e, l)
  PROVE  /\ timer' \in Timers \cup {"none"} /\ cueWatchdog' \in BOOLEAN
         /\ abandonReason' \in {"none", "guard", "explicit"}
         /\ cues' \in Nat
<1> DEFINE r == step(s, e)
<1>1. GoodResult(r)
  BY StepResult
<1> HIDE DEF r
<1>2. timer' = TimerAfter(e, r)
  BY DEF Dispatch, r
<1>3. timer' \in Timers \cup {"none"}
  BY <1>1, <1>2 DEF TimerAfter, GoodResult, TypeOK
<1>4. cueWatchdog' \in BOOLEAN
  BY DEF Dispatch
<1>5. abandonReason' \in {"none", "guard", "explicit"}
  BY DEF Dispatch, TypeOK
<1>6. cues' = (IF e = "START" THEN 0 ELSE cues) + (IF r.cue THEN 1 ELSE 0)
  BY DEF Dispatch, r
<1>7. cues' \in Nat
  BY <1>6 DEF TypeOK
<1> QED BY <1>3, <1>4, <1>5, <1>7

\* The timers of the phase that a dispatched event leads to.
LEMMA DispatchTimers ==
  ASSUME NEW s \in States, NEW e \in Events, NEW l \in Seq(TrialRecords),
         TypeOK, Dispatch(s, e, l),
         e = "CUE_DONE" => s.phase = "cueing",
         cueWatchdog => s.phase = "cueing" \/ e = "START",
         e = "START" => ~cueWatchdog,
         e \in Timers => s.phase # "cueing"
  PROVE  /\ timer' = "FEEDBACK_TIMEOUT" => fsm'.phase = "feedback"
         /\ timer' = "RETRY_TIMEOUT" => fsm'.phase = "retryPrompt"
         /\ cueWatchdog' => fsm'.phase = "cueing"
<1> DEFINE r == step(s, e)
<1>1. StepShape(s, e, r) /\ GoodResult(r)
  BY StepHasShape, StepResult
<1> HIDE DEF r
<1>2. /\ fsm' = r.state /\ timer' = TimerAfter(e, r)
      /\ cueWatchdog' = /\ r.state.phase \notin Terminal
                        /\ r.cue \/ (cueWatchdog /\ e # "CUE_DONE")
  BY DEF Dispatch, r
<1>3. e = "CUE_DONE" => r.arm = "FEEDBACK_TIMEOUT"
  BY <1>1 DEF StepShape, InSeries
<1>4. timer' # "none" => timer' = r.arm
  BY <1>2, <1>3 DEF TimerAfter, CancelsTimer, Timers
<1>5. /\ timer' = "FEEDBACK_TIMEOUT" => fsm'.phase = "feedback"
      /\ timer' = "RETRY_TIMEOUT" => fsm'.phase = "retryPrompt"
  BY <1>1, <1>2, <1>4 DEF GoodResult
<1>6. ASSUME cueWatchdog' PROVE fsm'.phase = "cueing"
  <2>1. CASE r.cue
    BY <1>1, <1>2, <2>1 DEF GoodResult
  <2>2. CASE ~r.cue
    <3>1. cueWatchdog /\ e # "CUE_DONE" /\ r.state.phase \notin Terminal
      BY <1>2, <1>6, <2>2
    <3>2. s.phase = "cueing" /\ e # "START" /\ e \notin Timers
      BY <3>1
    <3>3. r.state.phase \in {"cueing"} \cup Terminal
      BY <1>1, <3>1, <3>2
         DEF StepShape, Unmoved, Yields, InSeries, Terminal, Timers
    <3> QED BY <1>2, <3>1, <3>3
  <2> QED BY <2>1, <2>2
<1> QED BY <1>5, <1>6

\* The panel's variables stay well typed.
LEMMA PanelTypes ==
  ASSUME TypeOK, fsm' \in States, ledger' \in Seq(TrialRecords), cues' \in Nat,
         onHostPhase
  PROVE  /\ guidedActive' \in BOOLEAN /\ prevPhase' \in Phases \cup {"none"}
         /\ pendingCueAt' \in Nat
         /\ guidedMarks' \in Seq([repIndex : Nat, at : Nat])
<1>1. CASE fsm'.phase = prevPhase
  BY <1>1 DEF onHostPhase, panelVars, TypeOK
<1>2. CASE fsm'.phase # prevPhase
  <2>1. prevPhase' \in Phases /\ guidedActive' \in BOOLEAN
    BY <1>2 DEF onHostPhase, TypeOK, States
  <2>2. pendingCueAt' \in Nat
    BY <1>2 DEF onHostPhase, TypeOK
  <2>3. guidedMarks' \in Seq([repIndex : Nat, at : Nat])
    <3>1. CASE guidedActive /\ KeepsMark
      <4> DEFINE n == Len(ledger')
                 m == [repIndex |-> ledger'[n].repIndex, at |-> pendingCueAt]
      <4>1. ledger' # <<>>
        BY <3>1 DEF KeepsMark
      <4>2. n \in 1 .. n /\ DOMAIN ledger' = 1 .. n
        BY <4>1, EmptySeq, LenProperties
      <4>3. ledger'[n] \in TrialRecords
        BY <4>2, ElementOfSeq
      <4>4. m \in [repIndex : Nat, at : Nat]
        BY <4>3 DEF TrialRecords, TypeOK
      <4>5. guidedMarks' = Append(guidedMarks, m)
        BY <1>2, <3>1 DEF onHostPhase
      <4> QED BY <4>4, <4>5 DEF TypeOK
    <3>2. CASE ~(guidedActive /\ KeepsMark)
      BY <1>2, <3>2 DEF onHostPhase, TypeOK
    <3> QED BY <3>1, <3>2
  <2> QED BY <2>1, <2>2, <2>3
<1> QED BY <1>1, <1>2

-----------------------------------------------------------------------------
(* The invariant is inductive.                                             *)

\* An event reaches the host of a series only while the timer it comes from
\* is pending.
Timely(e) ==
  /\ e \in Events \ {"START"}
  /\ e = "CUE_DONE" => cueWatchdog
  /\ e \in Timers => timer = e

\* Silences counted stay below the guard while the wizard runs.
LEMMA HandleSilence ==
  ASSUME IInv, NEW e \in Events, Timely(e), Handle(e)
  PROVE  SilenceInv'
<1> DEFINE r == step(fsm, e)
<1>1. fsm \in States /\ NoStaleTimer /\ SilenceInv
  BY DEF IInv, TypeOK
<1>2. StepShape(fsm, e, r)
  BY <1>1, StepHasShape
<1> HIDE DEF r
<1>3. /\ fsm' = r.state
      /\ abandonReason' =
           IF r.state.phase # "abandoned"
           THEN IF e = "START" THEN "none" ELSE abandonReason
           ELSE IF r.state.silence >= SilenceGuard THEN "guard" ELSE "explicit"
  BY DEF Handle, Dispatch, r
<1>4. silentRun' = IF e = "RETRY_TIMEOUT" THEN silentRun + 1
                   ELSE IF e \in Presses /\ fsm' # fsm THEN 0
                   ELSE silentRun
  BY DEF Handle
<1>5. /\ e = "RETRY_TIMEOUT" => fsm.phase = "retryPrompt"
      /\ e = "FEEDBACK_TIMEOUT" => fsm.phase = "feedback"
      /\ e # "START"
  BY <1>1 DEF Timely, NoStaleTimer, Timers
<1>6. fsm.silence \in Nat /\ SilenceGuard \in Nat \ {0} /\ silentRun = fsm.silence
  BY <1>1, WizardConstants DEF States, SilenceInv
<1>7. CASE Unmoved(fsm, r) /\ e # "RETRY_TIMEOUT"
  <2>1. fsm' = fsm /\ silentRun' = silentRun
    BY <1>3, <1>4, <1>7 DEF Unmoved
  <2>2. abandonReason' = "guard" <=>
          (fsm.phase = "abandoned" /\ fsm.silence >= SilenceGuard)
    BY <1>1, <1>3, <1>5, <1>7 DEF Unmoved, SilenceInv
  <2> QED BY <1>1, <2>1, <2>2 DEF SilenceInv
<1>8. CASE ~(Unmoved(fsm, r) /\ e # "RETRY_TIMEOUT")
  <2>1. fsm'.phase # fsm.phase /\ fsm.phase \in InSeries
    BY <1>2, <1>3, <1>5, <1>8 DEF StepShape, Yields, InSeries
  <2>2. fsm' # fsm
    BY <2>1
  <2>3. silentRun' = fsm'.silence
    BY <1>2, <1>3, <1>4, <1>5, <1>6, <1>8, <2>2
       DEF StepShape, Yields, Presses, InSeries
  <2>4. fsm'.phase \in InSeries => fsm'.silence < SilenceGuard
    BY <1>1, <1>2, <1>3, <1>5, <1>6, <1>8
       DEF StepShape, Yields, InSeries, SilenceInv
  <2>5. abandonReason # "guard"
    BY <1>1, <2>1 DEF SilenceInv, InSeries
  <2>6. abandonReason' = "guard" <=>
          (fsm'.phase = "abandoned" /\ fsm'.silence >= SilenceGuard)
    BY <1>3, <1>5, <2>5
  <2> QED BY <2>3, <2>4, <2>6 DEF SilenceInv
<1> QED BY <1>7, <1>8

\* An event the host hands to the reducer keeps the invariant.
LEMMA HandleKeeps ==
  ASSUME IInv, NEW e \in Events, Timely(e), Handle(e)
  PROVE  IInv'
<1>1. /\ TypeOK /\ NoStaleTimer /\ CountInv
      /\ fsm \in States /\ ledger \in Seq(TrialRecords)
      /\ Dispatch(fsm, e, ledger) /\ onHostPhase /\ mounted
  BY DEF IInv, TypeOK, Handle
<1>2. fsm' \in States /\ ledger' \in Seq(TrialRecords) /\ CountInv'
  BY <1>1, DispatchCounts DEF CountInv
<1>3. /\ timer' \in Timers \cup {"none"} /\ cueWatchdog' \in BOOLEAN
      /\ abandonReason' \in {"none", "guard", "explicit"} /\ cues' \in Nat
  BY <1>1, DispatchTypes
<1>4. /\ guidedActive' \in BOOLEAN /\ prevPhase' \in Phases \cup {"none"}
      /\ pendingCueAt' \in Nat
      /\ guidedMarks' \in Seq([repIndex : Nat, at : Nat])
  BY <1>1, <1>2, <1>3, PanelTypes
<1>5. /\ active' = active /\ mounted' = mounted /\ series' = series
      /\ confirmed' \subseteq Nat /\ silentRun' \in Nat
  BY <1>1 DEF Handle, TypeOK
<1>6. TypeOK'
  BY <1>1, <1>2, <1>3, <1>4, <1>5 DEF TypeOK
<1>7. /\ timer' = "FEEDBACK_TIMEOUT" => fsm'.phase = "feedback"
      /\ timer' = "RETRY_TIMEOUT" => fsm'.phase = "retryPrompt"
      /\ cueWatchdog' => fsm'.phase = "cueing"
  <2>1. /\ e = "CUE_DONE" => fsm.phase = "cueing"
        /\ cueWatchdog => fsm.phase = "cueing"
        /\ e # "START"
        /\ e \in Timers => fsm.phase # "cueing"
    BY <1>1 DEF Timely, NoStaleTimer, Timers
  <2> QED BY <1>1, <2>1, DispatchTimers
<1>8. NoStaleTimer'
  BY <1>1, <1>5, <1>7 DEF NoStaleTimer
<1> QED BY <1>2, <1>6, <1>8, HandleSilence DEF IInv

\* So does starting.
LEMMA StartKeeps ==
  ASSUME IInv, Start
  PROVE  IInv'
<1> DEFINE s == initialState
           r == step(s, "START")
<1>1. /\ s \in States /\ s.phase = "idle" /\ s.good = 0 /\ s.silence = 0
      /\ "START" \in Events
  BY DEF initialState, States, Phases, Events
<1>2. TypeOK /\ Dispatch(s, "START", <<>>) /\ <<>> \in Seq(TrialRecords)
  BY DEF IInv, Start
<1> HIDE DEF s
<1>3. fsm' \in States /\ ledger' \in Seq(TrialRecords) /\ CountInv'
  <2>1. s.good = Cardinality(Goods(<<>>))
    BY <1>1, NoGoods
  <2>2. s.phase = "done" => s.good = Repetitions
    BY <1>1
  <2>3. s.phase \in InSeries => s.good < Repetitions
    BY <1>1 DEF InSeries
  <2> QED BY <1>1, <1>2, <2>1, <2>2, <2>3, DispatchCounts
<1>4. /\ timer' \in Timers \cup {"none"} /\ cueWatchdog' \in BOOLEAN
      /\ abandonReason' \in {"none", "guard", "explicit"} /\ cues' \in Nat
  BY <1>1, <1>2, DispatchTypes
<1>5. StepShape(s, "START", r) /\ GoodResult(r)
  BY <1>1, StepHasShape, StepResult
<1> HIDE DEF r
<1>6. /\ fsm' = r.state
      /\ abandonReason' =
           IF r.state.phase # "abandoned" THEN "none"
           ELSE IF r.state.silence >= SilenceGuard THEN "guard" ELSE "explicit"
      /\ timer' = TimerAfter("START", r)
      /\ cueWatchdog' = /\ r.state.phase \notin Terminal
                        /\ r.cue \/ (cueWatchdog /\ "START" # "CUE_DONE")
  BY <1>2 DEF Dispatch, r
<1>7. \/ Repetitions = 0 /\ Yields(r, "done", 0, 0, "none")
      \/ r.cue /\ Yields(r, "cueing", 0, 0, "none")
  BY <1>1, <1>5 DEF StepShape
<1>8. /\ mounted /\ mounted' = mounted /\ active' \in BOOLEAN /\ series' \in Nat
      /\ guidedMarks' = <<>> /\ pendingCueAt' = 0 /\ confirmed' = {}
      /\ silentRun' = 0 /\ prevPhase' = fsm'.phase /\ guidedActive' \in BOOLEAN
  BY <1>2 DEF Start, TypeOK
<1>9. TypeOK'
  BY <1>2, <1>3, <1>4, <1>8 DEF TypeOK, States
<1>10. NoStaleTimer'
  <2>1. timer' = r.arm \/ timer' = "none"
    BY <1>6 DEF TimerAfter, CancelsTimer, Timers
  <2> QED BY <1>5, <1>6, <1>7, <1>8, <2>1
          DEF NoStaleTimer, GoodResult, Yields, Terminal
<1>11. SilenceInv'
  BY <1>6, <1>7, <1>8, WizardConstants DEF SilenceInv, Yields
<1> QED BY <1>3, <1>9, <1>10, <1>11 DEF IInv

\* So does closing the panel.
LEMMA CloseKeeps ==
  ASSUME IInv, Close
  PROVE  IInv'
<1>1. /\ initialState \in States /\ initialState.phase = "idle"
      /\ initialState.good = 0 /\ initialState.silence = 0
  BY DEF initialState, States, Phases
<1>2. TypeOK /\ onHostPhase /\ <<>> \in Seq(TrialRecords)
  BY DEF IInv, Close
<1>3. /\ fsm' = initialState /\ timer' = "none" /\ cueWatchdog' = FALSE
      /\ ledger' = <<>> /\ abandonReason' = "none" /\ active' = FALSE
      /\ cues' = 0 /\ confirmed' = {} /\ silentRun' = 0
      /\ mounted' = mounted /\ series' = series
  BY DEF Close
<1>4. TypeOK'
  BY <1>1, <1>2, <1>3, PanelTypes DEF TypeOK
<1>5. CountInv' /\ SilenceInv'
  BY <1>1, <1>3, NoGoods DEF CountInv, SilenceInv, InSeries
<1>6. NoStaleTimer'
  BY <1>3 DEF NoStaleTimer
<1> QED BY <1>4, <1>5, <1>6 DEF IInv

\* The invariant holds of a host that has not started.
LEMMA InitHolds == Init => IInv
<1> SUFFICES ASSUME Init PROVE IInv
  OBVIOUS
<1>1. initialState \in States /\ initialState.phase = "idle"
      /\ initialState.good = 0 /\ initialState.silence = 0
  BY DEF initialState, States, Phases
<1>2. TypeOK
  <2>1. <<>> \in Seq(TrialRecords) /\ <<>> \in Seq([repIndex : Nat, at : Nat])
    OBVIOUS
  <2> HIDE DEF initialState
  <2> QED BY <1>1, <2>1 DEF Init, TypeOK, Phases
<1>3. CountInv /\ SilenceInv
  BY <1>1, NoGoods DEF Init, CountInv, SilenceInv, InSeries
<1>4. NoStaleTimer
  BY DEF Init, NoStaleTimer
<1> QED BY <1>2, <1>3, <1>4 DEF IInv

\* Every step keeps it.
LEMMA NextKeeps == IInv /\ [Next]_vars => IInv'
<1> SUFFICES ASSUME IInv, [Next]_vars PROVE IInv'
  OBVIOUS
<1>1. CASE Start
  BY <1>1, StartKeeps
<1>2. CASE CueDone
  BY <1>2, HandleKeeps DEF CueDone, Timely, Events, Timers
<1>3. CASE TimerFires
  <2>1. timer \in Timers /\ Handle(timer)
    BY <1>3 DEF TimerFires, IInv, TypeOK
  <2>2. Timely(timer)
    BY <2>1 DEF Timely, Events, Timers
  <2> QED BY <2>1, <2>2, HandleKeeps DEF Timely
<1>4. ASSUME NEW e \in Presses, Press(e) PROVE IInv'
  <2>1. Timely(e) /\ Handle(e) /\ e \in Events
    BY <1>4 DEF Press, Timely, Presses, Events, Timers
  <2> QED BY <2>1, HandleKeeps
<1>5. CASE Close
  BY <1>5, CloseKeeps
<1>6. CASE Destroy
  BY ZenonT(90), <1>6 DEF Destroy, panelVars, IInv, TypeOK, NoStaleTimer, CountInv, SilenceInv
<1>7. CASE UNCHANGED vars
  BY <1>7 DEF vars, hostVars, panelVars, IInv, TypeOK, NoStaleTimer, CountInv, SilenceInv
<1> QED BY <1>1, <1>2, <1>3, <1>4, <1>5, <1>6, <1>7 DEF Next

\* So it always holds.
LEMMA Inductive == Spec => []IInv
<1>1. Init => IInv
  BY InitHolds
<1>2. IInv /\ [Next]_vars => IInv'
  BY NextKeeps
<1> QED BY <1>1, <1>2, PTL DEF Spec

-----------------------------------------------------------------------------
\* The variables of the host and of the panel keep their types.
THEOREM TypeCorrect == Spec => []TypeOK
<1>1. IInv => TypeOK
  BY DEF IInv
<1> QED BY <1>1, Inductive, PTL

\* WizardHost.dispatch never leaves a feedback, retry or cue timer pending
\* outside the phase it times, nor after the panel is gone.
THEOREM TimersMatchPhases == Spec => []NoStaleTimer
<1>1. IInv => NoStaleTimer
  BY DEF IInv
<1> QED BY <1>1, Inductive, PTL

\* The number of good trials is the number in the ledger, and a series ends as
\* done exactly when it has reached its target.
THEOREM CountsAreHonest == Spec => []CountsAgree
<1>1. IInv => CountsAgree
  BY DEF IInv, CountInv, CountsAgree, Goods, Running, InSeries
<1> QED BY <1>1, Inductive, PTL

\* The guard abandons a series after SilenceGuard silences in a row, no sooner
\* and no later, and the reason shown tells it from an explicit stop.
THEOREM ReasonIsHonest == Spec => []ReasonHonest
<1>1. IInv => ReasonHonest
  BY DEF IInv, SilenceInv, ReasonHonest, Running, InSeries
<1> QED BY <1>1, Inductive, PTL

-----------------------------------------------------------------------------
(* The marks.                                                              *)

Marked(marks) == {marks[i].at : i \in DOMAIN marks}

\* The panel follows the host: it has seen the phase there is, takes marks
\* while a series runs, and knows which cue the driver is asked about; so the
\* cue a driver confirms is the one that is marked.  With no series on screen
\* the host is idle.
MarksInv ==
  /\ prevPhase = fsm.phase
  /\ guidedActive <=> fsm.phase \in InSeries
  /\ fsm.phase \in InSeries => cues # 0
  /\ fsm.phase = "feedback" => pendingCueAt = cues
  /\ confirmed \subseteq Marked(guidedMarks)
  /\ ~active => fsm.phase = "idle"

\* The panel only ever adds a mark, and adds the one of the cue whose feedback
\* it leaves with a good trial.
LEMMA PanelMarks ==
  ASSUME TypeOK, ledger' \in Seq(TrialRecords), onHostPhase
  PROVE  /\ Marked(guidedMarks) \subseteq Marked(guidedMarks')
         /\ (fsm'.phase # prevPhase /\ guidedActive /\ KeepsMark) =>
              pendingCueAt \in Marked(guidedMarks')
<1>1. guidedMarks \in Seq([repIndex : Nat, at : Nat])
  BY DEF TypeOK
<1>2. CASE fsm'.phase # prevPhase /\ guidedActive /\ KeepsMark
  <2> DEFINE m == [repIndex |-> ledger'[Len(ledger')].repIndex, at |-> pendingCueAt]
  <2>1. guidedMarks' = Append(guidedMarks, m)
    BY <1>2 DEF onHostPhase
  <2>2. m.at = pendingCueAt
    OBVIOUS
  <2>3. m \in [repIndex : Nat, at : Nat]
    <3>1. Len(ledger') \in DOMAIN ledger'
      BY <1>2, EmptySeq, LenProperties DEF KeepsMark
    <3>2. ledger'[Len(ledger')] \in TrialRecords
      BY <3>1, ElementOfSeq, LenProperties
    <3> QED BY <3>2 DEF TrialRecords, TypeOK
  <2> HIDE DEF m
  <2>4. /\ Len(guidedMarks) \in Nat /\ DOMAIN guidedMarks = 1 .. Len(guidedMarks)
        /\ DOMAIN guidedMarks' = 1 .. Len(guidedMarks) + 1
        /\ \A i \in 1 .. Len(guidedMarks) : guidedMarks'[i] = guidedMarks[i]
        /\ guidedMarks'[Len(guidedMarks) + 1] = m
    BY <1>1, <2>1, <2>3, AppendProperties
  <2>5. \A i \in DOMAIN guidedMarks : i \in DOMAIN guidedMarks' /\ guidedMarks'[i] = guidedMarks[i]
    BY <2>4
  <2>6. Len(guidedMarks) + 1 \in DOMAIN guidedMarks'
    BY <2>4
  <2> QED BY <2>2, <2>4, <2>5, <2>6 DEF Marked
<1>3. CASE ~(fsm'.phase # prevPhase /\ guidedActive /\ KeepsMark)
  <2>1. guidedMarks' = guidedMarks
    BY <1>3 DEF onHostPhase, panelVars
  <2> QED BY <1>3, <2>1 DEF Marked
<1> QED BY <1>2, <1>3

\* An event of a running series.
LEMMA HandleMarks ==
  ASSUME IInv, MarksInv, NEW e \in Events, e # "START", Handle(e), ledger' \in Seq(TrialRecords)
  PROVE  MarksInv'
<1> DEFINE r == step(fsm, e)
<1>1. /\ TypeOK /\ fsm \in States /\ fsm.phase \in Phases /\ cues \in Nat
      /\ ledger \in Seq(TrialRecords)
  BY DEF IInv, TypeOK, States
<1>2. StepShape(fsm, e, r) /\ GoodResult(r)
  BY <1>1, StepHasShape, StepResult
<1> HIDE DEF r
<1>3. /\ fsm' = r.state /\ onHostPhase
      /\ ledger' = IF r.record = "none" THEN ledger
                   ELSE Append(ledger, [repIndex |-> r.state.repIndex,
                                        outcome  |-> r.record])
      /\ cues' = cues + (IF r.cue THEN 1 ELSE 0)
      /\ confirmed' = IF e = "SUCCESS" /\ fsm.phase = "feedback"
                      THEN confirmed \cup {cues} ELSE confirmed
      /\ active' = active
  BY DEF Handle, Dispatch, r
<1>4. cues' \in Nat /\ (cues # 0 => cues' # 0)
  BY <1>1, <1>3
<1>5. CASE Unmoved(fsm, r)
  <2>1. fsm' = fsm /\ cues' = cues
    BY <1>1, <1>3, <1>5 DEF Unmoved
  <2>2. UNCHANGED panelVars
    BY <1>3, <2>1 DEF onHostPhase, MarksInv
  <2>3. confirmed' = confirmed
    <3>1. ~(e = "SUCCESS" /\ fsm.phase = "feedback")
      BY <1>2, <1>5 DEF StepShape, Unmoved, Yields
    <3> QED BY <1>3, <3>1
  <2> QED BY <1>3, <2>1, <2>2, <2>3 DEF MarksInv, Marked, panelVars
<1>6. CASE ~Unmoved(fsm, r)
  <2>1. /\ fsm.phase \in InSeries /\ fsm'.phase # fsm.phase
        /\ fsm'.phase \in InSeries \cup Terminal
        /\ fsm'.phase = "feedback" => fsm.phase = "cueing"
    BY <1>2, <1>3, <1>6 DEF StepShape, Yields, InSeries, Terminal
  <2>2. guidedActive /\ fsm'.phase # prevPhase /\ prevPhase = fsm.phase /\ cues # 0
    BY <2>1 DEF MarksInv
  <2>3. /\ prevPhase' = fsm'.phase
        /\ guidedActive' = (guidedActive /\ fsm'.phase \notin Terminal)
        /\ fsm'.phase = "feedback" => pendingCueAt' = cues'
    BY <1>3, <2>2 DEF onHostPhase
  <2>4. guidedActive' <=> fsm'.phase \in InSeries
    BY <2>1, <2>2, <2>3 DEF InSeries, Terminal
  <2>5. ASSUME e = "SUCCESS", fsm.phase = "feedback" PROVE cues \in Marked(guidedMarks')
    <3>1. r.record = "good"
      BY <1>2, <1>6, <2>5 DEF StepShape, Yields, InSeries
    <3> DEFINE t == [repIndex |-> r.state.repIndex, outcome |-> "good"]
    <3>2. t \in TrialRecords /\ t.outcome = "good"
      BY <1>2 DEF GoodResult, States, TrialRecords, Outcomes
    <3>3. ledger' = Append(ledger, t)
      BY <1>3, <3>1
    <3> HIDE DEF t
    <3>4. ledger' # <<>> /\ ledger'[Len(ledger')] = t
      BY <1>1, <3>2, <3>3, AppendProperties
    <3>5. KeepsMark /\ pendingCueAt = cues
      BY <2>2, <2>5, <3>2, <3>4 DEF KeepsMark, MarksInv
    <3> QED BY <1>1, <1>3, <2>2, <3>5, PanelMarks
  <2>6. confirmed' \subseteq Marked(guidedMarks')
    BY <1>1, <1>3, <2>5, PanelMarks DEF MarksInv
  <2>7. active'
    BY <1>3, <2>1 DEF MarksInv, InSeries
  <2> QED BY <1>4, <2>2, <2>3, <2>4, <2>6, <2>7 DEF MarksInv
<1> QED BY <1>5, <1>6

\* A series begins with no mark, and with its first cue unless there is no
\* test to do.
LEMMA StartMarks ==
  ASSUME Start
  PROVE  MarksInv'
<1> DEFINE r == step(initialState, "START")
<1>1. initialState \in States /\ initialState.phase = "idle" /\ "START" \in Events
  BY DEF initialState, States, Phases, Events
<1>2. StepShape(initialState, "START", r)
  BY <1>1, StepHasShape
<1> HIDE DEF r
<1>3. /\ fsm' = r.state /\ cues' = 0 + (IF r.cue THEN 1 ELSE 0)
      /\ prevPhase' = fsm'.phase
      /\ guidedActive' = (fsm'.phase \notin Terminal) /\ confirmed' = {} /\ active'
  BY DEF Start, Dispatch, r
<1>4. fsm'.phase = "done" \/ (fsm'.phase = "cueing" /\ cues' # 0)
  BY <1>1, <1>2, <1>3 DEF StepShape, Unmoved, Yields
<1> QED BY <1>3, <1>4 DEF MarksInv, InSeries, Terminal

\* One step keeps the marks right.
LEMMA MarksNext == IInv /\ IInv' /\ MarksInv /\ [Next]_vars => MarksInv'
<1> SUFFICES ASSUME IInv, IInv', MarksInv, [Next]_vars PROVE MarksInv'
  OBVIOUS
<1>1. ledger' \in Seq(TrialRecords) /\ timer \in Timers \cup {"none"}
  BY DEF IInv, TypeOK
<1>2. CASE Start
  BY <1>2, StartMarks
<1>3. ASSUME NEW e \in Events \ {"START"}, Handle(e) PROVE MarksInv'
  BY <1>1, <1>3, HandleMarks
<1>4. CASE CueDone \/ TimerFires
  BY <1>1, <1>3, <1>4 DEF CueDone, TimerFires, Events, Timers
<1>5. ASSUME NEW e \in Presses, Press(e) PROVE MarksInv'
  BY <1>3, <1>5 DEF Press, Presses, Events
<1>6. CASE Close
  <2>1. /\ fsm'.phase = "idle" /\ confirmed' = {} /\ fsm.phase \in Terminal /\ onHostPhase
        /\ prevPhase = fsm.phase /\ guidedActive \in BOOLEAN
    BY <1>6 DEF Close, initialState, MarksInv, IInv, TypeOK
  <2>2. prevPhase' = "idle" /\ ~guidedActive'
    BY <2>1 DEF onHostPhase, MarksInv, InSeries, Terminal
  <2> QED BY <2>1, <2>2 DEF MarksInv, InSeries
<1>7. CASE Destroy \/ UNCHANGED vars
  BY <1>7 DEF Destroy, vars, hostVars, panelVars, MarksInv, Marked
<1> QED BY <1>2, <1>4, <1>5, <1>6, <1>7 DEF Next

\* What the marks rest on holds of every state of the host.
LEMMA MarksAlways == Spec => []MarksInv
<1>1. Init => MarksInv
  BY DEF Init, initialState, MarksInv, InSeries
<1> QED BY <1>1, MarksNext, Inductive, PTL DEF Spec

\* A cue goes on only as itself: a state that is still cueing has the same test
\* and the same cue as before.
LEMMA CueGoesOn ==
  ASSUME IInv, MarksInv, [Next]_vars, fsm.phase = "cueing", fsm'.phase = "cueing"
  PROVE  fsm'.repIndex = fsm.repIndex /\ cues' = cues
<1>1. fsm \in States /\ cues \in Nat /\ timer \in Timers \cup {"none"}
  BY DEF IInv, TypeOK
<1>2. ASSUME NEW e \in Events \ {"START"}, Handle(e)
      PROVE  fsm' = fsm /\ cues' = cues
  <2> DEFINE r == step(fsm, e)
  <2>1. StepShape(fsm, e, r)
    BY <1>1, StepHasShape
  <2> HIDE DEF r
  <2>2. fsm' = r.state /\ cues' = cues + (IF r.cue THEN 1 ELSE 0)
    BY <1>2 DEF Handle, Dispatch, r
  <2>3. Unmoved(fsm, r)
    BY <2>1, <2>2 DEF StepShape, Yields
  <2> QED BY <1>1, <2>2, <2>3 DEF Unmoved
<1>3. CASE Start
  BY <1>3 DEF Start, MarksInv
<1>4. CASE CueDone \/ TimerFires
  BY <1>1, <1>2, <1>4 DEF CueDone, TimerFires, Events, Timers
<1>5. ASSUME NEW e \in Presses, Press(e) PROVE fsm' = fsm /\ cues' = cues
  BY <1>2, <1>5 DEF Press, Presses, Events
<1>6. CASE Close
  BY <1>6 DEF Close, initialState
<1>7. CASE Destroy \/ UNCHANGED vars
  BY <1>7 DEF Destroy, vars, hostVars
<1> QED BY <1>3, <1>4, <1>5, <1>6, <1>7 DEF Next

\* Each test the operator confirmed has its mark, at its own cue, whatever
\* timeouts, stops and late verdicts came between.
THEOREM ConfirmedGetMarks == Spec => []ConfirmedAreMarked
<1>1. MarksInv => ConfirmedAreMarked
  BY DEF MarksInv, Marked, ConfirmedAreMarked
<1> QED BY <1>1, MarksAlways, PTL

-----------------------------------------------------------------------------
(* The host beside a phone is a host.                                      *)

\* Only verdicts travel to the host.
HearsPresses == toHost \in Seq(Presses)

\* At first nothing travels.
LEMMA HearsFirst == RelayInit => HearsPresses
BY DEF RelayInit, HearsPresses

\* A phone only ever sends verdicts and stop.
LEMMA HearsNext == HearsPresses /\ [RelayNext]_relayVars => HearsPresses'
<1> SUFFICES ASSUME HearsPresses, [RelayNext]_relayVars PROVE HearsPresses'
  OBVIOUS
<1> USE DEF HearsPresses
<1>1. ASSUME NEW e \in Presses, sendFeedback(e) PROVE HearsPresses'
  BY <1>1 DEF sendFeedback
<1>2. CASE Verdict
  <2>1. PICK e \in Offered(wizard[1].phase) : sendFeedback(e)
    BY <1>2 DEF Verdict
  <2>2. e \in Presses
    BY <2>1 DEF Offered, Presses
  <2> QED BY <2>1, <2>2, <1>1
<1>3. CASE requestStop
  BY <1>3, <1>1 DEF requestStop, Presses
<1>4. CASE onTrialFeedback
  BY <1>4 DEF onTrialFeedback
<1>5. CASE LinkFails
  BY <1>5 DEF LinkFails
<1>6. CASE HostStep \/ PanelCloses \/ onWizard \/ dismissWizard \/ LinkReturns
           \/ UNCHANGED relayVars
  BY <1>6 DEF HostStep, PanelCloses, onWizard, dismissWizard, LinkReturns,
              relayVars, channelVars
<1> QED BY <1>2, <1>3, <1>4, <1>5, <1>6 DEF RelayNext

\* Every step of the composition is a step of the host or leaves it alone.
LEMMA StepIsHostStep ==
  HearsPresses /\ [RelayNext]_relayVars => [Next]_vars
<1> SUFFICES ASSUME HearsPresses, [RelayNext]_relayVars PROVE [Next]_vars
  OBVIOUS
<1>1. CASE HostStep
  BY <1>1 DEF HostStep, HostRuns, Next
<1>2. CASE onTrialFeedback
  <2>1. Head(toHost) \in Presses
    BY <1>2 DEF onTrialFeedback, HearsPresses
  <2> QED BY <1>2, <2>1 DEF onTrialFeedback, HostRuns, Next
<1>3. CASE PanelCloses
  BY <1>3 DEF PanelCloses, Next
<1>4. CASE onWizard \/ dismissWizard \/ LinkFails \/ LinkReturns
           \/ UNCHANGED relayVars
  BY <1>4 DEF onWizard, dismissWizard, LinkFails, LinkReturns, relayVars
<1>5. CASE Verdict \/ requestStop
  BY <1>5 DEF Verdict, requestStop, sendFeedback
<1> QED BY <1>1, <1>2, <1>3, <1>4, <1>5 DEF RelayNext

\* So that is all the host hears.
LEMMA HearsAlways == RelaySpec => []HearsPresses
<1> QED BY HearsFirst, HearsNext, PTL DEF RelaySpec

\* Beside a phone, the cockpit's host (wizardHost.ts) runs a behaviour of
\* WizardHost in which verdicts may come at any time.
THEOREM RelayIsHost == RelaySpec => ImplementsHost
<1>1. RelayInit => Init
  BY DEF RelayInit
<1> QED BY <1>1, StepIsHostStep, HearsAlways, PTL DEF RelaySpec, ImplementsHost, Spec

\* So what WizardProofs says of a host holds beside a phone.
THEOREM HostStaysSound ==
  RelaySpec => [](TypeOK /\ NoStaleTimer /\ CountsAgree /\ ReasonHonest
                  /\ ConfirmedAreMarked)
<1> QED BY RelayIsHost, TypeCorrect, TimersMatchPhases, CountsAreHonest,
           ReasonIsHonest, ConfirmedGetMarks, PTL DEF ImplementsHost

-----------------------------------------------------------------------------
(* What the phone shows.                                                   *)

Relays == [phase : Phases, repIndex : Nat, good : Nat, silence : Nat,
           abandonReason : {"none", "guard", "explicit"}, cue : Nat]

\* The newest relay on its way is the host's present state; without one, the
\* phone shows that state unless something was lost since.
Told ==
  /\ toPhone \in Seq(Relays)
  /\ linked \in BOOLEAN /\ missed \in BOOLEAN /\ stopped \in BOOLEAN
  /\ ~linked => toPhone = <<>>
  /\ toPhone # <<>> => toPhone[Len(toPhone)] = Current
  /\ ViewerTruthful

\* What the host would relay of a state is a relay.
LEMMA CurrentIsRelay == TypeOK => Current \in Relays
BY DEF TypeOK, Current, Relays, States

\* Before the wizard runs there is nothing to tell.
LEMMA ToldFirst == RelayInit => Told
<1> SUFFICES ASSUME RelayInit PROVE Told
  OBVIOUS
<1>1. ~Running
  BY DEF RelayInit, Init, initialState, Running
<1>2. /\ toPhone = <<>> /\ wizard = <<>> /\ linked = TRUE
      /\ missed = FALSE /\ stopped = FALSE
  BY DEF RelayInit
<1>3. ViewerTruthful
  BY <1>1, <1>2 DEF ViewerTruthful
<1>4. toPhone \in Seq(Relays)
  BY <1>2
<1> QED BY <1>2, <1>3, <1>4 DEF Told

\* A step of the host is followed by its relay.
LEMMA RelayTells ==
  ASSUME Told, TypeOK', relay, UNCHANGED <<linked, phoneVars, stopped>>
  PROVE  Told'
<1>1. Current' \in Relays
  BY CurrentIsRelay DEF TypeOK, Current, Relays, States
<1>2. CASE linked
  <2>1. toPhone' = Append(toPhone, Current') /\ missed' = missed
    BY <1>2 DEF relay, Told
  <2>2. toPhone' \in Seq(Relays) /\ toPhone' # <<>>
        /\ toPhone'[Len(toPhone')] = Current'
    BY <1>1, <2>1 DEF Told
  <2> QED BY <1>2, <2>1, <2>2 DEF Told, ViewerTruthful, phoneVars
<1>3. CASE ~linked
  <2>1. toPhone' = <<>> /\ missed' = TRUE
    BY <1>3 DEF relay, Told
  <2> QED BY <1>3, <2>1 DEF Told, ViewerTruthful, phoneVars
<1> QED BY <1>2, <1>3

\* A relay arrives: what is still on its way ends as before, and if nothing is,
\* the one that arrived was the newest.
LEMMA ArrivalTells ==
  ASSUME Told, onWizard PROVE Told'
<1> DEFINE r == Head(toPhone)
<1>1. /\ toPhone # <<>> /\ toPhone \in Seq(Relays)
      /\ toPhone' = Tail(toPhone) /\ missed' = FALSE
      /\ Current' = Current /\ Running' = Running /\ linked' = linked
      /\ toPhone[Len(toPhone)] = Current
  BY DEF onWizard, Told, Current, Running, vars, hostVars
<1>2. /\ toPhone' \in Seq(Relays) /\ r \in Relays
      /\ toPhone' # <<>> => toPhone'[Len(toPhone')] = Current
      /\ toPhone' = <<>> => r = Current
  <2>1. Len(toPhone) \in Nat \ {0}
    BY <1>1
  <2>2. r = toPhone[1] /\ r \in Relays
    BY <1>1
  <2>3. /\ toPhone' \in Seq(Relays) /\ Len(toPhone') = Len(toPhone) - 1
        /\ \A i \in 1 .. Len(toPhone') : toPhone'[i] = toPhone[i + 1]
    BY <1>1
  <2>4. CASE toPhone' = <<>>
    <3>1. Len(toPhone) = 1
      BY <2>1, <2>3, <2>4
    <3> QED BY <1>1, <2>2, <2>3, <2>4, <3>1
  <2>5. CASE toPhone' # <<>>
    <3>1. Len(toPhone') \in Nat \ {0}
      BY <2>3, <2>5
    <3> QED BY <1>1, <2>1, <2>2, <2>3, <2>5, <3>1
  <2> QED BY <2>4, <2>5
<1>3. CASE Ignores(r)
  <2>1. wizard = <<>> /\ wizard' = <<>> /\ stopped' = stopped
    BY <1>3 DEF onWizard, Ignores
  <2>2. toPhone' = <<>> => ~Running
    BY <1>2, <1>3 DEF Ignores, Current, Running, Terminal
  <2>3. ViewerTruthful'
    BY <1>1, <2>1, <2>2 DEF ViewerTruthful
  <2> QED BY <1>1, <1>2, <2>1, <2>3 DEF Told
<1>4. CASE ~Ignores(r)
  <2>1. wizard' = <<r>> /\ stopped' = FALSE
    BY <1>4 DEF onWizard
  <2>2. ViewerTruthful'
    BY <1>1, <1>2, <2>1 DEF ViewerTruthful
  <2> QED BY <1>1, <1>2, <2>1, <2>2 DEF Told
<1> QED BY <1>3, <1>4

\* Whatever happens on either side, the phone was told.
LEMMA ToldNext == Told /\ TypeOK' /\ [RelayNext]_relayVars => Told'
<1> SUFFICES ASSUME Told, TypeOK', [RelayNext]_relayVars PROVE Told'
  OBVIOUS
<1>1. CASE HostStep
  BY <1>1, RelayTells DEF HostStep, HostRuns
<1>2. CASE onTrialFeedback
  <2>1. CASE mounted
    BY <1>2, <2>1, RelayTells DEF onTrialFeedback, HostRuns
  <2>2. CASE ~mounted
    BY <1>2, <2>2 DEF onTrialFeedback, Told, ViewerTruthful, Current, Running,
                      vars, hostVars, phoneVars, historyVars
  <2> QED BY <2>1, <2>2
<1>3. CASE PanelCloses
  <2>1. Running' => Running
    BY <1>3 DEF PanelCloses, Destroy, Running
  <2> QED BY <1>3, <2>1 DEF PanelCloses, Destroy, Told, ViewerTruthful, Current,
                            channelVars, phoneVars, historyVars
<1>4. CASE onWizard
  BY <1>4, ArrivalTells
<1>5. CASE Verdict
  BY <1>5 DEF Verdict, sendFeedback, Told, ViewerTruthful, Current, Running,
              vars, hostVars
<1>6. CASE requestStop
  BY <1>6 DEF requestStop, sendFeedback, Told, ViewerTruthful, Current, Running,
              vars, hostVars
<1>7. CASE dismissWizard
  BY <1>7 DEF dismissWizard, Told, ViewerTruthful, Current, Running,
              vars, hostVars, channelVars
<1>8. CASE LinkFails
  <2>1. toPhone' = <<>> /\ linked' = FALSE /\ wizard' = wizard
        /\ stopped' = stopped /\ missed' \in BOOLEAN
    BY <1>8 DEF LinkFails, phoneVars, Told
  <2>2. ~missed' => toPhone = <<>> /\ ~missed
    BY <1>8 DEF LinkFails, Told
  <2>3. Current' = Current /\ Running' = Running
    BY <1>8 DEF LinkFails, Current, Running, vars, hostVars
  <2>4. ViewerTruthful'
    BY <2>1, <2>2, <2>3 DEF Told, ViewerTruthful
  <2>5. toPhone' \in Seq(Relays)
    BY <2>1
  <2>6. missed \in BOOLEAN /\ stopped \in BOOLEAN
    BY DEF Told
  <2> QED BY <2>1, <2>4, <2>5, <2>6 DEF Told
<1>9. CASE LinkReturns
  BY <1>9 DEF LinkReturns, Told, ViewerTruthful, Current, Running,
              vars, hostVars, phoneVars, historyVars
<1>10. CASE UNCHANGED relayVars
  BY <1>10 DEF relayVars, channelVars, Told, ViewerTruthful, Current, Running,
               vars, hostVars, phoneVars, historyVars
<1> QED BY <1>1, <1>2, <1>3, <1>4, <1>5, <1>6, <1>7, <1>8, <1>9, <1>10 DEF RelayNext

\* The copilot's store shows the driver the host's state whenever every relay
\* that was sent has come, for any interruptions, taps and timeouts.
THEOREM ViewerIsTold == RelaySpec => []ViewerTruthful
<1>1. Told => ViewerTruthful
  BY DEF Told
<1>2. RelaySpec => []TypeOK
  BY HostStaysSound, PTL
<1> QED BY <1>1, <1>2, ToldFirst, ToldNext, PTL DEF RelaySpec

-----------------------------------------------------------------------------
(* One beep per cue.                                                       *)

\* Two states in a row that both play a cue play the same one.
SameCue(a, b) ==
  a.phase = "cueing" /\ b.phase = "cueing" => a.cue = b.cue /\ a.repIndex = b.repIndex

\* The phone's key is that of the cue it shows, and each relay on its way comes
\* right after the state before it: what is lost is lost ahead of them all.
BeepInv ==
  /\ cueKey = IF wizard # <<>> /\ wizard[1].phase = "cueing"
              THEN <<wizard[1].repIndex>> ELSE <<>>
  /\ \A i, j \in DOMAIN toPhone : j = i + 1 => SameCue(toPhone[i], toPhone[j])
  /\ wizard # <<>> /\ toPhone # <<>> /\ ~missed => SameCue(wizard[1], toPhone[1])

\* A relay goes behind the one of the state it follows.
LEMMA RelayFollows ==
  ASSUME Told, TypeOK', BeepInv, relay, SameCue(Current, Current'),
         UNCHANGED <<linked, phoneVars>>
  PROVE  BeepInv'
<1>1. Current' \in Relays
  BY CurrentIsRelay DEF TypeOK, Current, Relays, States
<1>2. wizard' = wizard /\ cueKey' = cueKey
  BY DEF phoneVars
<1>3. CASE linked
  <2> DEFINE n == Len(toPhone)
             q == Append(toPhone, Current')
  <2>1. toPhone' = q /\ missed' = missed
    BY <1>3 DEF relay, Told
  <2>2. /\ n \in Nat /\ DOMAIN toPhone = 1 .. n /\ DOMAIN q = 1 .. n + 1
        /\ \A i \in 1 .. n : q[i] = toPhone[i]
        /\ q[n + 1] = Current'
        /\ n = 0 => toPhone = <<>>
    BY <1>1, AppendProperties, EmptySeq, LenProperties DEF Told
  <2>3. n # 0 => toPhone # <<>> /\ toPhone[n] = Current
    BY <2>2, EmptySeq DEF Told
  <2> HIDE DEF n, q
  <2>4. ASSUME NEW i \in DOMAIN q, NEW j \in DOMAIN q, j = i + 1
        PROVE  SameCue(q[i], q[j])
    <3>1. i \in 1 .. n
      BY <2>2, <2>4
    <3>2. CASE j = n + 1
      <4>1. i = n /\ n # 0
        BY <2>2, <2>4, <3>1, <3>2
      <4>2. q[i] = Current /\ q[j] = Current'
        BY <2>2, <2>3, <3>1, <3>2, <4>1
      <4> QED BY <4>2
    <3>3. CASE j # n + 1
      <4>1. i \in DOMAIN toPhone /\ j \in DOMAIN toPhone
        BY <2>2, <2>4, <3>1, <3>3
      <4>2. q[i] = toPhone[i] /\ q[j] = toPhone[j]
        BY <2>2, <4>1
      <4> QED BY <2>4, <4>1, <4>2 DEF BeepInv
    <3> QED BY <3>2, <3>3
  <2>5. ASSUME wizard # <<>>, ~missed PROVE SameCue(wizard[1], q[1])
    <3>1. CASE n = 0
      <4>1. wizard[1] = Current
        BY <2>2, <2>5, <3>1 DEF Told, ViewerTruthful
      <4>2. q[1] = Current'
        BY <2>2, <3>1
      <4> QED BY <4>1, <4>2
    <3>2. CASE n # 0
      <4>1. q[1] = toPhone[1]
        BY <2>2, <3>2
      <4> QED BY <2>3, <2>5, <3>2, <4>1 DEF BeepInv
    <3> QED BY <3>1, <3>2
  <2> QED BY <1>2, <2>1, <2>4, <2>5 DEF BeepInv
<1>4. CASE ~linked
  <2>1. toPhone' = <<>>
    BY <1>4 DEF relay, Told
  <2> QED BY <1>2, <2>1 DEF BeepInv
<1> QED BY <1>3, <1>4 DEF Told

\* The relay that arrives is the one before the next.
LEMMA ArrivalFollows ==
  ASSUME Told, BeepInv, onWizard
  PROVE  BeepInv'
<1> DEFINE r == Head(toPhone)
           t == Tail(toPhone)
<1>1. toPhone # <<>> /\ toPhone \in Seq(Relays) /\ toPhone' = t
  BY DEF onWizard, Told
<1>2. /\ r = toPhone[1] /\ DOMAIN toPhone = 1 .. Len(toPhone) /\ Len(toPhone) \in Nat \ {0}
      /\ DOMAIN t = 1 .. Len(toPhone) - 1
      /\ \A i \in 1 .. Len(toPhone) - 1 : t[i] = toPhone[i + 1]
      /\ t \in Seq(Relays)
  BY <1>1, HeadTailProperties
<1>3. IF Ignores(r) THEN UNCHANGED <<wizard, cueKey>>
      ELSE wizard' = <<r>> /\ cueKey' = KeyAfter(r)
  BY DEF onWizard
<1> HIDE DEF r, t
<1>4. \A i, j \in DOMAIN t : j = i + 1 => SameCue(t[i], t[j])
  <2> SUFFICES ASSUME NEW i \in DOMAIN t, NEW j \in DOMAIN t, j = i + 1
               PROVE  SameCue(t[i], t[j])
    OBVIOUS
  <2>1. i + 1 \in DOMAIN toPhone /\ j + 1 \in DOMAIN toPhone /\ j + 1 = (i + 1) + 1
    BY <1>2
  <2> QED BY <1>2, <2>1 DEF BeepInv
<1>5. t # <<>> => SameCue(r, t[1])
  <2> SUFFICES ASSUME t # <<>> PROVE SameCue(r, t[1])
    OBVIOUS
  <2>1. 1 \in DOMAIN t
    BY <1>2
  <2>2. 1 \in DOMAIN toPhone /\ 2 \in DOMAIN toPhone /\ t[1] = toPhone[2]
    BY <1>2, <2>1
  <2>3. SameCue(toPhone[1], toPhone[2])
    BY <2>2 DEF BeepInv
  <2> QED BY <1>2, <2>2, <2>3
<1>6. CASE Ignores(r)
  BY <1>1, <1>3, <1>4, <1>6 DEF BeepInv, Ignores
<1>7. CASE ~Ignores(r)
  BY <1>1, <1>3, <1>4, <1>5, <1>7 DEF BeepInv, KeyAfter
<1> QED BY <1>6, <1>7

\* One step keeps the key and the order.
LEMMA BeepNext ==
  ASSUME IInv, MarksInv, HearsPresses, Told, TypeOK', BeepInv, [RelayNext]_relayVars
  PROVE  BeepInv'
<1>1. SameCue(Current, Current')
  BY StepIsHostStep, CueGoesOn DEF SameCue, Current
<1>2. CASE HostStep \/ (onTrialFeedback /\ mounted)
  BY <1>1, <1>2, RelayFollows DEF HostStep, onTrialFeedback, HostRuns
<1>3. CASE onTrialFeedback /\ ~mounted
  BY <1>3 DEF onTrialFeedback, phoneVars, historyVars, BeepInv
<1>4. CASE onWizard
  BY <1>4, ArrivalFollows
<1>5. CASE PanelCloses \/ Verdict \/ LinkReturns \/ UNCHANGED relayVars
  BY <1>5 DEF PanelCloses, Verdict, sendFeedback, LinkReturns, relayVars,
              channelVars, phoneVars, historyVars, BeepInv
<1>6. CASE requestStop \/ dismissWizard
  BY <1>6 DEF requestStop, sendFeedback, dismissWizard, channelVars, BeepInv
<1>7. CASE LinkFails
  BY <1>7 DEF LinkFails, phoneVars, BeepInv
<1> QED BY <1>2, <1>3, <1>4, <1>5, <1>6, <1>7 DEF RelayNext

\* The driver's phone beeps once for every cue, on the relay that begins it,
\* however often a state is relayed and whatever test is replayed.
THEOREM CuesBeepOnce == RelaySpec => EachCueBeepsOnce
<1> DEFINE Beeps(r) == Sounds(r) <=> (wizard # <<>> => wizard[1].cue # r.cue
                                                       \/ wizard[1].phase # "cueing")
<1>1. ASSUME BeepInv, Told, onWizard, Head(toPhone).phase = "cueing", ~missed
      PROVE  Beeps(Head(toPhone))
  <2>1. toPhone # <<>> /\ Head(toPhone) = toPhone[1]
    BY <1>1 DEF onWizard, Told
  <2>2. CASE wizard # <<>> /\ wizard[1].phase = "cueing"
    <3>1. cueKey = <<toPhone[1].repIndex>> /\ wizard[1].cue = toPhone[1].cue
      BY <1>1, <2>1, <2>2 DEF BeepInv, SameCue
    <3> QED BY <2>1, <2>2, <3>1 DEF Sounds
  <2>3. CASE ~(wizard # <<>> /\ wizard[1].phase = "cueing")
    <3>1. cueKey # <<Head(toPhone).repIndex>>
      BY <1>1, <2>3 DEF BeepInv
    <3> QED BY <1>1, <2>3, <3>1 DEF Sounds
  <2> QED BY <2>2, <2>3
<1>2. BeepInv /\ Told /\ [RelayNext]_relayVars =>
        [LET r == Head(toPhone) IN
           onWizard /\ r.phase = "cueing" /\ ~missed =>
             (Sounds(r) <=> (wizard # <<>> => wizard[1].cue # r.cue
                                              \/ wizard[1].phase # "cueing"))]_relayVars
  BY <1>1
<1>3. RelayInit => BeepInv
  BY DEF RelayInit, BeepInv
<1>4. RelaySpec => []TypeOK /\ []Told
  <2>1. RelaySpec => []TypeOK
    BY HostStaysSound, PTL
  <2> QED BY <2>1, ToldFirst, ToldNext, PTL DEF RelaySpec
<1>5. RelaySpec => [](IInv /\ MarksInv)
  BY RelayIsHost, Inductive, MarksAlways, PTL DEF ImplementsHost
<1>6. IInv /\ MarksInv /\ HearsPresses /\ Told /\ TypeOK' /\ BeepInv /\ [RelayNext]_relayVars
        => BeepInv'
  BY BeepNext
<1>7. RelaySpec => []BeepInv
  BY <1>3, <1>4, <1>5, <1>6, HearsAlways, PTL DEF RelaySpec
<1> QED BY <1>2, <1>4, <1>7, PTL DEF RelaySpec, EachCueBeepsOnce
=============================================================================
