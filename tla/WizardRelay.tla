----------------------------- MODULE WizardRelay -----------------------------
(***************************************************************************)
(* A guided series with a phone beside the cockpit.  The host relays a     *)
(* snapshot after every dispatch (WizardHost.relay), the backend passes it *)
(* on, and the phone's store shows it, beeps for each cue and sends the    *)
(* driver's verdicts back (copilot/src/lib/store.svelte.ts and             *)
(* WizardOverlay.svelte).  Neither message says which test it is about,    *)
(* and what is sent while the way between the two is down is lost.         *)
(*                                                                         *)
(* Every step of the host is a step of WizardHost.  A configuration sets   *)
(* LateVerdicts, since the channel is what makes verdicts late; what is    *)
(* proved does not depend on it.                                           *)
(***************************************************************************)
EXTENDS WizardHost, Functions

CONSTANTS
  MaxInFlight, \* bound: relays on their way to the phone
  MaxTaps,     \* bound: verdicts and stops tapped on the phone
  MaxOutages   \* bound: times the way is interrupted

ASSUME RelayConstants ==
  MaxInFlight \in Nat /\ MaxTaps \in Nat /\ MaxOutages \in Nat

VARIABLES
  linked,   \* both sockets are open
  toPhone,  \* relays on their way, oldest first
  toHost,   \* verdicts on their way, oldest first
  wizard,   \* AppStore.wizard: <<>> for null, else <<the latest relay>>
  cueKey,   \* AppStore.lastCueKey: <<>> for null, else <<repIndex>>
  taps,     \* verdicts and stops tapped
  outages,  \* interruptions so far
  missed,   \* history: a relay was lost since the phone last got one
  stopped   \* history: the driver put the overlay away

channelVars == <<linked, toPhone, toHost, outages>>
phoneVars == <<wizard, cueKey, taps>>
historyVars == <<missed, stopped>>
relayVars == <<vars, channelVars, phoneVars, historyVars>>

RelayInit ==
  /\ Init
  /\ linked = TRUE /\ toPhone = <<>> /\ toHost = <<>> /\ outages = 0
  /\ wizard = <<>> /\ cueKey = <<>> /\ taps = 0
  /\ missed = FALSE /\ stopped = FALSE

-----------------------------------------------------------------------------
(* The host's side.                                                        *)

\* WizardRelayPayload.  cue is history: the payload has no number for it.
Current ==
  [phase |-> fsm.phase, repIndex |-> fsm.repIndex, good |-> fsm.good,
   silence |-> fsm.silence, abandonReason |-> abandonReason, cue |-> cues]

\* emit() ends with relay(), which sends if the socket is open.
relay ==
  /\ Len(toPhone) < MaxInFlight
  /\ toPhone' = IF linked THEN Append(toPhone, Current') ELSE toPhone
  /\ missed' = (missed \/ ~linked)

HostRuns(A) ==
  /\ A /\ relay
  /\ UNCHANGED <<linked, outages, phoneVars, stopped>>

\* Start, a timer, the watchdog, a button of the cockpit's overlay, reset().
HostStep ==
  /\ HostRuns(\/ Start \/ CueDone \/ TimerFires \/ Close
              \/ \E e \in Presses : e \in Shown(fsm.phase) /\ Press(e))
  /\ UNCHANGED toHost

\* onTrialFeedback: whatever the phase, the verdict goes to the reducer.
onTrialFeedback ==
  /\ toHost # <<>>
  /\ toHost' = Tail(toHost)
  /\ IF mounted
     THEN HostRuns(Press(Head(toHost)))
     ELSE UNCHANGED <<vars, linked, toPhone, outages, phoneVars, historyVars>>

\* The panel goes without a word to the viewers.
PanelCloses == Destroy /\ UNCHANGED <<channelVars, phoneVars, historyVars>>

-----------------------------------------------------------------------------
(* The phone.                                                              *)

\* A cue is told by its repIndex; leaving the cue clears the key, since a silent
\* replay keeps its repIndex.
KeyKept(r) == IF r.phase = "cueing" THEN <<r.repIndex>> ELSE cueKey
KeyAfter(r) == IF r.phase = "cueing" THEN <<r.repIndex>> ELSE <<>>
Sounds(r) == r.phase = "cueing" /\ cueKey # <<r.repIndex>>

\* No overlay is raised for a series that is over.
IgnoresAllEnds(r) == r.phase \in Terminal
Ignores(r) == wizard = <<>> /\ r.phase \in Terminal

\* onWizard, with maybePlayCue.
onWizard ==
  /\ toPhone # <<>>
  /\ toPhone' = Tail(toPhone)
  /\ missed' = FALSE
  /\ LET r == Head(toPhone) IN
       IF Ignores(r)
       THEN UNCHANGED <<wizard, cueKey, stopped>>
       ELSE wizard' = <<r>> /\ cueKey' = KeyAfter(r) /\ stopped' = FALSE
  /\ UNCHANGED <<vars, linked, toHost, outages, taps>>

\* sendFeedback: if the socket is down the driver is told, and that is all.
sendFeedback(e) ==
  /\ taps < MaxTaps
  /\ taps' = taps + 1
  /\ toHost' = IF linked THEN Append(toHost, e) ELSE toHost
  /\ UNCHANGED <<vars, linked, toPhone, outages, missed>>

\* What the overlay offers in phase p besides STOP.
Offered(p) ==
  CASE p = "feedback"    -> {"SUCCESS", "FAIL"}
    [] p = "retryPrompt" -> {"SKIP"}
    [] OTHER             -> {}

Verdict ==
  /\ wizard # <<>>
  /\ \E e \in Offered(wizard[1].phase) : sendFeedback(e)
  /\ UNCHANGED <<wizard, cueKey, stopped>>

\* requestStop: tell the host, and free the driver whether it hears or not.
requestStop ==
  /\ wizard # <<>> /\ wizard[1].phase \notin Terminal \cup {"idle"}
  /\ sendFeedback("ABANDON")
  /\ wizard' = <<>> /\ cueKey' = <<>> /\ stopped' = TRUE

dismissWizard ==
  /\ wizard # <<>> /\ wizard[1].phase \in Terminal
  /\ wizard' = <<>> /\ cueKey' = <<>> /\ stopped' = TRUE
  /\ UNCHANGED <<vars, channelVars, taps, missed>>

-----------------------------------------------------------------------------
(* The way between them.                                                   *)

LinkFails ==
  /\ linked /\ outages < MaxOutages
  /\ linked' = FALSE /\ outages' = outages + 1
  /\ toPhone' = <<>> /\ toHost' = <<>>
  /\ missed' = (missed \/ toPhone # <<>>)
  /\ UNCHANGED <<vars, phoneVars, stopped>>

LinkReturns ==
  /\ ~linked
  /\ linked' = TRUE
  /\ UNCHANGED <<vars, toPhone, toHost, outages, phoneVars, historyVars>>

RelayNext ==
  \/ HostStep \/ onTrialFeedback \/ PanelCloses
  \/ onWizard \/ Verdict \/ requestStop \/ dismissWizard
  \/ LinkFails \/ LinkReturns

RelaySpec == RelayInit /\ [][RelayNext]_relayVars

\* Timers that are due run and messages on their way arrive.  Nothing is owed
\* by the operator, the driver or the radio.
RelayFairSpec ==
  /\ RelaySpec
  /\ WF_relayVars(HostRuns(CueDone) /\ UNCHANGED toHost)
  /\ WF_relayVars(HostRuns(TimerFires) /\ UNCHANGED toHost)
  /\ WF_relayVars(onTrialFeedback) /\ WF_relayVars(onWizard)

-----------------------------------------------------------------------------
(* Properties.                                                             *)

\* Whatever the phone and the radio do, the host goes through a behaviour of
\* WizardHost with verdicts that come at any time, so what is proved of the
\* host holds beside a phone.
ImplementsHost == Spec

\* The phone tells the driver the truth (WizardOverlay.svelte, "every value
\* comes from relayed host state"): with nothing on its way and nothing lost
\* since the last relay it shows the host's state, and it shows a running
\* series unless the driver has put the overlay away.
ViewerTruthful ==
  toPhone = <<>> /\ ~missed =>
    /\ wizard # <<>> => wizard[1] = Current
    /\ Running /\ ~stopped => wizard # <<>>

\* "BEEP once per cue" (store.svelte.ts): a relay that says a cue is playing
\* sounds unless the relay before it was about the same cue, however often a
\* state is relayed and whatever test is replayed.
EachCueBeepsOnce ==
  [][LET r == Head(toPhone) IN
       onWizard /\ r.phase = "cueing" /\ ~missed =>
         (Sounds(r) <=> (wizard # <<>> => wizard[1].cue # r.cue
                                          \/ wizard[1].phase # "cueing"))]_relayVars

\* "abandon is the universal escape" (store.svelte.ts): a STOP that was sent and
\* not lost ends the series whatever phase the host has reached by then.
StopEndsSeries == ("ABANDON" \in Range(toHost)) ~> (~Running \/ ~linked)

\* The guard-rail (WIZARD.md): a series in which the phone is left alone reaches
\* its end with no press on the cockpit either.
UnattendedEnds == Running ~> (~Running \/ taps > 0)
=============================================================================
