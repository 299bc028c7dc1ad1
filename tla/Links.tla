------------------------------- MODULE Links -------------------------------
(***************************************************************************)
(* A cockpit and a phone connected to one backend, which streams from one  *)
(* source at a time and lets every client start another (server.py).  The  *)
(* phone says hello and asks for the simulator whenever its socket opens   *)
(* (copilot/src/App.svelte, protocol/client.ts).  How the backend handles  *)
(* a start is Engine, how it tells the others Server; here a start takes   *)
(* effect at once.                                                         *)
(***************************************************************************)
EXTENDS CockpitLink, CopilotLink

VARIABLE source \* who started the source that runs: "cockpit", "phone", "none"

linksVars == <<cockpitVars, copilotVars, source>>

\* The Start and Stop buttons.
CockpitStarts ==
  /\ pill = "open" /\ source' = "cockpit"
  /\ UNCHANGED <<cockpitVars, copilotVars>>

CockpitStops ==
  /\ pill = "open" /\ source' = "none"
  /\ UNCHANGED <<cockpitVars, copilotVars>>

CockpitStep == CockpitNext /\ UNCHANGED <<copilotVars, source>>

\* onopen: hello, then autoStart.
PhoneGreets == PhoneOpens /\ source' = "phone" /\ UNCHANGED cockpitVars

PhoneStep ==
  \/ PhoneGreets
  \/ CopilotNext /\ ~PhoneOpens /\ UNCHANGED <<cockpitVars, source>>

Init == CockpitInit /\ CopilotInit /\ source = "none"

Next == CockpitStarts \/ CockpitStops \/ CockpitStep \/ PhoneStep

Spec == Init /\ [][Next]_linksVars

FairSpec == Spec /\ CockpitFairness /\ CopilotFairness
=============================================================================
