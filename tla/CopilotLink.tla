---------------------------- MODULE CopilotLink ----------------------------
(***************************************************************************)
(* The phone's connection: CanWsClient (copilot/src/protocol/client.ts),   *)
(* mounted by lib/store.svelte.ts.  A phone that sleeps or moves may lose  *)
(* a socket without any event, so the client also looks at the silence of  *)
(* its socket, when the page is shown again and once a second while it is  *)
(* visible.                                                                *)
(*                                                                         *)
(* External: the browser, and a server that sends something (the periodic  *)
(* status at least) well within the stall timeout.                         *)
(***************************************************************************)
EXTENDS Integers

CONSTANTS
  PhoneBackoff \* doublings between minBackoffMs and maxBackoffMs

ASSUME CopilotLinkConstants == PhoneBackoff \in Nat

VARIABLES
  urlOK,   \* the browser accepts the url
  life,    \* "new", "on" after connect(), "off" after close()
  sock,    \* this.ws; "lost" still claims to be open but nothing comes
  conn,    \* this.state
  pending, \* reconnectTimer is set
  backoff, \* doublings so far
  silent,  \* lastMsgAt is further back than stallTimeoutMs
  visible  \* document.visibilityState

copilotVars == <<urlOK, life, sock, conn, pending, backoff, silent, visible>>

ClaimsOpen == sock \in {"open", "lost"}

-----------------------------------------------------------------------------
(* The client's methods *)

More(b) == IF b < PhoneBackoff THEN b + 1 ELSE b

\* Mutant: the timer is set beside a socket that is left alone.
RescheduledBeside(b) ==
  /\ pending' = TRUE /\ backoff' = More(b)
  /\ conn' = "reconnecting" /\ UNCHANGED sock

\* scheduleReconnect
Rescheduled(b) ==
  /\ sock' = "none" /\ pending' = TRUE
  /\ conn' = "reconnecting" /\ backoff' = More(b)

\* open(): drop the socket there is and make another.
Opening(b, timer) ==
  IF urlOK
    THEN /\ sock' = "connecting" /\ pending' = timer
         /\ conn' = IF b > 0 THEN "reconnecting" ELSE "connecting"
         /\ backoff' = b
    ELSE Rescheduled(b)

\* forceReconnect
Forced == Opening(0, FALSE)

\* connect()
Mount ==
  /\ life = "new"
  /\ life' = "on" /\ Opening(backoff, FALSE)
  /\ UNCHANGED <<urlOK, silent, visible>>

\* close()
Unmount ==
  /\ life = "on"
  /\ life' = "off" /\ sock' = "none" /\ pending' = FALSE /\ conn' = "closed"
  /\ UNCHANGED <<urlOK, backoff, silent, visible>>

TimerFires ==
  /\ pending
  /\ Opening(backoff, FALSE)
  /\ UNCHANGED <<urlOK, life, silent, visible>>

\* onopen
PhoneOpens ==
  /\ sock = "connecting"
  /\ sock' = "open" /\ conn' = "open" /\ backoff' = 0 /\ silent' = FALSE
  /\ UNCHANGED <<urlOK, life, pending, visible>>

\* onclose: the connection failed or the server closed it.
PhoneCloses ==
  /\ sock # "none"
  /\ Rescheduled(backoff)
  /\ UNCHANGED <<urlOK, life, silent, visible>>

\* onmessage
Hears ==
  /\ sock = "open" /\ silent' = FALSE
  /\ UNCHANGED <<urlOK, life, sock, conn, pending, backoff, visible>>

\* Mutant: the watchdog only looks at sockets that do not claim to be open.
NotClaimed == conn # "open" /\ silent

Stalled == conn = "open" /\ silent

\* The stall watchdog.
Watchdog ==
  /\ life = "on" /\ visible /\ Stalled
  /\ Forced
  /\ UNCHANGED <<urlOK, life, silent, visible>>

Hide ==
  /\ visible /\ visible' = FALSE
  /\ UNCHANGED <<urlOK, life, sock, conn, pending, backoff, silent>>

\* visibilitychange to visible
Show ==
  /\ ~visible /\ visible' = TRUE
  /\ IF life = "on" /\ (~ClaimsOpen \/ silent) THEN Forced
     ELSE UNCHANGED <<sock, conn, pending, backoff>>
  /\ UNCHANGED <<urlOK, life, silent>>

\* pageshow and online
Resumes ==
  /\ life = "on" /\ ~ClaimsOpen
  /\ Forced
  /\ UNCHANGED <<urlOK, life, silent, visible>>

-----------------------------------------------------------------------------
(* The phone *)

\* The socket dies and no event says so.
Dies ==
  /\ sock = "open" /\ sock' = "lost"
  /\ UNCHANGED <<urlOK, life, conn, pending, backoff, silent, visible>>

\* The stall timeout passes without a message: the socket is dead, or the page
\* hidden and its events held back.
FallsSilent ==
  /\ ClaimsOpen /\ ~silent
  /\ sock = "lost" \/ ~visible
  /\ silent' = TRUE
  /\ UNCHANGED <<urlOK, life, sock, conn, pending, backoff, visible>>

CopilotInit ==
  /\ life = "new" /\ sock = "none" /\ conn = "idle" /\ pending = FALSE
  /\ backoff = 0 /\ silent = FALSE /\ visible \in BOOLEAN
  /\ urlOK \in BOOLEAN

CopilotNext ==
  \/ Mount \/ Unmount \/ TimerFires \/ PhoneOpens \/ PhoneCloses \/ Hears
  \/ Watchdog \/ Hide \/ Show \/ Resumes \/ Dies \/ FallsSilent

\* Timers fire, time passes, and a server that is tried over and over is there
\* in the end.  Nothing is owed about a dead socket's close event.
CopilotFairness ==
  /\ WF_copilotVars(TimerFires) /\ WF_copilotVars(Watchdog)
  /\ WF_copilotVars(FallsSilent) /\ SF_copilotVars(PhoneOpens)

-----------------------------------------------------------------------------
(* Properties *)

\* Type invariant: what the pill says is what the socket claims, and after
\* close() neither a socket nor a timer is left.
CopilotTypeOK ==
  /\ life \in {"new", "on", "off"} /\ sock \in {"none", "connecting", "open", "lost"}
  /\ conn \in {"idle", "connecting", "open", "reconnecting", "closed"}
  /\ pending \in BOOLEAN /\ backoff \in 0 .. PhoneBackoff
  /\ silent \in BOOLEAN /\ visible \in BOOLEAN /\ urlOK \in BOOLEAN
  /\ conn = "open" <=> ClaimsOpen
  /\ life # "on" => sock = "none" /\ ~pending

\* A reconnect timer never ticks beside a socket: a late one would tear a
\* socket down that is fine.
NoRivalTimer == pending => sock = "none"

\* The client itself gives up a live socket only after a silence.
HealthyKept ==
  [][sock = "open" /\ ~silent /\ (TimerFires \/ Watchdog \/ Show \/ Resumes) =>
       sock' = "open"]_copilotVars

\* copilot/README.md:171-182: whichever way the socket died, with an event or
\* without, before the page was hidden or after, a page that is looked at gets
\* a live one.
PhoneRecovers ==
  (urlOK /\ life = "on" /\ visible) ~> (sock = "open" \/ ~visible \/ life = "off")
=============================================================================
