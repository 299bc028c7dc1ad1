---------------------------- MODULE CockpitLink ----------------------------
(***************************************************************************)
(* The cockpit's connection: state/store.ts makes a new ProtocolClient     *)
(* (protocol/client.ts) for every press of Connect and retires the one     *)
(* before it; each client owns a WebSocket, a reconnect timer and a        *)
(* backoff, and reports its state to one connection pill.                  *)
(*                                                                         *)
(* External: the browser's WebSocket.  An error event and the close event  *)
(* after it come from one task; once close() was called no message and no  *)
(* open event is delivered, only the close event, some time later.         *)
(*                                                                         *)
(* What is sent and received is left out: the stream is Engine, the        *)
(* control messages Server.                                                *)
(***************************************************************************)
EXTENDS Integers

CONSTANTS
  MaxClients, \* bound: presses of Connect
  MaxBackoff  \* doublings between reconnectDelayMs and maxReconnectDelayMs

ASSUME CockpitLinkConstants == MaxClients \in Nat /\ MaxBackoff \in Nat

VARIABLES
  made,   \* ProtocolClients made so far; the last is the store's client
  client, \* their state
  pill    \* connectionState, as the last report of any of them left it

cockpitVars == <<made, client, pill>>

States == {"idle", "connecting", "open", "closing", "closed", "error"}

Clients == 1 .. MaxClients

ClientType ==
  [ws : {"none", "connecting", "open", "closing"}, state : States,
   retry : BOOLEAN, delay : 0 .. MaxBackoff, intentional : BOOLEAN, valid : BOOLEAN]

\* A client as its constructor leaves it; a url may be refused by the browser.
NewClient(valid) ==
  [ws |-> "none", state |-> "idle", retry |-> FALSE, delay |-> 0,
   intentional |-> FALSE, valid |-> valid]

-----------------------------------------------------------------------------
(* ProtocolClient: what its methods and callbacks make of its state *)

\* scheduleReconnect
Scheduled(c) ==
  IF c.intentional THEN c
  ELSE [c EXCEPT !.retry = TRUE, !.delay = IF @ < MaxBackoff THEN @ + 1 ELSE @]

\* openSocket, from connect() or the timer
SocketMade(c) ==
  IF c.valid THEN [c EXCEPT !.ws = "connecting", !.state = "connecting", !.retry = FALSE]
  ELSE Scheduled([c EXCEPT !.state = "error", !.retry = FALSE])

Opened(c) == [c EXCEPT !.ws = "open", !.state = "open", !.delay = 0]

\* Mutant: a socket that closes is only replaced if it was open before.
ClosedForGood(c) ==
  LET d == [c EXCEPT !.ws = "none", !.state = "closed"]
  IN  IF c.ws = "open" THEN Scheduled(d) ELSE d

Closed(c) == Scheduled([c EXCEPT !.ws = "none", !.state = "closed"])

\* Mutant: the reconnect timer outlives disconnect().
RetiredTicking(c) ==
  [c EXCEPT !.intentional = TRUE, !.ws = IF @ = "none" THEN @ ELSE "closing",
            !.state = IF c.ws = "none" THEN "closed" ELSE "closing"]

\* disconnect
Retired(c) ==
  [c EXCEPT !.intentional = TRUE, !.retry = FALSE,
            !.ws = IF @ = "none" THEN @ ELSE "closing",
            !.state = IF c.ws = "none" THEN "closed" ELSE "closing"]

-----------------------------------------------------------------------------
(* The store and the browser *)

\* Client i goes to state c and reports it.
Becomes(i, c) ==
  /\ client' = [client EXCEPT ![i] = c]
  /\ pill' = c.state
  /\ UNCHANGED made

\* The Connect button, which is shown whenever the pill is not open.
Connect ==
  /\ pill # "open" /\ made < MaxClients
  /\ made' = made + 1
  /\ \E valid \in BOOLEAN :
       client' = [i \in Clients |->
                    IF i = made THEN Retired(client[i])
                    ELSE IF i = made + 1 THEN SocketMade(NewClient(valid))
                    ELSE client[i]]
  /\ pill' = client'[made + 1].state

\* The Disconnect button.
Disconnect == pill = "open" /\ Becomes(made, Retired(client[made]))

RetryFires(i) == client[i].retry /\ Becomes(i, SocketMade(client[i]))

SocketOpens(i) == client[i].ws = "connecting" /\ Becomes(i, Opened(client[i]))

\* The connection fails, the server closes it, or a close() gets through.
SocketCloses(i) == client[i].ws # "none" /\ Becomes(i, Closed(client[i]))

CockpitInit ==
  /\ made = 0 /\ pill = "idle"
  /\ client = [i \in Clients |-> NewClient(TRUE)]

CockpitNext ==
  \/ Connect \/ Disconnect
  \/ \E i \in Clients : RetryFires(i) \/ SocketOpens(i) \/ SocketCloses(i)

\* Timers fire, a close() is answered or given up, and a server that is tried
\* over and over is there in the end.
CockpitFairness ==
  \A i \in Clients :
    /\ WF_cockpitVars(RetryFires(i)) /\ SF_cockpitVars(SocketOpens(i))
    /\ WF_cockpitVars(client[i].ws = "closing" /\ SocketCloses(i))

-----------------------------------------------------------------------------
(* Properties *)

\* Type invariant: a client has a socket or a timer that will make the next
\* one, never both, and its state tells which.
CockpitTypeOK ==
  /\ made \in 0 .. MaxClients /\ pill \in States
  /\ client \in [Clients -> ClientType]
  /\ \A i \in Clients :
       LET c == client[i]
       IN  /\ c.ws # "none" => c.state = c.ws /\ ~c.retry
           /\ c.ws = "closing" => c.intentional
           /\ i > made => c = NewClient(TRUE)

\* A session has one stream: of all the clients made, only the last can get a
\* batch or will ever open a socket again, however many timers and closing
\* sockets the others left.
OneStream ==
  \A i \in Clients :
    client[i].ws \in {"connecting", "open"} \/ client[i].retry =>
      i = made /\ ~client[i].intentional

\* Whatever a retired client reports late, the pill is open only if the current
\* client's socket is.  (The converse fails: a late close report of a retired
\* client shows "closed" over an open connection.)
PillNeverClaims == pill = "open" => client[made].ws = "open"

\* "reconnect with backoff" (client.ts:15): as long as the operator does not
\* disconnect, a client that lost its server, or never reached it, gets there.
CockpitReconnects ==
  \A i \in Clients :
    (i = made /\ client[i].valid /\ ~client[i].intentional) ~>
      (client[i].ws = "open" \/ client[i].intentional)
=============================================================================
