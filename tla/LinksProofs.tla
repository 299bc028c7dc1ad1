---------------------------- MODULE LinksProofs ----------------------------
(***************************************************************************)
(* Safety of the two connections for any number of clients and any backoff: *)
(* the cockpit has one stream and a pill that never claims one it has not, *)
(* the phone one socket or one timer.  The two share no variable, so each  *)
(* has an inductive invariant of its own.                                  *)
(***************************************************************************)
EXTENDS Links, TLAPS

-----------------------------------------------------------------------------
(* The phone *)

PhoneInv == CopilotTypeOK /\ NoRivalTimer

\* The phone's delay never passes its limit.
LEMMA MoreBounded ==
  ASSUME NEW b \in 0 .. PhoneBackoff
  PROVE  More(b) \in 0 .. PhoneBackoff
  BY CopilotLinkConstants DEF More

\* open() leaves either a new socket or a timer, whatever there was before.
LEMMA OpeningLeaves ==
  ASSUME PhoneInv, NEW b \in 0 .. PhoneBackoff, Opening(b, FALSE)
  PROVE  /\ sock' \in {"none", "connecting"} /\ pending' \in BOOLEAN
         /\ conn' \in {"connecting", "reconnecting"}
         /\ backoff' \in 0 .. PhoneBackoff
         /\ pending' => sock' = "none"
  BY MoreBounded DEF Opening, Rescheduled, PhoneInv, CopilotTypeOK

\* The phone's invariant holds of a page that opens.
LEMMA PhoneInit == CopilotInit => PhoneInv
<1>1. 0 \in 0 .. PhoneBackoff BY CopilotLinkConstants
<1> QED BY <1>1 DEF CopilotInit, PhoneInv, CopilotTypeOK, NoRivalTimer, ClaimsOpen

\* Every step of the phone keeps it.
LEMMA PhoneKeeps == PhoneInv /\ [CopilotNext]_copilotVars => PhoneInv'
<1> SUFFICES ASSUME PhoneInv, [CopilotNext]_copilotVars PROVE PhoneInv'
  OBVIOUS
<1> USE DEF PhoneInv, CopilotTypeOK, NoRivalTimer, ClaimsOpen
<1>0. 0 \in 0 .. PhoneBackoff /\ backoff \in 0 .. PhoneBackoff
  BY CopilotLinkConstants
<1>1. CASE Mount BY <1>0, <1>1, OpeningLeaves DEF Mount
<1>2. CASE Unmount BY <1>2 DEF Unmount
<1>3. CASE TimerFires BY <1>0, <1>3, OpeningLeaves DEF TimerFires
<1>4. CASE PhoneOpens BY <1>0, <1>4 DEF PhoneOpens
<1>5. CASE PhoneCloses BY <1>0, <1>5, MoreBounded DEF PhoneCloses, Rescheduled
<1>6. CASE Hears BY <1>6 DEF Hears
<1>7. CASE Watchdog BY <1>0, <1>7, OpeningLeaves DEF Watchdog, Forced
<1>8. CASE Hide BY <1>8 DEF Hide
<1>9. CASE Show
  <2>1. CASE life = "on" /\ (~ClaimsOpen \/ silent)
    BY <1>0, <1>9, <2>1, OpeningLeaves DEF Show, Forced
  <2>2. CASE ~(life = "on" /\ (~ClaimsOpen \/ silent))
    BY <1>9, <2>2 DEF Show
  <2> QED BY <2>1, <2>2
<1>10. CASE Resumes BY <1>0, <1>10, OpeningLeaves DEF Resumes, Forced
<1>11. CASE Dies BY <1>11 DEF Dies
<1>12. CASE FallsSilent BY <1>12 DEF FallsSilent
<1>13. CASE UNCHANGED copilotVars BY <1>13 DEF copilotVars
<1> QED
  BY <1>1, <1>2, <1>3, <1>4, <1>5, <1>6, <1>7, <1>8, <1>9, <1>10, <1>11,
     <1>12, <1>13 DEF CopilotNext

\* Every step of the system is a step of the phone or leaves it alone.
LEMMA PhoneSteps == [Next]_linksVars => [CopilotNext]_copilotVars
  BY DEF Next, linksVars, CockpitStarts, CockpitStops, CockpitStep, PhoneStep,
         PhoneGreets, CopilotNext

\* The phone's type invariant, and at most one of a socket and a reconnect
\* timer: no late timer tears a good socket down.
THEOREM PhoneSafe == Spec => [](CopilotTypeOK /\ NoRivalTimer)
<1>1. Init => PhoneInv BY PhoneInit DEF Init
<1>2. PhoneInv /\ [Next]_linksVars => PhoneInv' BY PhoneKeeps, PhoneSteps
<1>3. PhoneInv => CopilotTypeOK /\ NoRivalTimer BY DEF PhoneInv
<1> QED BY <1>1, <1>2, <1>3, PTL DEF Spec

\* The client itself never gives up a socket that still speaks.
THEOREM PhoneKeepsHealthy == Spec => HealthyKept
<1>1. PhoneInv /\ [Next]_linksVars =>
        [sock = "open" /\ ~silent /\ (TimerFires \/ Watchdog \/ Show \/ Resumes) =>
           sock' = "open"]_copilotVars
  <2> SUFFICES ASSUME PhoneInv, sock = "open", ~silent,
                      TimerFires \/ Watchdog \/ Show \/ Resumes
               PROVE  sock' = "open"
    OBVIOUS
  <2> QED BY DEF PhoneInv, NoRivalTimer, TimerFires, Watchdog, Stalled, Show,
                 Resumes, ClaimsOpen
<1>2. Init => PhoneInv BY PhoneInit DEF Init
<1>3. PhoneInv /\ [Next]_linksVars => PhoneInv' BY PhoneKeeps, PhoneSteps
<1> QED BY <1>1, <1>2, <1>3, PTL DEF Spec, HealthyKept

-----------------------------------------------------------------------------
(* The cockpit *)

\* A client that is well formed on its own: a socket or a timer, never both.
Sound(c) ==
  /\ c \in ClientType /\ (c.ws # "none" => c.state = c.ws /\ ~c.retry)
  /\ c.ws = "closing" => c.intentional

\* A client that gets batches or will open a socket again.
Lives(c) == c.ws \in {"connecting", "open"} \/ c.retry

\* Nothing was made, nothing was reported.  Without it Disconnect could be
\* pressed before there is a client.
QuietAtFirst == made = 0 => pill = "idle"

CockpitInv == CockpitTypeOK /\ OneStream /\ PillNeverClaims /\ QuietAtFirst

\* A client that is made is sound and has no socket yet.
LEMMA NewSound == ASSUME NEW valid \in BOOLEAN
                  PROVE Sound(NewClient(valid)) /\ ~Lives(NewClient(valid))
                        /\ ~NewClient(valid).intentional
  BY CockpitLinkConstants DEF Sound, Lives, NewClient, ClientType, States

\* A reconnect timer is all that scheduleReconnect() adds.
LEMMA ScheduledSound ==
  ASSUME NEW c \in ClientType, c.ws = "none"
  PROVE  /\ Sound(Scheduled(c)) /\ Scheduled(c).state = c.state
         /\ Scheduled(c).intentional = c.intentional
         /\ Lives(Scheduled(c)) => ~c.intentional \/ Lives(c)
<1>1. CASE c.intentional
  BY <1>1 DEF Sound, Scheduled, ClientType, Lives
<1>2. CASE ~c.intentional
  <2>1. (IF c.delay < MaxBackoff THEN c.delay + 1 ELSE c.delay) \in 0 .. MaxBackoff
    BY CockpitLinkConstants DEF ClientType
  <2> QED BY <1>2, <2>1 DEF Sound, Scheduled, ClientType, Lives
<1> QED BY <1>1, <1>2 DEF ClientType

\* It starts without a socket.
LEMMA NewIdle == ASSUME NEW valid PROVE NewClient(valid).ws = "none"
  BY DEF NewClient

\* A socket is made for a sound client, or the address is refused.
LEMMA MadeSound ==
  ASSUME NEW c, Sound(c), c.ws = "none"
  PROVE  /\ Sound(SocketMade(c)) /\ SocketMade(c).state # "open"
         /\ SocketMade(c).intentional = c.intentional
<1>1. CASE c.valid
  BY <1>1 DEF Sound, SocketMade, ClientType, States
<1>2. CASE ~c.valid
  <2> DEFINE e == [c EXCEPT !.state = "error", !.retry = FALSE]
  <2>1. e \in ClientType /\ e.ws = "none" /\ e.state = "error"
        /\ e.intentional = c.intentional
    BY DEF Sound, ClientType, States
  <2>2. SocketMade(c) = Scheduled(e) BY <1>2 DEF SocketMade
  <2> HIDE DEF e
  <2> QED BY <2>1, <2>2, ScheduledSound
<1> QED BY <1>1, <1>2 DEF Sound, ClientType

\* The socket of a sound client opens.
LEMMA OpenedSound ==
  ASSUME NEW c, Sound(c), c.ws = "connecting"
  PROVE  /\ Sound(Opened(c)) /\ Opened(c).ws = "open"
         /\ Opened(c).intentional = c.intentional
<1>1. 0 \in 0 .. MaxBackoff BY CockpitLinkConstants
<1> QED BY <1>1 DEF Sound, Opened, ClientType, States

\* It closes: a retry is planned unless the close was meant.
LEMMA ClosedSound ==
  ASSUME NEW c, Sound(c), c.ws # "none"
  PROVE  /\ Sound(Closed(c)) /\ Closed(c).state = "closed"
         /\ Closed(c).intentional = c.intentional
         /\ Lives(Closed(c)) => ~c.intentional /\ Lives(c)
<1> DEFINE d == [c EXCEPT !.ws = "none", !.state = "closed"]
<1>1. d \in ClientType /\ d.ws = "none" /\ d.state = "closed"
      /\ d.intentional = c.intentional /\ d.retry = c.retry
  BY DEF Sound, ClientType, States
<1>2. Closed(c) = Scheduled(d) BY DEF Closed
<1>3. ~c.retry /\ (~c.intentional => Lives(c)) BY DEF Sound, ClientType, Lives
<1> HIDE DEF d
<1> QED BY <1>1, <1>2, <1>3, ScheduledSound DEF Lives

\* A client that is disconnected lives no more.
LEMMA RetiredSound ==
  ASSUME NEW c, Sound(c)
  PROVE  /\ Sound(Retired(c)) /\ ~Lives(Retired(c))
         /\ Retired(c).state \in {"closing", "closed"}
<1>1. CASE c.ws = "none" BY <1>1 DEF Sound, Retired, ClientType, States, Lives
<1>2. CASE c.ws # "none" BY <1>2 DEF Sound, Retired, ClientType, States, Lives
<1> QED BY <1>1, <1>2

\* The cockpit's invariant for a state of the clients, in terms of the above.
Held(n, f, p) ==
  /\ n \in 0 .. MaxClients /\ p \in States /\ f \in [Clients -> ClientType]
  /\ \A i \in Clients :
       /\ Sound(f[i]) /\ (i > n => f[i] = NewClient(TRUE))
       /\ Lives(f[i]) => i = n /\ ~f[i].intentional
  /\ p = "open" => f[n].ws = "open"
  /\ n = 0 => p = "idle"

\* The cockpit's invariant, said of a list of clients.
LEMMA InvIsHeld == CockpitInv <=> Held(made, client, pill)
  BY DEF CockpitInv, CockpitTypeOK, OneStream, PillNeverClaims, QuietAtFirst, Held,
         Sound, Lives

\* Client i may go to state c if c is sound and only the last client lives.
LEMMA BecomesKeeps ==
  ASSUME NEW n, NEW f, NEW p, Held(n, f, p),
         NEW i \in Clients, i <= n, NEW c, Sound(c),
         Lives(c) => i = n /\ ~c.intentional,
         c.state = "open" => i = n /\ c.ws = "open"
  PROVE  Held(n, [f EXCEPT ![i] = c], c.state)
<1> DEFINE g == [f EXCEPT ![i] = c]
<1>1. g \in [Clients -> ClientType] /\ c.state \in States BY DEF Held, Sound, ClientType
<1>2. \A j \in Clients : g[j] = IF j = i THEN c ELSE f[j] BY DEF Held
<1>3. n # 0 BY DEF Clients, Held
<1> HIDE DEF g
<1>4. \A j \in Clients :
        /\ Sound(g[j]) /\ (j > n => g[j] = NewClient(TRUE))
        /\ Lives(g[j]) => j = n /\ ~g[j].intentional
  <2> SUFFICES ASSUME NEW j \in Clients
               PROVE  /\ Sound(g[j]) /\ (j > n => g[j] = NewClient(TRUE))
                      /\ Lives(g[j]) => j = n /\ ~g[j].intentional
    OBVIOUS
  <2>1. CASE j = i
    <3>1. ~(j > n) BY <2>1 DEF Held, Clients
    <3> QED BY <1>2, <2>1, <3>1
  <2>2. CASE j # i BY <1>2, <2>2 DEF Held
  <2> QED BY <2>1, <2>2
<1>5. c.state = "open" => g[n].ws = "open" BY <1>2
<1>6. Held(n, g, c.state) BY <1>1, <1>3, <1>4, <1>5 DEF Held
<1> QED BY <1>6 DEF g

\* Connecting retires the client before and makes the next.
LEMMA ConnectKeeps == ASSUME CockpitInv, Connect PROVE CockpitInv'
<1> DEFINE n == made + 1
<1>1. PICK valid \in BOOLEAN :
        client' = [i \in Clients |->
                     IF i = made THEN Retired(client[i])
                     ELSE IF i = n THEN SocketMade(NewClient(valid))
                     ELSE client[i]]
  BY DEF Connect
<1> DEFINE new == SocketMade(NewClient(valid))
<1>2. Held(made, client, pill) BY InvIsHeld
<1>3. n \in Clients /\ n \in 0 .. MaxClients /\ made' = n /\ n # made /\ n # 0
  <2>1. made \in 0 .. MaxClients /\ made < MaxClients /\ made' = n
    BY <1>2 DEF Connect, Held
  <2> QED BY <2>1, CockpitLinkConstants DEF Clients
<1>4. Sound(new) /\ new.state # "open" /\ ~new.intentional
  BY NewSound, MadeSound, NewIdle
<1>5. client'[n] = new /\ pill' = new.state BY <1>1, <1>3 DEF Connect
<1> HIDE DEF new
<1>6. \A i \in Clients :
        /\ Sound(client'[i]) /\ (i > n => client'[i] = NewClient(TRUE))
        /\ Lives(client'[i]) => i = n /\ ~client'[i].intentional
  <2> SUFFICES ASSUME NEW i \in Clients
               PROVE  /\ Sound(client'[i]) /\ (i > n => client'[i] = NewClient(TRUE))
                      /\ Lives(client'[i]) => i = n /\ ~client'[i].intentional
    OBVIOUS
  <2>1. CASE i = n
    <3>1. ~(i > n) BY <2>1, <1>3
    <3> HIDE DEF n
    <3> QED BY <2>1, <1>4, <1>5, <3>1
  <2>2. CASE i = made
    <3>1. client'[i] = Retired(client[i]) BY <1>1, <2>2
    <3>2. Sound(client[i]) BY <1>2 DEF Held
    <3>3. ~(i > n) BY <2>2, <1>2 DEF Held
    <3> QED BY <3>1, <3>2, <3>3, RetiredSound
  <2>3. CASE i # n /\ i # made
    <3>1. client'[i] = client[i] BY <1>1, <2>3 DEF new
    <3>2. i > n => i > made BY <1>2 DEF Held, Clients
    <3> QED BY <3>1, <3>2, <1>2, <2>3 DEF Held
  <2> QED BY <2>1, <2>2, <2>3
<1>7. client' \in [Clients -> ClientType]
  <2>1. \A i \in Clients : client'[i] \in ClientType BY <1>6 DEF Sound
  <2>2. client' = [i \in Clients |-> client'[i]] BY <1>1
  <2> QED BY <2>1, <2>2
<1>8. pill' \in States /\ pill' # "open" BY <1>4, <1>5 DEF Sound, ClientType
<1>9. Held(made', client', pill') BY <1>3, <1>6, <1>7, <1>8 DEF Held
<1> QED BY <1>9 DEF CockpitInv, CockpitTypeOK, OneStream, PillNeverClaims,
           QuietAtFirst, Held, Sound, Lives

\* A client with a socket or a timer is one that was made.
LEMMA BusyIsMade ==
  ASSUME CockpitInv, NEW i \in Clients, client[i].ws # "none" \/ client[i].retry
  PROVE  i <= made
  BY DEF CockpitInv, CockpitTypeOK, NewClient, Clients

\* What a step of one client leaves, from what it does to that client.
LEMMA ClientKeeps ==
  ASSUME CockpitInv, NEW i \in Clients, i <= made, NEW c, Becomes(i, c), Sound(c),
         Lives(c) => i = made /\ ~c.intentional,
         c.state = "open" => i = made /\ c.ws = "open"
  PROVE  CockpitInv'
<1>1. Held(made, client, pill) BY InvIsHeld
<1>2. Held(made, [client EXCEPT ![i] = c], c.state) BY <1>1, BecomesKeeps
<1>3. Held(made', client', pill') BY <1>2 DEF Becomes
<1> QED BY <1>3 DEF CockpitInv, CockpitTypeOK, OneStream, PillNeverClaims,
           QuietAtFirst, Held, Sound, Lives

\* Every step of the cockpit's connection keeps the invariant.
LEMMA CockpitKeeps == CockpitInv /\ [CockpitNext]_cockpitVars => CockpitInv'
<1> SUFFICES ASSUME CockpitInv, [CockpitNext]_cockpitVars PROVE CockpitInv'
  OBVIOUS
<1>0. Held(made, client, pill) BY InvIsHeld
<1>1. CASE Connect BY <1>1, ConnectKeeps
<1>2. CASE Disconnect
  <2>1. made \in Clients /\ made <= made BY <1>0, <1>2 DEF Disconnect, Held, Clients
  <2>2. Sound(client[made]) BY <1>0, <2>1 DEF Held
  <2> QED BY <1>2, <2>1, <2>2, RetiredSound, ClientKeeps DEF Disconnect
<1>3. ASSUME NEW i \in Clients, RetryFires(i) PROVE CockpitInv'
  <2> DEFINE c == client[i]
  <2>1. i <= made /\ i = made /\ ~c.intentional /\ Sound(c) /\ c.ws = "none"
    BY <1>0, <1>3, BusyIsMade DEF RetryFires, Held, Lives, Sound
  <2> QED BY <1>3, <2>1, MadeSound, ClientKeeps DEF RetryFires
<1>4. ASSUME NEW i \in Clients, SocketOpens(i) PROVE CockpitInv'
  <2> DEFINE c == client[i]
  <2>1. i <= made /\ i = made /\ ~c.intentional /\ Sound(c) /\ c.ws = "connecting"
    BY <1>0, <1>4, BusyIsMade DEF SocketOpens, Held, Lives, Sound
  <2> QED BY <1>4, <2>1, OpenedSound, ClientKeeps DEF SocketOpens
<1>5. ASSUME NEW i \in Clients, SocketCloses(i) PROVE CockpitInv'
  <2> DEFINE c == client[i]
  <2>1. i <= made /\ Sound(c) /\ c.ws # "none"
    BY <1>0, <1>5, BusyIsMade DEF SocketCloses, Held
  <2>2. Lives(c) => i = made BY <1>0 DEF Held
  <2> QED BY <1>5, <2>1, <2>2, ClosedSound, ClientKeeps DEF SocketCloses
<1>6. CASE UNCHANGED cockpitVars
  BY <1>6 DEF cockpitVars, CockpitInv, CockpitTypeOK, OneStream, PillNeverClaims,
              QuietAtFirst
<1> QED BY <1>1, <1>2, <1>3, <1>4, <1>5, <1>6 DEF CockpitNext

\* It holds of a page that has made no client.
LEMMA CockpitStarting == CockpitInit => CockpitInv
<1> SUFFICES ASSUME CockpitInit PROVE CockpitInv
  OBVIOUS
<1>1. 0 \in 0 .. MaxClients BY CockpitLinkConstants
<1>2. Sound(NewClient(TRUE)) /\ ~Lives(NewClient(TRUE)) BY NewSound
<1>3. client \in [Clients -> ClientType] BY <1>2 DEF CockpitInit, Sound
<1>4. \A i \in Clients : client[i] = NewClient(TRUE) BY DEF CockpitInit
<1>5. Held(made, client, pill)
  BY <1>1, <1>2, <1>3, <1>4 DEF CockpitInit, Held, States
<1> QED BY <1>5, InvIsHeld

\* Every step of the system is a step of the cockpit or leaves it alone.
LEMMA CockpitSteps == [Next]_linksVars => [CockpitNext]_cockpitVars
  BY DEF Next, linksVars, CockpitStarts, CockpitStops, CockpitStep, PhoneStep,
         PhoneGreets

\* The cockpit's type invariant; of all clients ever made only the last one
\* streams or will reconnect; the pill says open only over an open socket.
THEOREM CockpitSafe == Spec => [](CockpitTypeOK /\ OneStream /\ PillNeverClaims)
<1>1. Init => CockpitInv BY CockpitStarting DEF Init
<1>2. CockpitInv /\ [Next]_linksVars => CockpitInv' BY CockpitKeeps, CockpitSteps
<1>3. CockpitInv => CockpitTypeOK /\ OneStream /\ PillNeverClaims BY DEF CockpitInv
<1> QED BY <1>1, <1>2, <1>3, PTL DEF Spec
=============================================================================
