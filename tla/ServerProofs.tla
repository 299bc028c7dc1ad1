---------------------------- MODULE ServerProofs ----------------------------
(***************************************************************************)
(* Proofs about Server: what every wait is for, and that the relay loses,  *)
(* repeats and reorders nothing of what one client sends to another.       *)
(***************************************************************************)
EXTENDS Server, SequenceTheorems, TLAPS

Sends == [task : Tasks, msg : Messages]

\* Each wait of a task is for one queued send of its own.
WaitsFor(q, o) ==
  /\ \A c \in Clients, t \in Tasks :
       c \in o[t] <=> \E i \in DOMAIN q[c] : q[c][i].task = t
  /\ \A c \in Clients : \A i, j \in DOMAIN q[c] : q[c][i].task = q[c][j].task => i = j

-----------------------------------------------------------------------------
(* Sequences.                                                              *)

\* The parts of a sequence with one more element.
LEMMA Appended ==
  ASSUME NEW M, NEW ms \in Seq(M), NEW m \in M
  PROVE  /\ Append(ms, m) \in Seq(M)
         /\ DOMAIN Append(ms, m) = DOMAIN ms \cup {Len(ms) + 1}
         /\ \A i \in DOMAIN ms : Append(ms, m)[i] = ms[i] /\ i < Len(ms) + 1
         /\ Append(ms, m)[Len(ms) + 1] = m
         /\ Append(ms, m) # <<>>
<1>1. /\ Append(ms, m) \in Seq(M) /\ DOMAIN Append(ms, m) = 1 .. Len(ms) + 1
      /\ DOMAIN ms = 1 .. Len(ms) /\ Len(ms) \in Nat
      /\ \A i \in 1 .. Len(ms) : Append(ms, m)[i] = ms[i]
      /\ Append(ms, m)[Len(ms) + 1] = m
  BY AppendProperties
<1>2. DOMAIN Append(ms, m) = DOMAIN ms \cup {Len(ms) + 1}
  BY <1>1
<1>3. \A i \in DOMAIN ms : i < Len(ms) + 1
  BY <1>1
<1>4. QED
  BY <1>1, <1>2, <1>3

\* The parts of a sequence without its first element.
LEMMA Shortened ==
  ASSUME NEW M, NEW ms \in Seq(M), ms # <<>>
  PROVE  /\ Tail(ms) \in Seq(M) /\ Head(ms) \in M /\ Head(ms) = ms[1]
         /\ 1 \in DOMAIN ms
         /\ \A i \in DOMAIN Tail(ms) : /\ i + 1 \in DOMAIN ms /\ i \in Nat \ {0}
                                       /\ Tail(ms)[i] = ms[i + 1]
         /\ \A i \in DOMAIN ms \ {1} : /\ i - 1 \in DOMAIN Tail(ms) /\ i > 1
                                       /\ Tail(ms)[i - 1] = ms[i]
<1>1. /\ Tail(ms) \in Seq(M) /\ Head(ms) \in M /\ Head(ms) = ms[1]
      /\ DOMAIN ms = 1 .. Len(ms) /\ Len(ms) \in Nat \ {0}
      /\ DOMAIN Tail(ms) = 1 .. Len(ms) - 1
      /\ \A i \in 1 .. Len(ms) - 1 : Tail(ms)[i] = ms[i + 1]
  BY HeadTailProperties
<1>2. ASSUME NEW i \in DOMAIN Tail(ms)
      PROVE  i + 1 \in DOMAIN ms /\ i \in Nat \ {0} /\ Tail(ms)[i] = ms[i + 1]
  BY <1>1
<1>3. ASSUME NEW i \in DOMAIN ms \ {1}
      PROVE  i - 1 \in DOMAIN Tail(ms) /\ i > 1 /\ Tail(ms)[i - 1] = ms[i]
  <2>1. i - 1 \in 1 .. Len(ms) - 1 /\ (i - 1) + 1 = i /\ i > 1
    BY <1>1
  <2>2. QED
    BY <1>1, <2>1
<1>4. 1 \in DOMAIN ms
  BY <1>1
<1>5. QED
  BY <1>1, <1>2, <1>3, <1>4

-----------------------------------------------------------------------------
(* Type correctness.                                                       *)

\* A task that waits for nothing and sends to some connections then waits for
\* exactly those of them that are open.
LEMMA SendWaits ==
  ASSUME TypeOK, NEW t \in Tasks, on[t] = {}, NEW to \in SUBSET Clients,
         NEW m \in Messages, Send(t, to, m)
  PROVE  /\ on' \in [Tasks -> SUBSET open]
         /\ queue' \in [Clients -> Seq(Sends)]
         /\ \A c \in Clients \ open : queue'[c] = <<>>
         /\ WaitsFor(queue', on')
<1> DEFINE e == [task |-> t, msg |-> m]
<1>1. e \in Sends /\ e.task = t
  BY DEF Sends
<1>2. /\ queue \in [Clients -> Seq(Sends)] /\ on \in [Tasks -> SUBSET open]
      /\ WaitsFor(queue, on) /\ open \subseteq Clients
      /\ \A c \in Clients \ open : queue[c] = <<>>
  BY DEF TypeOK, Sends, WaitsFor
<1>3. /\ on' = [on EXCEPT ![t] = to \cap open]
      /\ queue' = [c \in Clients |->
                     IF c \in to \cap open THEN Append(queue[c], e) ELSE queue[c]]
  BY DEF Send
<1> HIDE DEF e
<1>4. \A c \in to \cap open : \A i \in DOMAIN queue[c] : queue[c][i].task # t
  BY <1>2 DEF WaitsFor
<1>5. /\ on' \in [Tasks -> SUBSET open]
      /\ on'[t] = to \cap open
      /\ \A u \in Tasks \ {t} : on'[u] = on[u]
  BY <1>2, <1>3
<1>6. \A c \in Clients \ (to \cap open) : queue'[c] = queue[c]
  BY <1>3
<1>7. ASSUME NEW c \in to \cap open
      PROVE  /\ queue'[c] \in Seq(Sends)
             /\ DOMAIN queue'[c] = DOMAIN queue[c] \cup {Len(queue[c]) + 1}
             /\ \A i \in DOMAIN queue[c] : queue'[c][i] = queue[c][i]
             /\ queue'[c][Len(queue[c]) + 1] = e
  <2>1. c \in Clients /\ queue'[c] = Append(queue[c], e) /\ queue[c] \in Seq(Sends)
    BY <1>2, <1>3
  <2>2. QED
    BY <1>1, <2>1, Appended
<1>8. queue' \in [Clients -> Seq(Sends)]
  BY <1>2, <1>3, <1>6, <1>7
<1>9. ASSUME NEW c \in Clients, NEW u \in Tasks
      PROVE  c \in on'[u] <=> \E i \in DOMAIN queue'[c] : queue'[c][i].task = u
  <2>1. CASE c \in to \cap open
    BY SMTT(60), <1>1, <1>2, <1>4, <1>5, <1>7, <2>1 DEF WaitsFor
  <2>2. CASE c \notin to \cap open
    BY <1>2, <1>5, <1>6, <2>2 DEF WaitsFor
  <2>3. QED
    BY <2>1, <2>2
<1>10. ASSUME NEW c \in Clients, NEW i \in DOMAIN queue'[c], NEW j \in DOMAIN queue'[c],
              queue'[c][i].task = queue'[c][j].task
       PROVE  i = j
  <2>1. CASE c \in to \cap open
    BY SMTT(60), <1>1, <1>2, <1>4, <1>7, <1>10, <2>1 DEF WaitsFor
  <2>2. CASE c \notin to \cap open
    BY <1>2, <1>6, <1>10, <2>2 DEF WaitsFor
  <2>3. QED
    BY <2>1, <2>2
<1>11. \A c \in Clients \ open : queue'[c] = <<>>
  BY <1>2, <1>6
<1>12. QED
  BY <1>5, <1>8, <1>9, <1>10, <1>11 DEF WaitsFor

\* The initial state is well typed.
LEMMA TypeInit == Init => TypeOK
<1> SUFFICES ASSUME Init PROVE TypeOK
  OBVIOUS
<1>1. /\ [c \in Clients |-> <<>>] \in [Clients -> Seq(Control)]
      /\ [c \in Clients |-> <<>>] \in [Clients -> Seq(Messages)]
      /\ [c \in Clients |-> <<>>] \in [Clients -> Seq(RelayedMessages)]
      /\ [c \in Clients |-> <<>>] \in [Clients -> Seq([task : Tasks, msg : Messages])]
  OBVIOUS
<1>2. [c \in Clients |-> [kind \in ControlKinds |-> 0]]
        \in [Clients -> [ControlKinds -> Nat]]
  OBVIOUS
<1>3. /\ \A c \in Clients : Len(socket[c]) <= SocketCap
      /\ \A c \in Clients : socket[c] = <<>> /\ queue[c] = <<>>
  BY ServerConstants DEF Init
<1>4. /\ \A t \in Tasks : on[t] = {}
      /\ \A c \in Clients : Idle(c)
  BY DEF Init, Idle, Tasks
<1>5. /\ [c \in Clients |-> Null] \in [Clients -> Nat \cup {Null}]
      /\ [t \in Tasks |-> 0] \in [Tasks -> 0 .. 0]
  OBVIOUS
<1>6. WaitsFor(queue, on)
  BY <1>3, <1>4 DEF WaitsFor
<1>7. /\ on \in [Tasks -> SUBSET open] /\ left \in [Tasks -> SUBSET Clients]
      /\ text \in [Tasks -> 0 .. bus] /\ bus \in Nat
  BY <1>5 DEF Init
<1>8. QED
  BY <1>1, <1>2, <1>3, <1>4, <1>5, <1>6, <1>7 DEF Init, TypeOK, WaitsFor

\* What is left to say of a step once its sends are accounted for.
LEMMA TypeRest ==
  ASSUME /\ open' \subseteq live' /\ live' \subseteq Clients /\ live' \ open' \subseteq gone'
         /\ gone' \subseteq Clients /\ open' \cap gone' = {},
         /\ inbox' \in [Clients -> Seq(Control)]
         /\ sent' \in [Clients -> [ControlKinds -> Nat]],
         /\ on' \in [Tasks -> SUBSET open'] /\ left' \in [Tasks -> SUBSET Clients]
         /\ bus' \in Nat /\ text' \in [Tasks -> 0 .. bus'],
         /\ queue' \in [Clients -> Seq(Sends)]
         /\ socket' \in [Clients -> Seq(Messages)]
         /\ heard' \in [Clients -> Seq(RelayedMessages)]
         /\ shown' \in [Clients -> Nat \cup {Null}],
         /\ \A c \in Clients : Len(socket'[c]) <= SocketCap
         /\ \A c \in Clients \ open' : socket'[c] = <<>> /\ queue'[c] = <<>>
         /\ \A c \in Clients \ live' : Idle(c)'
         /\ WaitsFor(queue', on')
  PROVE  TypeOK'
BY DEF TypeOK, WaitsFor, Sends

\* A connection that comes is greeted; one that goes takes its queue with it.
LEMMA TypeConnections ==
  ASSUME TypeOK, NEW c \in Clients, Connect(c) \/ Disconnect(c) \/ HandlerEnds(c)
  PROVE  TypeOK'
<1> DEFINE greeting == [task |-> c, msg |-> Status(bus)]
<1>1. greeting \in Sends /\ greeting.task = c /\ c \in Tasks
  BY DEF Sends, Status, Messages, Tasks, TypeOK
<1>2. WaitsFor(queue, on) /\ queue \in [Clients -> Seq(Sends)] /\ on \in [Tasks -> SUBSET open]
  BY DEF TypeOK, WaitsFor, Sends
<1> HIDE DEF greeting
<1>3. CASE Connect(c)
  <2>1. /\ c \notin open /\ c \notin gone
        /\ open' = open \cup {c} /\ live' = live \cup {c}
        /\ on' = [on EXCEPT ![c] = {c}]
        /\ queue' = [queue EXCEPT ![c] = <<greeting>>]
        /\ UNCHANGED <<inbox, gone, sent, left, text, socket, bus, heard, shown>>
    BY <1>3 DEF Connect, greeting
  <2>2. on[c] = {} /\ c \notin live
    BY <2>1 DEF TypeOK, Idle
  <2>3. on' \in [Tasks -> SUBSET open']
    <3>1. \A u \in Tasks : on'[u] \subseteq open'
      BY <1>1, <1>2, <2>1
    <3>2. QED
      BY <1>2, <2>1, <3>1
  <2>4. <<greeting>> \in Seq(Sends) /\ DOMAIN <<greeting>> = {1} /\ <<greeting>>[1] = greeting
    BY <1>1
  <2>5. queue' \in [Clients -> Seq(Sends)]
    BY <1>2, <2>1, <2>4
  <2>6. WaitsFor(queue', on')
    <3>1. ASSUME NEW d \in Clients, NEW u \in Tasks
          PROVE  d \in on'[u] <=> \E i \in DOMAIN queue'[d] : queue'[d][i].task = u
      <4>1. CASE d = c
        <5>1. queue'[d] = <<greeting>>
          BY <1>2, <2>1, <4>1
        <5>2. d \in on'[u] <=> u = c
          BY <1>1, <1>2, <2>1, <4>1
        <5>3. QED
          BY <1>1, <2>4, <5>1, <5>2
      <4>2. CASE d # c
        <5>1. queue'[d] = queue[d]
          BY <1>2, <2>1, <4>2
        <5>2. d \in on'[u] <=> d \in on[u]
          BY <1>1, <1>2, <2>1, <2>2, <4>2
        <5>3. QED
          BY <1>2, <5>1, <5>2 DEF WaitsFor
      <4>3. QED
        BY <4>1, <4>2
    <3>2. ASSUME NEW d \in Clients, NEW i \in DOMAIN queue'[d], NEW j \in DOMAIN queue'[d],
                 queue'[d][i].task = queue'[d][j].task
          PROVE  i = j
      <4>1. CASE d = c
        BY <1>2, <2>1, <2>4, <4>1
      <4>2. CASE d # c
        BY <1>2, <2>1, <3>2, <4>2 DEF WaitsFor
      <4>3. QED
        BY <4>1, <4>2
    <3>3. QED
      BY <3>1, <3>2 DEF WaitsFor
  <2>7. \A d \in Clients \ open' : socket'[d] = <<>> /\ queue'[d] = <<>>
    BY <1>2, <2>1 DEF TypeOK
  <2>8. \A d \in Clients \ live' : Idle(d)'
    BY <1>2, <2>1 DEF TypeOK, Idle, Tasks
  <2>9. /\ open' \subseteq live' /\ live' \subseteq Clients /\ live' \ open' \subseteq gone'
        /\ gone' \subseteq Clients /\ open' \cap gone' = {}
    BY <2>1 DEF TypeOK
  <2>10. QED
    BY <2>1, <2>3, <2>5, <2>6, <2>7, <2>8, <2>9, TypeRest DEF TypeOK
<1>4. CASE Disconnect(c)
  <2>1. /\ c \in open
        /\ open' = open \ {c} /\ gone' = gone \cup {c}
        /\ queue' = [queue EXCEPT ![c] = <<>>] /\ socket' = [socket EXCEPT ![c] = <<>>]
        /\ on' = [t \in Tasks |-> on[t] \ {c}]
        /\ UNCHANGED <<live, inbox, sent, left, text, bus, heard, shown>>
    BY <1>4 DEF Disconnect, Released
  <2>2. on' \in [Tasks -> SUBSET open']
    BY <1>2, <2>1
  <2>3. /\ queue' \in [Clients -> Seq(Sends)] /\ socket' \in [Clients -> Seq(Messages)]
        /\ \A d \in Clients : Len(socket'[d]) <= SocketCap
        /\ \A d \in Clients \ open' : socket'[d] = <<>> /\ queue'[d] = <<>>
    <3>1. socket \in [Clients -> Seq(Messages)] /\ Len(<<>>) <= SocketCap
      BY ServerConstants DEF TypeOK
    <3>2. QED
      BY <1>2, <2>1, <3>1 DEF TypeOK
  <2>4. WaitsFor(queue', on')
    <3>1. ASSUME NEW d \in Clients
          PROVE  /\ d = c => queue'[d] = <<>> /\ \A u \in Tasks : d \notin on'[u]
                 /\ d # c => queue'[d] = queue[d] /\ \A u \in Tasks : d \in on'[u] <=> d \in on[u]
      BY <1>2, <2>1
    <3>2. QED
      BY SMTT(60), <1>2, <3>1 DEF WaitsFor
  <2>5. \A d \in Clients \ live' : Idle(d)'
    BY <1>2, <2>1 DEF TypeOK, Idle, Tasks
  <2>6. QED
    BY ZenonT(90), <2>1, <2>2, <2>3, <2>4, <2>5, TypeRest DEF TypeOK
<1>5. CASE HandlerEnds(c)
  <2>1. /\ c \in live \ open /\ Idle(c)
        /\ live' = live \ {c}
        /\ inbox' = [inbox EXCEPT ![c] = <<>>]
        /\ UNCHANGED <<open, gone, sent, on, left, text, queue, socket, bus, heard, shown>>
    BY <1>5 DEF HandlerEnds
  <2>2. inbox' \in [Clients -> Seq(Control)]
    BY <2>1 DEF TypeOK
  <2>3. \A d \in Clients \ live' : Idle(d)'
    BY <2>1 DEF TypeOK, Idle
  <2>4. QED
    BY ZenonT(90), <1>2, <2>1, <2>2, <2>3, TypeRest DEF TypeOK
<1>6. QED
  BY <1>3, <1>4, <1>5

\* A message goes through: off the queue, onto the socket, its task waits no more.
LEMMA TypeDeliver ==
  ASSUME TypeOK, NEW c \in Clients, Deliver(c)
  PROVE  TypeOK'
<1> DEFINE e == Head(queue[c])
<1>1. WaitsFor(queue, on) /\ queue \in [Clients -> Seq(Sends)] /\ on \in [Tasks -> SUBSET open]
  BY DEF TypeOK, WaitsFor, Sends
<1>2. /\ queue[c] # <<>> /\ Len(socket[c]) < SocketCap
      /\ socket' = [socket EXCEPT ![c] = Append(@, e.msg)]
      /\ queue' = [queue EXCEPT ![c] = Tail(@)]
      /\ on' = [on EXCEPT ![e.task] = @ \ {c}]
      /\ UNCHANGED <<open, live, inbox, gone, sent, left, text, bus, heard, shown>>
  BY DEF Deliver
<1>3. /\ Tail(queue[c]) \in Seq(Sends) /\ e \in Sends /\ e = queue[c][1]
      /\ 1 \in DOMAIN queue[c]
      /\ \A i \in DOMAIN Tail(queue[c]) : /\ i + 1 \in DOMAIN queue[c] /\ i \in Nat \ {0}
                                          /\ Tail(queue[c])[i] = queue[c][i + 1]
      /\ \A i \in DOMAIN queue[c] \ {1} : /\ i - 1 \in DOMAIN Tail(queue[c]) /\ i > 1
                                          /\ Tail(queue[c])[i - 1] = queue[c][i]
  BY <1>1, <1>2, Shortened
<1> HIDE DEF e
<1>4. e.task \in Tasks /\ e.msg \in Messages
  BY <1>3 DEF Sends
<1>5. /\ on'[e.task] = on[e.task] \ {c}
      /\ \A u \in Tasks \ {e.task} : on'[u] = on[u]
      /\ on' \in [Tasks -> SUBSET open']
  BY <1>1, <1>2, <1>4
<1>6. /\ queue'[c] = Tail(queue[c])
      /\ \A d \in Clients \ {c} : queue'[d] = queue[d]
      /\ queue' \in [Clients -> Seq(Sends)]
  BY <1>1, <1>2, <1>3
<1>7. \A i \in DOMAIN Tail(queue[c]) : Tail(queue[c])[i].task # e.task
  <2> SUFFICES ASSUME NEW i \in DOMAIN Tail(queue[c]), Tail(queue[c])[i].task = e.task
               PROVE  FALSE
    OBVIOUS
  <2>1. i + 1 = 1
    BY <1>1, <1>3 DEF WaitsFor
  <2>2. QED
    BY <1>3, <2>1
<1>8. ASSUME NEW d \in Clients, NEW u \in Tasks
      PROVE  d \in on'[u] <=> \E i \in DOMAIN queue'[d] : queue'[d][i].task = u
  <2>1. CASE d # c
    <3>1. d \in on'[u] <=> d \in on[u]
      BY <1>5, <2>1
    <3>2. queue'[d] = queue[d]
      BY <1>6, <2>1
    <3>3. QED
      BY <1>1, <3>1, <3>2 DEF WaitsFor
  <2>2. CASE d = c /\ u = e.task
    <3>1. d \notin on'[u] /\ queue'[d] = Tail(queue[c])
      BY <1>5, <1>6, <2>2
    <3>2. QED
      BY <1>7, <2>2, <3>1
  <2>3. CASE d = c /\ u # e.task
    <3>1. d \in on'[u] <=> \E i \in DOMAIN queue[c] : queue[c][i].task = u
      BY <1>1, <1>5, <2>3 DEF WaitsFor
    <3>2. (\E i \in DOMAIN queue[c] : queue[c][i].task = u)
            <=> \E i \in DOMAIN Tail(queue[c]) : Tail(queue[c])[i].task = u
      BY ZenonT(90), <1>3, <2>3
    <3>3. QED
      BY <1>6, <2>3, <3>1, <3>2
  <2>4. QED
    BY <2>1, <2>2, <2>3
<1>9. ASSUME NEW d \in Clients, NEW i \in DOMAIN queue'[d], NEW j \in DOMAIN queue'[d],
             queue'[d][i].task = queue'[d][j].task
      PROVE  i = j
  <2>1. CASE d # c
    BY <1>1, <1>6, <1>9, <2>1 DEF WaitsFor
  <2>2. CASE d = c
    <3>1. i + 1 = j + 1 /\ i \in Nat /\ j \in Nat
      BY SMTT(60), <1>1, <1>3, <1>6, <1>9, <2>2 DEF WaitsFor
    <3>2. QED
      BY <3>1
  <2>3. QED
    BY <2>1, <2>2
<1>10. /\ socket' \in [Clients -> Seq(Messages)]
       /\ \A d \in Clients : Len(socket'[d]) <= SocketCap
  <2>1. socket \in [Clients -> Seq(Messages)] /\ \A d \in Clients : Len(socket[d]) <= SocketCap
    BY DEF TypeOK
  <2>2. /\ Append(socket[c], e.msg) \in Seq(Messages)
        /\ Len(Append(socket[c], e.msg)) = Len(socket[c]) + 1
    BY <1>4, <2>1, AppendProperties
  <2>3. Len(socket[c]) + 1 <= SocketCap
    BY <1>2, <2>1, ServerConstants
  <2>4. QED
    BY <1>2, <2>1, <2>2, <2>3
<1>11. c \in open
  BY <1>2 DEF TypeOK
<1>12. \A d \in Clients \ open' : socket'[d] = <<>> /\ queue'[d] = <<>>
  BY <1>2, <1>6, <1>11 DEF TypeOK
<1>13. \A d \in Clients \ live' : Idle(d)'
  BY ZenonT(90), <1>2, <1>5 DEF TypeOK, Idle, Tasks
<1>14. WaitsFor(queue', on')
  BY <1>8, <1>9 DEF WaitsFor
<1>15. QED
  BY <1>2, <1>5, <1>6, <1>10, <1>12, <1>13, <1>14, TypeRest DEF TypeOK

\* A handler takes a message off its inbox, and may change the engine; it
\* answers with at most one send.
LEMMA TypeHandlers ==
  ASSUME TypeOK, NEW c \in Clients, Handles(c)
  PROVE  TypeOK'
<1>1. /\ c \in live /\ Idle(c) /\ inbox[c] # <<>>
      /\ inbox' = [inbox EXCEPT ![c] = Tail(@)]
      /\ UNCHANGED <<open, live, gone, sent, socket, heard, shown>>
  BY DEF Handles, HandleRelay, HandleChange, HandleFailingStart, HandleHello, Reads
<1>2. Head(inbox[c]) \in Control /\ inbox' \in [Clients -> Seq(Control)]
  <2>1. inbox \in [Clients -> Seq(Control)]
    BY DEF TypeOK
  <2>2. Head(inbox[c]) \in Control /\ Tail(inbox[c]) \in Seq(Control)
    BY <1>1, <2>1, Shortened
  <2>3. QED
    BY <1>1, <2>1, <2>2
<1>3. c \in Tasks /\ on[c] = {} /\ bus \in Nat
  BY <1>1 DEF Tasks, Idle, TypeOK
<1>4. ASSUME NEW to \in SUBSET Clients, NEW m \in Messages, Send(c, to, m),
             bus' \in {bus, bus + 1}, UNCHANGED <<left, text>>
      PROVE  TypeOK'
  <2>1. /\ on' \in [Tasks -> SUBSET open]
        /\ queue' \in [Clients -> Seq(Sends)]
        /\ \A d \in Clients \ open : queue'[d] = <<>>
        /\ WaitsFor(queue', on')
    BY <1>3, <1>4, SendWaits
  <2>2. bus' \in Nat /\ text' \in [Tasks -> 0 .. bus']
    <3>1. bus' \in Nat /\ 0 .. bus \subseteq 0 .. bus'
      BY <1>3, <1>4
    <3>2. QED
      BY <1>4, <3>1 DEF TypeOK
  <2>3. \A d \in Clients \ live' : Idle(d)'
    BY SMTT(60), <1>1, <1>4 DEF TypeOK, Idle, Send, Tasks
  <2>4. QED
    BY <1>1, <1>2, <1>4, <2>1, <2>2, <2>3, TypeRest DEF TypeOK
<1>5. CASE HandleRelay(c)
  <2>1. Send(c, Peers(c), Head(inbox[c])) /\ UNCHANGED <<left, text, bus>>
    BY <1>5 DEF HandleRelay
  <2>2. Head(inbox[c]) \in Messages
    BY <1>2, <1>5 DEF HandleRelay, Reads, Control, Messages
  <2>3. Peers(c) \in SUBSET Clients
    BY DEF Peers, TypeOK
  <2>4. QED
    BY <1>4, <2>1, <2>2, <2>3
<1>6. CASE HandleFailingStart(c)
  <2>1. Error \in Messages
    BY DEF Error, Messages
  <2>2. QED
    BY <1>4, <1>6, <2>1 DEF HandleFailingStart
<1>7. CASE HandleHello(c)
  <2>1. Status(bus) \in Messages
    BY <1>3 DEF Status, Messages
  <2>2. QED
    BY <1>4, <1>7, <2>1 DEF HandleHello
<1>8. CASE HandleChange(c)
  <2>1. /\ bus' = bus + 1 /\ UNCHANGED <<on, queue>>
        /\ left' = [left EXCEPT ![c] = open]
        /\ text' = [text EXCEPT ![c] = bus + 1]
    BY <1>8 DEF HandleChange, Broadcast
  <2>2. left' \in [Tasks -> SUBSET Clients]
    BY <2>1 DEF TypeOK
  <2>3. bus' \in Nat /\ text' \in [Tasks -> 0 .. bus']
    <3>1. 0 .. bus \subseteq 0 .. bus + 1 /\ bus + 1 \in 0 .. bus + 1
      BY <1>3
    <3>2. QED
      BY <1>3, <2>1, <3>1 DEF TypeOK
  <2>4. \A d \in Clients \ live' : Idle(d)'
    BY SMTT(60), <1>1, <2>1 DEF TypeOK, Idle, Tasks
  <2>5. WaitsFor(queue', on')
    BY SMTT(60), <2>1 DEF TypeOK, WaitsFor
  <2>6. QED
    BY <1>1, <1>2, <2>1, <2>2, <2>3, <2>4, <2>5, TypeRest DEF TypeOK, Sends
<1>9. QED
  BY <1>5, <1>6, <1>7, <1>8 DEF Handles

\* Clients write to their socket and read it; the ticker and every broadcast
\* send snapshots.
LEMMA TypeOthers ==
  ASSUME TypeOK,
         \/ \E c \in Clients : ClientReceives(c) \/ \E k \in ControlKinds : ClientSends(c, k)
         \/ \E t \in Tasks : BroadcastNext(t)
         \/ Tick
         \/ UNCHANGED vars
  PROVE  TypeOK'
<1>1. ASSUME NEW c \in Clients, ClientReceives(c) PROVE TypeOK'
  <2> DEFINE m == Head(socket[c])
  <2>1. /\ socket[c] # <<>>
        /\ heard' = IF m.kind = "relay" THEN [heard EXCEPT ![c] = Append(@, m)] ELSE heard
        /\ shown' = IF m.kind = "status" THEN [shown EXCEPT ![c] = m.bus] ELSE shown
        /\ socket' = [socket EXCEPT ![c] = Tail(@)]
        /\ UNCHANGED <<open, live, inbox, gone, sent, on, left, text, queue, bus>>
    BY <1>1 DEF ClientReceives
  <2>2. /\ socket \in [Clients -> Seq(Messages)] /\ heard \in [Clients -> Seq(RelayedMessages)]
        /\ shown \in [Clients -> Nat \cup {Null}]
        /\ \A d \in Clients : Len(socket[d]) <= SocketCap
    BY DEF TypeOK
  <2>3. m \in Messages /\ Tail(socket[c]) \in Seq(Messages)
    BY <2>1, <2>2, Shortened
  <2> HIDE DEF m
  <2>4. /\ m.kind = "relay" => m \in RelayedMessages
        /\ m.kind = "status" => m.bus \in Nat
    BY <2>3 DEF Messages, RelayedMessages
  <2>5. heard' \in [Clients -> Seq(RelayedMessages)]
    <3>1. m.kind = "relay" => Append(heard[c], m) \in Seq(RelayedMessages)
      BY <2>2, <2>4, AppendProperties
    <3>2. QED
      BY <2>1, <2>2, <3>1
  <2>6. shown' \in [Clients -> Nat \cup {Null}]
    BY <2>1, <2>2, <2>4
  <2>7. /\ socket' \in [Clients -> Seq(Messages)]
        /\ \A d \in Clients : Len(socket'[d]) <= SocketCap
    <3>1. Len(Tail(socket[c])) = Len(socket[c]) - 1
      BY <2>1, <2>2, HeadTailProperties
    <3>2. Len(Tail(socket[c])) <= SocketCap
      BY <2>2, <3>1, ServerConstants
    <3>3. QED
      BY <2>1, <2>2, <2>3, <3>2
  <2>8. c \in open
    BY <2>1 DEF TypeOK
  <2>9. /\ \A d \in Clients \ open' : socket'[d] = <<>> /\ queue'[d] = <<>>
        /\ \A d \in Clients \ live' : Idle(d)'
        /\ WaitsFor(queue', on')
    BY SMTT(60), <2>1, <2>8 DEF TypeOK, Idle, WaitsFor
  <2>10. QED
    BY <2>1, <2>5, <2>6, <2>7, <2>9, TypeRest DEF TypeOK, Sends
<1>2. ASSUME NEW c \in Clients, NEW k \in ControlKinds, ClientSends(c, k) PROVE TypeOK'
  <2> DEFINE n == sent[c][k] + 1
             m == IF k = "relay" THEN Relayed(c, n) ELSE [kind |-> k]
  <2>1. /\ sent' = [sent EXCEPT ![c][k] = @ + 1]
        /\ inbox' = [inbox EXCEPT ![c] = Append(@, m)]
        /\ UNCHANGED <<open, live, gone, on, left, text, queue, socket, bus, heard, shown>>
    BY <1>2 DEF ClientSends
  <2>2. inbox \in [Clients -> Seq(Control)] /\ sent \in [Clients -> [ControlKinds -> Nat]]
    BY DEF TypeOK
  <2>3. n \in Nat \ {0}
    BY <2>2
  <2>4. m \in Control
    BY <2>3 DEF Control, Relayed, RelayedMessages
  <2> HIDE DEF m
  <2>5. inbox' \in [Clients -> Seq(Control)]
    BY <2>1, <2>2, <2>4, AppendProperties
  <2>6. sent' \in [Clients -> [ControlKinds -> Nat]]
    BY <2>1, <2>2
  <2>7. \A d \in Clients \ live' : Idle(d)'
    BY <2>1 DEF TypeOK, Idle
  <2>8. WaitsFor(queue', on')
    <3>1. WaitsFor(queue, on)
      BY DEF TypeOK, WaitsFor
    <3>2. QED
      BY <2>1, <3>1
  <2>9. QED
    BY <2>1, <2>5, <2>6, <2>7, <2>8, TypeRest DEF TypeOK, Sends
<1>3. ASSUME NEW t \in Tasks, BroadcastNext(t) PROVE TypeOK'
  <2>1. PICK c \in left[t] :
          /\ left' = [left EXCEPT ![t] = @ \ {c}]
          /\ Send(t, {c}, Status(text[t]))
    BY <1>3 DEF BroadcastNext
  <2>2. /\ on[t] = {}
        /\ UNCHANGED <<open, live, inbox, gone, sent, text, socket, bus, heard, shown>>
    BY <1>3 DEF BroadcastNext
  <2>3. {c} \in SUBSET Clients /\ Status(text[t]) \in Messages
    BY <2>1 DEF TypeOK, Status, Messages
  <2>4. /\ on' \in [Tasks -> SUBSET open]
        /\ queue' \in [Clients -> Seq(Sends)]
        /\ \A d \in Clients \ open : queue'[d] = <<>>
        /\ WaitsFor(queue', on')
    BY <2>1, <2>2, <2>3, SendWaits
  <2>5. left' \in [Tasks -> SUBSET Clients]
    BY <2>1 DEF TypeOK
  <2>6. \A d \in Clients \ live' : Idle(d)'
    <3>1. \A d \in Clients \ live : d # t
      BY <2>1 DEF TypeOK, Idle
    <3>2. QED
      BY <2>1, <2>2, <3>1 DEF TypeOK, Idle, Send, Tasks
  <2>7. QED
    BY <2>2, <2>4, <2>5, <2>6, TypeRest DEF TypeOK
<1>4. CASE Tick
  <2>1. /\ left' = [left EXCEPT ![Ticker] = open]
        /\ text' = [text EXCEPT ![Ticker] = bus]
        /\ UNCHANGED <<open, live, inbox, gone, sent, on, queue, socket, bus, heard, shown>>
    BY <1>4 DEF Tick, Broadcast, Snapshot
  <2>2. left' \in [Tasks -> SUBSET Clients] /\ text' \in [Tasks -> 0 .. bus']
    <3>1. /\ left \in [Tasks -> SUBSET Clients] /\ open \in SUBSET Clients
          /\ bus \in Nat /\ text \in [Tasks -> 0 .. bus]
      BY DEF TypeOK
    <3>2. bus \in 0 .. bus
      BY <3>1
    <3>3. QED
      BY <2>1, <3>1, <3>2
  <2>3. \A d \in Clients \ live' : Idle(d)'
    BY SMTT(60), <2>1, ServerConstants DEF TypeOK, Idle, Tasks
  <2>4. WaitsFor(queue', on')
    BY <2>1 DEF TypeOK, WaitsFor
  <2>5. QED
    BY <2>1, <2>2, <2>3, <2>4, TypeRest DEF TypeOK, Sends
<1>5. CASE UNCHANGED vars
  <2>1. UNCHANGED <<open, live, inbox, gone, sent, on, left, text, queue, socket,
                    bus, heard, shown>>
    BY <1>5 DEF vars
  <2>2. WaitsFor(queue', on')
    <3>1. WaitsFor(queue, on)
      BY DEF TypeOK, WaitsFor
    <3>2. QED
      BY <2>1, <3>1
  <2>3. \A d \in Clients \ live' : Idle(d)'
    BY <2>1 DEF TypeOK, Idle
  <2>4. QED
    BY <2>1, <2>2, <2>3, TypeRest DEF TypeOK, Sends
<1>6. QED
  BY <1>1, <1>2, <1>3, <1>4, <1>5

\* One step keeps the types.
LEMMA TypeStep == TypeOK /\ [Next]_vars => TypeOK'
BY TypeConnections, TypeDeliver, TypeHandlers, TypeOthers DEF Next, Handles

\* Every variable keeps its type; in particular a task waits on a connection
\* exactly while one send of its own is queued there, so that no handler hangs
\* on a connection that closed or a message that went out.
THEOREM WaitsAreForSends == Spec => []TypeOK
BY TypeInit, TypeStep, PTL DEF Spec
-----------------------------------------------------------------------------
(* The relay.                                                              *)
(*                                                                         *)
(* What client s relayed is on its way to client c in four places, the     *)
(* later messages further back: heard by c, on c's socket, in c's queue,   *)
(* and in the inbox of s.  Each place is ascending, each is below the      *)
(* next, and while c is connected the four together have no hole and reach *)
(* up to the last message s sent, so that the next one fits at the end.    *)

\* The numbers of the messages of s among ms.
Numbers(s, ms) == {ms[i].n : i \in {j \in DOMAIN ms : From(ms[j], s)}}

Ascending(s, ms) ==
  \A i, j \in DOMAIN ms : From(ms[i], s) /\ From(ms[j], s) /\ i < j => ms[i].n < ms[j].n

Below(A, B) == \A a \in A, b \in B : a < b

NoHole(A) == \A a, b \in A : a .. b \subseteq A

\* Nothing, or everything up to the last one, k.
UpTo(A, k) == A = {} \/ k \in A

Texts(q) == [i \in DOMAIN q |-> q[i].msg]

Heard(c, s) == Numbers(s, heard[c])
OnSocket(c, s) == Numbers(s, socket[c])
Queued(c, s) == Numbers(s, Texts(queue[c]))
InInbox(s) == Numbers(s, inbox[s])
LastOf(s) == sent[s]["relay"]

\* Four places, from the one reached last to the one entered first.
InOrder(H, S, Q, I, k) ==
  /\ H \cup S \cup Q \cup I \subseteq 1 .. k
  /\ Below(H, S) /\ Below(H \cup S, Q) /\ Below(H \cup S \cup Q, I)
  /\ NoHole(H)

LineInv(c, s) ==
  /\ Ascending(s, heard[c]) /\ Ascending(s, socket[c]) /\ Ascending(s, Texts(queue[c]))
  /\ InOrder(Heard(c, s), OnSocket(c, s), Queued(c, s), InInbox(s), LastOf(s))
  /\ c = s => Heard(c, s) = {} /\ OnSocket(c, s) = {} /\ Queued(c, s) = {}
  /\ c \in open =>
       /\ NoHole(Heard(c, s) \cup OnSocket(c, s) \cup Queued(c, s) \cup InInbox(s))
       /\ s \in open =>
            UpTo(Heard(c, s) \cup OnSocket(c, s) \cup Queued(c, s) \cup InInbox(s), LastOf(s))

\* A client sends in order and under its own name; one that never connected
\* sent and heard nothing.
SenderInv(s) ==
  /\ Ascending(s, inbox[s]) /\ NoHole(InInbox(s))
  /\ s \in open => UpTo(InInbox(s), LastOf(s))
  /\ \A i \in DOMAIN inbox[s] : inbox[s][i].kind = "relay" => inbox[s][i].from = s
  /\ s \notin open \cup gone => heard[s] = <<>> /\ LastOf(s) = 0

RelayInv ==
  /\ \A c, s \in Clients : LineInv(c, s)
  /\ \A s \in Clients : SenderInv(s)

\* What appending a message does to the numbers of a sender.
LEMMA NumbersAppended ==
  ASSUME NEW M, NEW ms \in Seq(M), NEW m \in M, NEW s
  PROVE  /\ ~From(m, s) => Numbers(s, Append(ms, m)) = Numbers(s, ms)
         /\ From(m, s) => Numbers(s, Append(ms, m)) = Numbers(s, ms) \cup {m.n}
<1> DEFINE l == Len(ms) + 1
           a == Append(ms, m)
<1>1. /\ DOMAIN a = DOMAIN ms \cup {l}
      /\ \A i \in DOMAIN ms : a[i] = ms[i] /\ i < l
      /\ a[l] = m
  BY Appended
<1> HIDE DEF a, l
<1>2. ~From(m, s) => Numbers(s, a) = Numbers(s, ms)
  BY <1>1 DEF Numbers
<1>3. From(m, s) => Numbers(s, a) = Numbers(s, ms) \cup {m.n}
  BY <1>1 DEF Numbers
<1>4. QED
  BY <1>2, <1>3 DEF a

\* Appending keeps them ascending, if the new one is above the others.
LEMMA AscendingAppended ==
  ASSUME NEW M, NEW ms \in Seq(M), NEW m \in M, NEW s, Ascending(s, ms),
         From(m, s) => Below(Numbers(s, ms), {m.n})
  PROVE  Ascending(s, Append(ms, m))
<1> DEFINE l == Len(ms) + 1
           a == Append(ms, m)
<1>1. /\ DOMAIN a = DOMAIN ms \cup {l}
      /\ \A i \in DOMAIN ms : a[i] = ms[i] /\ i < l
      /\ a[l] = m
  BY Appended
<1>2. l \in Nat /\ \A i \in DOMAIN ms : i \in Nat
  <2>1. Len(ms) \in Nat /\ DOMAIN ms = 1 .. Len(ms)
    BY LenProperties
  <2>2. QED
    BY <2>1
<1> HIDE DEF a, l
<1>3. ASSUME NEW i \in DOMAIN a, NEW j \in DOMAIN a, From(a[i], s), From(a[j], s), i < j
      PROVE  a[i].n < a[j].n
  <2>1. i \in DOMAIN ms
    BY <1>1, <1>2, <1>3
  <2>2. CASE j = l
    <3>1. ms[i].n \in Numbers(s, ms) /\ From(m, s)
      BY <1>1, <1>3, <2>1, <2>2 DEF Numbers
    <3>2. QED
      BY <1>1, <1>3, <2>1, <2>2, <3>1 DEF Below
  <2>3. CASE j # l
    BY <1>1, <1>3, <2>1, <2>3 DEF Ascending
  <2>4. QED
    BY <2>2, <2>3
<1>4. QED
  BY <1>3 DEF a, Ascending

\* What taking the first message does to the numbers of a sender.
LEMMA NumbersTaken ==
  ASSUME NEW M, NEW ms \in Seq(M), ms # <<>>, NEW s, Ascending(s, ms)
  PROVE  /\ Ascending(s, Tail(ms))
         /\ ~From(Head(ms), s) => Numbers(s, Tail(ms)) = Numbers(s, ms)
         /\ From(Head(ms), s) =>
              /\ Numbers(s, ms) = {Head(ms).n} \cup Numbers(s, Tail(ms))
              /\ Below({Head(ms).n}, Numbers(s, Tail(ms)))
<1> DEFINE t == Tail(ms)
<1>1. /\ Head(ms) = ms[1] /\ 1 \in DOMAIN ms
      /\ \A i \in DOMAIN t : i + 1 \in DOMAIN ms /\ i \in Nat \ {0} /\ t[i] = ms[i + 1]
      /\ \A i \in DOMAIN ms \ {1} : i - 1 \in DOMAIN t /\ i > 1 /\ t[i - 1] = ms[i]
  BY Shortened
<1> HIDE DEF t
<1>2. Ascending(s, t)
  BY <1>1 DEF Ascending
<1>3. Numbers(s, t) \subseteq Numbers(s, ms)
  BY <1>1 DEF Numbers
<1>4. ASSUME NEW n \in Numbers(s, ms)
      PROVE  n \in Numbers(s, t) \/ (From(Head(ms), s) /\ n = Head(ms).n)
  <2>1. PICK i \in DOMAIN ms : From(ms[i], s) /\ n = ms[i].n
    BY DEF Numbers
  <2>2. CASE i = 1
    BY <1>1, <2>1, <2>2
  <2>3. CASE i # 1
    BY <1>1, <2>1, <2>3 DEF Numbers
  <2>4. QED
    BY <2>2, <2>3
<1>5. ASSUME From(Head(ms), s), NEW n \in Numbers(s, t)
      PROVE  Head(ms).n < n
  <2>1. PICK i \in DOMAIN t : From(t[i], s) /\ n = t[i].n
    BY DEF Numbers
  <2>2. i + 1 \in DOMAIN ms /\ 1 < i + 1 /\ From(ms[i + 1], s) /\ n = ms[i + 1].n
    BY <1>1, <2>1
  <2>3. QED
    BY <1>1, <1>5, <2>2 DEF Ascending
<1>6. From(Head(ms), s) => Head(ms).n \in Numbers(s, ms)
  BY <1>1 DEF Numbers
<1>7. From(Head(ms), s) => Below({Head(ms).n}, Numbers(s, t))
  BY <1>5 DEF Below
<1>8. QED
  BY <1>2, <1>3, <1>4, <1>6, <1>7 DEF t

\* An empty sequence holds no message of anyone.
LEMMA NumbersNone ==
  ASSUME NEW s
  PROVE  Numbers(s, <<>>) = {} /\ Ascending(s, <<>>) /\ Texts(<<>>) = <<>>
BY DEF Numbers, Ascending, Texts

\* The messages of a queue, as the queue grows and shrinks.
LEMMA TextsOf ==
  ASSUME NEW q \in Seq(Sends)
  PROVE  /\ Texts(q) \in Seq(Messages)
         /\ \A e \in Sends : Texts(Append(q, e)) = Append(Texts(q), e.msg)
         /\ q # <<>> => /\ Texts(q) # <<>> /\ Head(Texts(q)) = Head(q).msg
                        /\ Texts(Tail(q)) = Tail(Texts(q))
<1>1. \A e \in Sends : e.msg \in Messages
  BY DEF Sends
<1> HIDE DEF Sends
<1>2. Len(q) \in Nat /\ DOMAIN q = 1 .. Len(q) /\ \A i \in 1 .. Len(q) : q[i] \in Sends
  BY LenProperties, ElementOfSeq
<1>3. /\ DOMAIN Texts(q) = 1 .. Len(q)
      /\ \A i \in 1 .. Len(q) : Texts(q)[i] = q[i].msg /\ Texts(q)[i] \in Messages
  BY <1>1, <1>2 DEF Texts
<1>4. Texts(q) \in Seq(Messages) /\ Len(Texts(q)) = Len(q)
  <2>1. Texts(q) = [i \in 1 .. Len(q) |-> q[i].msg]
    BY <1>2 DEF Texts
  <2>2. QED
    BY <1>1, <1>2, <2>1
<1>5. ASSUME NEW e \in Sends
      PROVE  Texts(Append(q, e)) = Append(Texts(q), e.msg)
  <2>1. /\ DOMAIN Append(q, e) = 1 .. Len(q) + 1
        /\ \A i \in 1 .. Len(q) : Append(q, e)[i] = q[i]
        /\ Append(q, e)[Len(q) + 1] = e
    BY AppendProperties
  <2>2. /\ Append(Texts(q), e.msg) \in Seq(Messages)
        /\ DOMAIN Append(Texts(q), e.msg) = 1 .. Len(q) + 1
        /\ \A i \in 1 .. Len(q) : Append(Texts(q), e.msg)[i] = Texts(q)[i]
        /\ Append(Texts(q), e.msg)[Len(q) + 1] = e.msg
    BY <1>1, <1>4, AppendProperties
  <2>3. Append(Texts(q), e.msg) = [i \in 1 .. Len(q) + 1 |-> Append(Texts(q), e.msg)[i]]
    BY <2>2
  <2>4. Texts(Append(q, e)) = [i \in 1 .. Len(q) + 1 |-> Append(q, e)[i].msg]
    BY <2>1 DEF Texts
  <2>5. \A i \in 1 .. Len(q) + 1 : Append(q, e)[i].msg = Append(Texts(q), e.msg)[i]
    <3>1. \A i \in 1 .. Len(q) + 1 : i \in 1 .. Len(q) \/ i = Len(q) + 1
      BY <1>2
    <3>2. QED
      BY <1>3, <2>1, <2>2, <3>1
  <2>6. QED
    BY <2>3, <2>4, <2>5
<1>6. ASSUME q # <<>>
      PROVE  /\ Texts(q) # <<>> /\ Head(Texts(q)) = Head(q).msg
             /\ Texts(Tail(q)) = Tail(Texts(q))
  <2>1. /\ Head(q) = q[1] /\ Len(q) \in Nat \ {0}
        /\ DOMAIN Tail(q) = 1 .. Len(q) - 1
        /\ \A i \in 1 .. Len(q) - 1 : Tail(q)[i] = q[i + 1]
    BY <1>6, HeadTailProperties
  <2>2. Texts(q) # <<>>
    BY <1>4, <2>1
  <2>3. /\ Head(Texts(q)) = Texts(q)[1] /\ Tail(Texts(q)) \in Seq(Messages)
        /\ DOMAIN Tail(Texts(q)) = 1 .. Len(q) - 1
        /\ \A i \in 1 .. Len(q) - 1 : Tail(Texts(q))[i] = Texts(q)[i + 1]
    BY <1>4, <2>2, HeadTailProperties
  <2>4. Tail(Texts(q)) = [i \in 1 .. Len(q) - 1 |-> Tail(Texts(q))[i]]
    <3>1. Tail(Texts(q)) \in [1 .. Len(Tail(Texts(q))) -> Messages]
      BY <2>3, LenProperties
    <3>2. QED
      BY <2>3, <3>1
  <2>5. Texts(Tail(q)) = [i \in 1 .. Len(q) - 1 |-> Tail(q)[i].msg]
    BY <2>1 DEF Texts
  <2>6. \A i \in 1 .. Len(q) - 1 : i + 1 \in 1 .. Len(q)
    BY <1>2
  <2>7. \A i \in 1 .. Len(q) - 1 : Tail(q)[i].msg = Tail(Texts(q))[i]
    BY <1>3, <2>1, <2>3, <2>6
  <2>8. 1 \in 1 .. Len(q)
    BY <2>1
  <2>9. QED
    BY <1>3, <2>1, <2>2, <2>3, <2>4, <2>5, <2>7, <2>8
<1>7. QED
  BY <1>4, <1>5, <1>6

-----------------------------------------------------------------------------
(* Moving along the four places.                                           *)

\* Places may lose messages; the one heard may not.
LEMMA Fewer ==
  ASSUME NEW k \in Nat, NEW H, NEW S, NEW Q, NEW I, InOrder(H, S, Q, I, k),
         NEW T \in SUBSET S, NEW R \in SUBSET Q, NEW J \in SUBSET I
  PROVE  InOrder(H, T, R, J, k)
BY DEF InOrder, Below

\* The first on the socket is the next one heard.
LEMMA SocketToHeard ==
  ASSUME NEW k \in Nat, NEW H, NEW S, NEW Q, NEW I, InOrder(H, S, Q, I, k),
         NoHole(H \cup S \cup Q \cup I),
         NEW n, NEW T, S = {n} \cup T, Below({n}, T)
  PROVE  InOrder(H \cup {n}, T, Q, I, k) /\ Below(H, {n})
<1>1. H \cup S \cup Q \cup I \subseteq 1 .. k /\ n \in 1 .. k
  BY DEF InOrder
<1>2. ASSUME NEW a \in H \cup {n}, NEW b \in H \cup {n}, NEW x \in a .. b
      PROVE  x \in H \cup {n}
  <2>1. x \in H \cup S \cup Q \cup I /\ b <= n /\ x \in Nat /\ b \in Nat /\ n \in Nat
    BY <1>1 DEF NoHole, InOrder, Below
  <2>2. x <= n
    BY <1>1, <2>1
  <2>3. x \notin Q /\ x \notin I /\ x \notin T
    BY <1>1, <2>2 DEF InOrder, Below
  <2>4. QED
    BY <2>1, <2>3
<1>3. NoHole(H \cup {n})
  BY <1>2 DEF NoHole
<1>4. QED
  BY <1>1, <1>3 DEF InOrder, Below

\* The first in the queue is put at the end of the socket.
LEMMA QueueToSocket ==
  ASSUME NEW k \in Nat, NEW H, NEW S, NEW Q, NEW I, InOrder(H, S, Q, I, k),
         NEW n, NEW R, Q = {n} \cup R, Below({n}, R)
  PROVE  InOrder(H, S \cup {n}, R, I, k) /\ Below(S, {n})
BY DEF InOrder, Below

\* The first in the inbox is put at the end of the queue.
LEMMA InboxToQueue ==
  ASSUME NEW k \in Nat, NEW H, NEW S, NEW Q, NEW I, InOrder(H, S, Q, I, k),
         NEW n, NEW J, I = {n} \cup J, Below({n}, J)
  PROVE  InOrder(H, S, Q \cup {n}, J, k) /\ Below(Q, {n})
BY DEF InOrder, Below

\* The next number goes to the end of everything.
LEMMA NextNumber ==
  ASSUME NEW k \in Nat, NEW H, NEW S, NEW Q, NEW I, InOrder(H, S, Q, I, k)
  PROVE  InOrder(H, S, Q, I \cup {k + 1}, k + 1)
<1>1. 1 .. k \subseteq 1 .. k + 1 /\ k + 1 \in 1 .. k + 1 /\ \A a \in 1 .. k : a < k + 1
  OBVIOUS
<1>2. QED
  BY <1>1 DEF InOrder, Below

\* It leaves no hole, if what was there reached up to the last one.
LEMMA NextLeavesNoHole ==
  ASSUME NEW k \in Nat, NEW A \in SUBSET (1 .. k), NoHole(A), UpTo(A, k)
  PROVE  NoHole(A \cup {k + 1}) /\ UpTo(A \cup {k + 1}, k + 1) /\ Below(A, {k + 1})
<1>1. \A a \in A : a \in 1 .. k /\ a < k + 1
  OBVIOUS
<1>2. ASSUME NEW a \in A \cup {k + 1}, NEW b \in A \cup {k + 1}, NEW x \in a .. b
      PROVE  x \in A \cup {k + 1}
  <2>1. CASE b = k + 1 /\ a # k + 1 /\ x # k + 1
    <3>1. k \in A /\ x \in a .. k
      BY <1>1, <2>1 DEF UpTo
    <3>2. QED
      BY <2>1, <3>1 DEF NoHole
  <2>2. CASE a = k + 1
    BY <1>1, <2>2
  <2>3. CASE a # k + 1 /\ b # k + 1
    BY <2>3 DEF NoHole
  <2>4. QED
    BY <2>1, <2>2, <2>3
<1>3. QED
  BY <1>1, <1>2 DEF NoHole, UpTo, Below

\* What is left when the last part, or the first number, is taken away.
LEMMA PartOfNoHole ==
  ASSUME NEW k \in Nat, NEW A \in SUBSET (1 .. k), NEW B \in SUBSET (1 .. k),
         NoHole(A \cup B), Below(A, B)
  PROVE  NoHole(A) /\ NoHole(B) /\ (UpTo(A \cup B, k) => UpTo(B, k))
<1>1. ASSUME NEW a \in A, NEW b \in A, NEW x \in a .. b PROVE x \in A
  BY DEF NoHole, Below
<1>2. ASSUME NEW a \in B, NEW b \in B, NEW x \in a .. b PROVE x \in B
  BY DEF NoHole, Below
<1>3. ASSUME UpTo(A \cup B, k) PROVE UpTo(B, k)
  <2>1. CASE k \in A
    <3>1. \A b \in B : k < b /\ b <= k /\ b \in Nat
      BY <2>1 DEF Below
    <3>2. QED
      BY <3>1 DEF UpTo
  <2>2. CASE k \notin A
    BY <1>3, <2>2 DEF UpTo
  <2>3. QED
    BY <2>1, <2>2
<1>4. QED
  BY <1>1, <1>2, <1>3 DEF NoHole

-----------------------------------------------------------------------------
(* The steps.                                                              *)

\* The types the relay depends on.
LEMMA LineTypes ==
  ASSUME TypeOK, NEW c \in Clients
  PROVE  /\ heard[c] \in Seq(RelayedMessages) /\ socket[c] \in Seq(Messages)
         /\ queue[c] \in Seq(Sends) /\ Texts(queue[c]) \in Seq(Messages)
         /\ inbox[c] \in Seq(Control) /\ LastOf(c) \in Nat
<1>1. queue[c] \in Seq(Sends)
  BY DEF TypeOK, Sends
<1>2. Texts(queue[c]) \in Seq(Messages)
  BY <1>1, TextsOf
<1>3. LastOf(c) \in Nat
  BY DEF TypeOK, LastOf, ControlKinds
<1>4. QED
  BY <1>1, <1>2, <1>3 DEF TypeOK

\* A line of which only the connections may have gone.
LEMMA LineKept ==
  ASSUME NEW c, NEW s, LineInv(c, s),
         /\ Ascending(s, heard'[c]) /\ Ascending(s, socket'[c]) /\ Ascending(s, Texts(queue'[c])),
         /\ Heard(c, s)' = Heard(c, s) /\ OnSocket(c, s)' = OnSocket(c, s)
         /\ Queued(c, s)' = Queued(c, s) /\ InInbox(s)' = InInbox(s),
         LastOf(s)' = LastOf(s), open' \subseteq open
  PROVE  LineInv(c, s)'
BY DEF LineInv

\* A sender whose messages stay as they are.
LEMMA SenderKept ==
  ASSUME NEW s, SenderInv(s),
         Ascending(s, inbox'[s]), InInbox(s)' = InInbox(s), LastOf(s)' = LastOf(s),
         \A i \in DOMAIN inbox'[s] : inbox'[s][i].kind = "relay" => inbox'[s][i].from = s,
         open' \subseteq open,
         s \notin open' \cup gone' => s \notin open \cup gone /\ heard'[s] = heard[s]
  PROVE  SenderInv(s)'
BY DEF SenderInv

\* A send of anything but a relayed message leaves the lines as they are.
LEMMA SendQuiet ==
  ASSUME TypeOK, NEW t \in Tasks, NEW to, NEW m \in Messages, m.kind # "relay",
         Send(t, to, m), NEW c \in Clients, NEW s, Ascending(s, Texts(queue[c]))
  PROVE  Queued(c, s)' = Queued(c, s) /\ Ascending(s, Texts(queue'[c]))
<1> DEFINE e == [task |-> t, msg |-> m]
<1>1. e \in Sends /\ e.msg = m
  BY DEF Sends
<1>2. queue'[c] = Append(queue[c], e) \/ queue'[c] = queue[c]
  BY DEF Send
<1> HIDE DEF e
<1>3. ~From(m, s)
  BY DEF From
<1>4. Texts(Append(queue[c], e)) = Append(Texts(queue[c]), m)
  BY <1>1, LineTypes, TextsOf
<1>5. /\ Numbers(s, Append(Texts(queue[c]), m)) = Numbers(s, Texts(queue[c]))
      /\ Ascending(s, Append(Texts(queue[c]), m))
  <2> DEFINE ms == Texts(queue[c])
  <2>1. ms \in Seq(Messages) /\ Ascending(s, ms)
    BY LineTypes
  <2> HIDE DEF ms
  <2>2. Numbers(s, Append(ms, m)) = Numbers(s, ms)
    BY <1>3, <2>1, NumbersAppended
  <2>4. Ascending(s, Append(ms, m))
    BY <1>3, <2>1, AscendingAppended
  <2>3. QED
    BY <2>2, <2>4 DEF ms
<1>6. QED
  BY <1>2, <1>4, <1>5 DEF Queued

\* A handler that takes anything but a relayed message leaves its sender alone.
LEMMA ReadQuiet ==
  ASSUME TypeOK, NEW c \in Clients, NEW kind, kind # "relay", Reads(c, kind),
         NEW s \in Clients, SenderInv(s)
  PROVE  /\ Ascending(s, inbox'[s]) /\ InInbox(s)' = InInbox(s)
         /\ \A i \in DOMAIN inbox'[s] : inbox'[s][i].kind = "relay" => inbox'[s][i].from = s
<1>1. /\ inbox[c] # <<>> /\ Head(inbox[c]).kind = kind
      /\ inbox' = [inbox EXCEPT ![c] = Tail(@)]
      /\ inbox \in [Clients -> Seq(Control)]
  BY DEF Reads, TypeOK
<1>2. CASE s # c
  BY <1>1, <1>2 DEF SenderInv, InInbox
<1>3. CASE s = c
  <2>1. inbox'[s] = Tail(inbox[s]) /\ inbox[s] \in Seq(Control) /\ inbox[s] # <<>>
    BY <1>1, <1>3
  <2>2. ~From(Head(inbox[s]), s) /\ Ascending(s, inbox[s])
    BY <1>1, <1>3 DEF From, SenderInv
  <2>3. Ascending(s, inbox'[s]) /\ InInbox(s)' = InInbox(s)
    BY <2>1, <2>2, NumbersTaken DEF InInbox
  <2>4. \A i \in DOMAIN inbox'[s] : i + 1 \in DOMAIN inbox[s] /\ inbox'[s][i] = inbox[s][i + 1]
    BY <2>1, Shortened
  <2>5. QED
    BY <2>3, <2>4 DEF SenderInv
<1>4. QED
  BY <1>2, <1>3

\* At first nobody has sent or heard anything.
LEMMA RelayInit == Init => RelayInv
<1> SUFFICES ASSUME Init PROVE RelayInv
  OBVIOUS
<1>1. ASSUME NEW c \in Clients
      PROVE  /\ heard[c] = <<>> /\ socket[c] = <<>> /\ queue[c] = <<>> /\ inbox[c] = <<>>
             /\ LastOf(c) = 0 /\ c \notin open
  BY DEF Init, LastOf, ControlKinds
<1>2. ASSUME NEW c \in Clients, NEW s \in Clients PROVE LineInv(c, s)
  <2>1. /\ Heard(c, s) = {} /\ OnSocket(c, s) = {} /\ Queued(c, s) = {} /\ InInbox(s) = {}
        /\ Ascending(s, heard[c]) /\ Ascending(s, socket[c]) /\ Ascending(s, Texts(queue[c]))
    BY <1>1, NumbersNone DEF Heard, OnSocket, Queued, InInbox
  <2>2. InOrder({}, {}, {}, {}, LastOf(s))
    BY DEF InOrder, Below, NoHole
  <2>3. QED
    BY <1>1, <2>1, <2>2 DEF LineInv
<1>3. ASSUME NEW s \in Clients PROVE SenderInv(s)
  <2>1. InInbox(s) = {} /\ Ascending(s, inbox[s]) /\ DOMAIN inbox[s] = {}
    BY <1>1, NumbersNone DEF InInbox
  <2>2. QED
    BY <1>1, <2>1 DEF SenderInv, NoHole
<1>4. QED
  BY <1>2, <1>3 DEF RelayInv

\* A connection that comes starts with what is still in the inboxes.
LEMMA RelayConnect ==
  ASSUME TypeOK, RelayInv, NEW d \in Clients, Connect(d)
  PROVE  RelayInv'
<1> DEFINE greeting == [task |-> d, msg |-> Status(bus)]
<1>1. /\ d \notin open /\ d \notin gone /\ open' = open \cup {d}
      /\ queue' = [queue EXCEPT ![d] = <<greeting>>]
      /\ UNCHANGED <<inbox, gone, sent, socket, heard>>
  BY DEF Connect
<1>2. ASSUME NEW s PROVE Numbers(s, Texts(<<greeting>>)) = {} /\ Ascending(s, Texts(<<greeting>>))
  <2> DEFINE ms == Texts(<<greeting>>)
  <2>1. DOMAIN ms = {1} /\ ms[1].kind = "status"
    BY DEF Texts, Status
  <2> HIDE DEF ms
  <2>2. \A i \in DOMAIN ms : ~From(ms[i], s)
    BY <2>1 DEF From
  <2>3. QED
    BY <2>2 DEF Numbers, Ascending, ms
<1> HIDE DEF greeting
<1>3. /\ heard[d] = <<>> /\ socket[d] = <<>> /\ queue[d] = <<>> /\ LastOf(d) = 0
  BY <1>1 DEF RelayInv, SenderInv, TypeOK
<1>4. queue'[d] = <<greeting>> /\ \A c \in Clients \ {d} : queue'[c] = queue[c]
  BY <1>1 DEF TypeOK
<1>5. ASSUME NEW c \in Clients, NEW s \in Clients
      PROVE  /\ Heard(c, s)' = Heard(c, s) /\ OnSocket(c, s)' = OnSocket(c, s)
             /\ Queued(c, s)' = Queued(c, s) /\ InInbox(s)' = InInbox(s)
             /\ Ascending(s, Texts(queue'[c])) /\ LastOf(s)' = LastOf(s)
             /\ c = d => Heard(c, s) = {} /\ OnSocket(c, s) = {} /\ Queued(c, s) = {}
             /\ s = d => Heard(c, s) = {} /\ OnSocket(c, s) = {} /\ Queued(c, s) = {}
                         /\ InInbox(s) = {}
  <2>1. /\ Heard(c, s)' = Heard(c, s) /\ OnSocket(c, s)' = OnSocket(c, s)
        /\ InInbox(s)' = InInbox(s) /\ LastOf(s)' = LastOf(s)
    BY <1>1 DEF Heard, OnSocket, InInbox, LastOf
  <2>2. Queued(c, s)' = Queued(c, s) /\ Ascending(s, Texts(queue'[c]))
    <3>1. CASE c = d
      BY <1>2, <1>3, <1>4, <3>1, NumbersNone DEF Queued
    <3>2. CASE c # d
      BY <1>4, <3>2 DEF Queued, RelayInv, LineInv
    <3>3. QED
      BY <3>1, <3>2
  <2>3. c = d => Heard(c, s) = {} /\ OnSocket(c, s) = {} /\ Queued(c, s) = {}
    BY <1>3, NumbersNone DEF Heard, OnSocket, Queued
  <2>4. s = d => Heard(c, s) \cup OnSocket(c, s) \cup Queued(c, s) \cup InInbox(s) \subseteq 1 .. 0
    BY ZenonT(90), <1>3 DEF RelayInv, LineInv, InOrder
  <2>5. QED
    BY <2>1, <2>2, <2>3, <2>4
<1>6. ASSUME NEW c \in Clients, NEW s \in Clients PROVE LineInv(c, s)'
  <2> DEFINE A == Heard(c, s) \cup OnSocket(c, s) \cup Queued(c, s) \cup InInbox(s)
  <2>1. LineInv(c, s) /\ SenderInv(s)
    BY DEF RelayInv
  <2>2. Ascending(s, heard'[c]) /\ Ascending(s, socket'[c])
    BY <1>1, <2>1 DEF LineInv
  <2>3. (NoHole(A) /\ (s \in open => UpTo(A, LastOf(s)))) \/ c \notin open'
    <3>1. CASE c = d
      <4>1. A = InInbox(s)
        BY <1>5, <3>1
      <4>2. QED
        BY <2>1, <4>1 DEF SenderInv
    <3>2. CASE c # d
      BY <1>1, <2>1, <3>2 DEF LineInv
    <3>3. QED
      BY <3>1, <3>2
  <2>4. s = d => UpTo(A, LastOf(s))
    BY <1>5 DEF UpTo
  <2>5. InOrder(Heard(c, s), OnSocket(c, s), Queued(c, s), InInbox(s), LastOf(s))
        /\ (c = s => Heard(c, s) = {} /\ OnSocket(c, s) = {} /\ Queued(c, s) = {})
    BY <2>1 DEF LineInv
  <2>6. QED
    BY <1>1, <1>5, <2>2, <2>3, <2>4, <2>5 DEF LineInv
<1>7. ASSUME NEW s \in Clients PROVE SenderInv(s)'
  <2>1. SenderInv(s) /\ InInbox(s)' = InInbox(s) /\ LastOf(s)' = LastOf(s)
        /\ (s = d => InInbox(s) = {})
    BY <1>5 DEF RelayInv
  <2>2. QED
    BY <1>1, <2>1 DEF SenderInv, UpTo
<1>8. QED
  BY <1>6, <1>7 DEF RelayInv

\* A connection that goes takes its socket and queue with it.
LEMMA RelayDisconnect ==
  ASSUME TypeOK, RelayInv, NEW d \in Clients, Disconnect(d)
  PROVE  RelayInv'
<1>1. /\ open' = open \ {d} /\ gone' = gone \cup {d}
      /\ queue' = [queue EXCEPT ![d] = <<>>] /\ socket' = [socket EXCEPT ![d] = <<>>]
      /\ UNCHANGED <<inbox, sent, heard>>
  BY DEF Disconnect
<1>2. /\ queue'[d] = <<>> /\ socket'[d] = <<>>
      /\ \A c \in Clients \ {d} : queue'[c] = queue[c] /\ socket'[c] = socket[c]
  BY <1>1 DEF TypeOK
<1>3. ASSUME NEW c \in Clients, NEW s \in Clients PROVE LineInv(c, s)'
  <2>1. LineInv(c, s)
    BY DEF RelayInv
  <2>2. Heard(c, s)' = Heard(c, s) /\ InInbox(s)' = InInbox(s) /\ LastOf(s)' = LastOf(s)
        /\ Ascending(s, heard'[c])
    BY <1>1, <2>1 DEF Heard, InInbox, LastOf, LineInv
  <2>3. CASE c = d
    <3>1. /\ OnSocket(c, s)' = {} /\ Queued(c, s)' = {} /\ c \notin open'
          /\ Ascending(s, socket'[c]) /\ Ascending(s, Texts(queue'[c]))
      BY <1>1, <1>2, <2>3, NumbersNone DEF OnSocket, Queued
    <3>2. InOrder(Heard(c, s), {}, {}, InInbox(s), LastOf(s))
      BY <2>1, Fewer, LineTypes DEF LineInv
    <3>3. QED
      BY <2>1, <2>2, <3>1, <3>2 DEF LineInv
  <2>4. CASE c # d
    <3>1. /\ OnSocket(c, s)' = OnSocket(c, s) /\ Queued(c, s)' = Queued(c, s)
          /\ Ascending(s, socket'[c]) /\ Ascending(s, Texts(queue'[c]))
      BY <1>2, <2>1, <2>4 DEF OnSocket, Queued, LineInv
    <3>2. QED
      BY <1>1, <2>1, <2>2, <3>1, LineKept
  <2>5. QED
    BY <2>3, <2>4
<1>4. ASSUME NEW s \in Clients PROVE SenderInv(s)'
  <2>1. SenderInv(s)
    BY DEF RelayInv
  <2>2. QED
    BY <1>1, <2>1 DEF SenderInv, InInbox, LastOf
<1>5. QED
  BY <1>3, <1>4 DEF RelayInv

\* A handler that leaves drops what is in its inbox, which is last in line.
LEMMA RelayHandlerEnds ==
  ASSUME TypeOK, RelayInv, NEW d \in Clients, HandlerEnds(d)
  PROVE  RelayInv'
<1>1. /\ d \notin open /\ inbox' = [inbox EXCEPT ![d] = <<>>]
      /\ UNCHANGED <<open, gone, sent, queue, socket, heard>>
  BY DEF HandlerEnds
<1>2. inbox'[d] = <<>> /\ \A s \in Clients \ {d} : inbox'[s] = inbox[s]
  BY <1>1 DEF TypeOK
<1>3. ASSUME NEW c \in Clients, NEW s \in Clients PROVE LineInv(c, s)'
  <2>1. LineInv(c, s) /\ LastOf(s) \in Nat
    BY LineTypes DEF RelayInv
  <2>2. /\ Heard(c, s)' = Heard(c, s) /\ OnSocket(c, s)' = OnSocket(c, s)
        /\ Queued(c, s)' = Queued(c, s) /\ LastOf(s)' = LastOf(s)
        /\ Ascending(s, heard'[c]) /\ Ascending(s, socket'[c]) /\ Ascending(s, Texts(queue'[c]))
    BY <1>1, <2>1 DEF Heard, OnSocket, Queued, LastOf, LineInv
  <2>3. CASE s = d
    <3> DEFINE A == Heard(c, s) \cup OnSocket(c, s) \cup Queued(c, s)
    <3>1. InInbox(s)' = {} /\ s \notin open'
      BY <1>1, <1>2, <2>3, NumbersNone DEF InInbox
    <3>2. InOrder(Heard(c, s), OnSocket(c, s), Queued(c, s), {}, LastOf(s))
      BY <2>1, Fewer DEF LineInv
    <3>3. c \in open => NoHole(A)
      <4>1. c \in open => NoHole(A \cup InInbox(s))
        BY <2>1 DEF LineInv
      <4>2. A \subseteq 1 .. LastOf(s) /\ InInbox(s) \subseteq 1 .. LastOf(s)
            /\ Below(A, InInbox(s))
        BY <2>1 DEF LineInv, InOrder
      <4> HIDE DEF A
      <4>3. QED
        BY <2>1, <4>1, <4>2, PartOfNoHole
    <3>4. A \cup {} = A
      OBVIOUS
    <3>5. QED
      BY <1>1, <2>1, <2>2, <3>1, <3>2, <3>3, <3>4 DEF LineInv
  <2>4. CASE s # d
    <3>1. InInbox(s)' = InInbox(s)
      BY <1>2, <2>4 DEF InInbox
    <3>2. QED
      BY <1>1, <2>1, <2>2, <3>1, LineKept
  <2>5. QED
    BY <2>3, <2>4
<1>4. ASSUME NEW s \in Clients PROVE SenderInv(s)'
  <2>1. SenderInv(s) /\ LastOf(s)' = LastOf(s)
    BY <1>1 DEF RelayInv, LastOf
  <2>2. CASE s = d
    <3>1. InInbox(s)' = {} /\ Ascending(s, inbox'[s]) /\ DOMAIN inbox'[s] = {}
      BY <1>2, <2>2, NumbersNone DEF InInbox
    <3>2. NoHole({}) /\ s \notin open'
      BY <1>1, <2>2 DEF NoHole
    <3>3. QED
      BY <1>1, <2>1, <3>1, <3>2 DEF SenderInv
  <2>3. CASE s # d
    BY <1>1, <1>2, <2>1, <2>3 DEF SenderInv, InInbox
  <2>4. QED
    BY <2>2, <2>3
<1>5. QED
  BY <1>3, <1>4 DEF RelayInv

\* What a client sends next goes to the end of its inbox, and of every line.
LEMMA RelayClientSends ==
  ASSUME TypeOK, RelayInv, NEW d \in Clients, NEW kind \in ControlKinds, ClientSends(d, kind)
  PROVE  RelayInv'
<1> DEFINE k == LastOf(d)
           m == IF kind = "relay" THEN Relayed(d, sent[d][kind] + 1) ELSE [kind |-> kind]
<1>1. /\ d \in open
      /\ sent' = [sent EXCEPT ![d][kind] = @ + 1]
      /\ inbox' = [inbox EXCEPT ![d] = Append(@, m)]
      /\ UNCHANGED <<open, gone, queue, socket, heard>>
  BY DEF ClientSends
<1>2. /\ sent \in [Clients -> [ControlKinds -> Nat]] /\ inbox \in [Clients -> Seq(Control)]
      /\ k \in Nat /\ "relay" \in ControlKinds
  BY LineTypes DEF TypeOK, ControlKinds
<1>3. /\ kind # "relay" => \A s \in Clients : LastOf(s)' = LastOf(s)
      /\ kind = "relay" => LastOf(d)' = k + 1 /\ \A s \in Clients \ {d} : LastOf(s)' = LastOf(s)
  BY <1>1, <1>2 DEF LastOf
<1>4. /\ kind = "relay" => m = Relayed(d, k + 1)
      /\ kind # "relay" => m = [kind |-> kind]
  BY DEF LastOf
<1>5. m \in Control /\ (m.kind = "relay" => m.from = d) /\ (From(m, d) <=> kind = "relay")
      /\ (kind = "relay" => m.n = k + 1)
  <2>1. CASE kind = "relay"
    BY <1>2, <1>4, <2>1 DEF Relayed, Control, RelayedMessages, From
  <2>2. CASE kind # "relay"
    BY <1>4, <2>2 DEF Control, From
  <2>3. QED
    BY <2>1, <2>2
<1> HIDE DEF m, k
<1>6. /\ inbox'[d] = Append(inbox[d], m) /\ inbox[d] \in Seq(Control)
      /\ \A s \in Clients \ {d} : inbox'[s] = inbox[s]
  BY <1>1, <1>2
<1>7. SenderInv(d) /\ Ascending(d, inbox[d]) /\ NoHole(InInbox(d)) /\ UpTo(InInbox(d), k)
  BY <1>1 DEF RelayInv, SenderInv, k
<1>8. InInbox(d) \subseteq 1 .. k
  BY DEF RelayInv, LineInv, InOrder, k
<1>9. /\ InInbox(d)' = IF kind = "relay" THEN InInbox(d) \cup {k + 1} ELSE InInbox(d)
      /\ Ascending(d, inbox'[d])
  <2>1. /\ ~From(m, d) => Numbers(d, Append(inbox[d], m)) = Numbers(d, inbox[d])
        /\ From(m, d) => Numbers(d, Append(inbox[d], m)) = Numbers(d, inbox[d]) \cup {m.n}
    BY <1>5, <1>6, NumbersAppended
  <2>2. Below(InInbox(d), {k + 1})
    BY <1>2, <1>7, <1>8, NextLeavesNoHole
  <2>3. Ascending(d, Append(inbox[d], m))
    BY <1>5, <1>6, <1>7, <2>2, AscendingAppended DEF InInbox
  <2>4. QED
    BY <1>5, <1>6, <2>1, <2>3 DEF InInbox
<1>10. ASSUME NEW c \in Clients, NEW s \in Clients PROVE LineInv(c, s)'
  <2>1. LineInv(c, s)
    BY DEF RelayInv
  <2>2. /\ Heard(c, s)' = Heard(c, s) /\ OnSocket(c, s)' = OnSocket(c, s)
        /\ Queued(c, s)' = Queued(c, s)
        /\ Ascending(s, heard'[c]) /\ Ascending(s, socket'[c]) /\ Ascending(s, Texts(queue'[c]))
    BY <1>1, <2>1 DEF Heard, OnSocket, Queued, LineInv
  <2>3. CASE s = d /\ kind = "relay"
    <3> DEFINE A == Heard(c, s) \cup OnSocket(c, s) \cup Queued(c, s) \cup InInbox(s)
    <3>1. InInbox(s)' = InInbox(s) \cup {k + 1} /\ LastOf(s)' = k + 1 /\ LastOf(s) = k
      BY <1>3, <1>9, <2>3 DEF k
    <3>2. InOrder(Heard(c, s), OnSocket(c, s), Queued(c, s), InInbox(s) \cup {k + 1}, k + 1)
      BY <1>2, <2>1, <3>1, NextNumber DEF LineInv
    <3>3. c \in open => NoHole(A \cup {k + 1}) /\ UpTo(A \cup {k + 1}, k + 1)
      <4>1. A \subseteq 1 .. k /\ (c \in open => NoHole(A) /\ UpTo(A, k))
        BY <1>1, <2>1, <2>3, <3>1 DEF LineInv, InOrder
      <4> HIDE DEF A
      <4>2. QED
        BY <1>2, <4>1, NextLeavesNoHole
    <3>4. A \cup {k + 1}
            = Heard(c, s) \cup OnSocket(c, s) \cup Queued(c, s) \cup (InInbox(s) \cup {k + 1})
      OBVIOUS
    <3>5. QED
      BY <1>1, <2>1, <2>2, <3>1, <3>2, <3>3, <3>4 DEF LineInv
  <2>4. CASE s # d \/ kind # "relay"
    <3>1. InInbox(s)' = InInbox(s) /\ LastOf(s)' = LastOf(s)
      BY <1>3, <1>6, <1>9, <2>4 DEF InInbox
    <3>2. QED
      BY <1>1, <2>1, <2>2, <3>1, LineKept
  <2>5. QED
    BY <2>3, <2>4
<1>11. ASSUME NEW s \in Clients PROVE SenderInv(s)'
  <2>1. SenderInv(s)
    BY DEF RelayInv
  <2>2. CASE s = d
    <3>1. \A i \in DOMAIN inbox'[d] : inbox'[d][i].kind = "relay" => inbox'[d][i].from = d
      <4>1. /\ DOMAIN inbox'[d] = DOMAIN inbox[d] \cup {Len(inbox[d]) + 1}
            /\ \A i \in DOMAIN inbox[d] : inbox'[d][i] = inbox[d][i]
            /\ inbox'[d][Len(inbox[d]) + 1] = m
        BY <1>5, <1>6, Appended
      <4>2. QED
        BY <1>5, <1>7, <4>1 DEF SenderInv
    <3>2. NoHole(InInbox(d))' /\ UpTo(InInbox(d)', LastOf(d)')
      <4>1. CASE kind = "relay"
        BY <1>2, <1>3, <1>7, <1>8, <1>9, <4>1, NextLeavesNoHole
      <4>2. CASE kind # "relay"
        BY <1>3, <1>7, <1>9, <4>2 DEF k
      <4>3. QED
        BY <4>1, <4>2
    <3>3. QED
      BY <1>1, <1>9, <2>2, <3>1, <3>2 DEF SenderInv
  <2>3. CASE s # d
    BY <1>1, <1>3, <1>6, <2>1, <2>3 DEF SenderInv, InInbox
  <2>4. QED
    BY <2>2, <2>3
<1>12. QED
  BY <1>10, <1>11 DEF RelayInv

\* The first message on a socket is heard, unless it is of another kind.
LEMMA RelayClientReceives ==
  ASSUME TypeOK, RelayInv, NEW d \in Clients, ClientReceives(d)
  PROVE  RelayInv'
<1> DEFINE m == Head(socket[d])
<1>1. /\ socket[d] # <<>>
      /\ heard' = IF m.kind = "relay" THEN [heard EXCEPT ![d] = Append(@, m)] ELSE heard
      /\ socket' = [socket EXCEPT ![d] = Tail(@)]
      /\ UNCHANGED <<open, gone, inbox, sent, queue>>
  BY DEF ClientReceives
<1>2. /\ socket[d] \in Seq(Messages) /\ heard[d] \in Seq(RelayedMessages) /\ d \in open
      /\ m \in Messages
  <2>1. socket[d] \in Seq(Messages) /\ heard[d] \in Seq(RelayedMessages) /\ d \in open
    BY <1>1, LineTypes DEF TypeOK
  <2>2. QED
    BY <1>1, <2>1, Shortened
<1> HIDE DEF m
<1>3. /\ socket'[d] = Tail(socket[d])
      /\ heard'[d] = IF m.kind = "relay" THEN Append(heard[d], m) ELSE heard[d]
      /\ \A c \in Clients \ {d} : socket'[c] = socket[c] /\ heard'[c] = heard[c]
  BY <1>1 DEF TypeOK
<1>4. m.kind = "relay" => m \in RelayedMessages
  BY <1>2 DEF Messages
<1>5. ASSUME NEW c \in Clients, NEW s \in Clients PROVE LineInv(c, s)'
  <2>1. LineInv(c, s) /\ LastOf(s) \in Nat
    BY LineTypes DEF RelayInv
  <2>2. /\ Queued(c, s)' = Queued(c, s) /\ InInbox(s)' = InInbox(s) /\ LastOf(s)' = LastOf(s)
        /\ Ascending(s, Texts(queue'[c]))
    BY <1>1, <2>1 DEF Queued, InInbox, LastOf, LineInv
  <2>3. CASE c # d
    <3>1. /\ Heard(c, s)' = Heard(c, s) /\ OnSocket(c, s)' = OnSocket(c, s)
          /\ Ascending(s, heard'[c]) /\ Ascending(s, socket'[c])
      BY <1>3, <2>1, <2>3 DEF Heard, OnSocket, LineInv
    <3>2. QED
      BY <1>1, <2>1, <2>2, <3>1, LineKept
  <2>4. CASE c = d /\ ~From(m, s)
    <3>1. OnSocket(c, s)' = OnSocket(c, s) /\ Ascending(s, socket'[c])
      <4>1. ~From(Head(socket[d]), s) /\ Ascending(s, socket[d])
        BY <2>1, <2>4 DEF m, LineInv
      <4>2. Numbers(s, Tail(socket[d])) = Numbers(s, socket[d]) /\ Ascending(s, Tail(socket[d]))
        BY <1>1, <1>2, <4>1, NumbersTaken
      <4>3. QED
        BY <1>3, <2>4, <4>2 DEF OnSocket
    <3>2. Heard(c, s)' = Heard(c, s) /\ Ascending(s, heard'[c])
      <4>1. CASE m.kind = "relay"
        <5>1. Numbers(s, Append(heard[d], m)) = Numbers(s, heard[d])
          BY <1>2, <1>4, <2>4, <4>1, NumbersAppended
        <5>2. Ascending(s, Append(heard[d], m))
          BY <1>2, <1>4, <2>1, <2>4, <4>1, AscendingAppended DEF LineInv
        <5>3. QED
          BY <1>3, <2>4, <4>1, <5>1, <5>2 DEF Heard
      <4>2. CASE m.kind # "relay"
        BY <1>3, <2>1, <2>4, <4>2 DEF Heard, LineInv
      <4>3. QED
        BY <4>1, <4>2
    <3>3. QED
      BY <1>1, <2>1, <2>2, <3>1, <3>2, LineKept
  <2>5. CASE c = d /\ From(m, s)
    <3> DEFINE H == Heard(c, s)
               T == Numbers(s, Tail(socket[d]))
               A == Queued(c, s) \cup InInbox(s)
    <3>1. /\ OnSocket(c, s) = {m.n} \cup T /\ Below({m.n}, T) /\ Ascending(s, Tail(socket[d]))
      BY <1>1, <1>2, <2>1, <2>5, NumbersTaken DEF OnSocket, LineInv, m
    <3>2. OnSocket(c, s)' = T /\ Ascending(s, socket'[c])
      BY <1>3, <2>5, <3>1 DEF OnSocket
    <3>3. m.kind = "relay"
      BY <2>5 DEF From
    <3>4. /\ InOrder(H \cup {m.n}, T, Queued(c, s), InInbox(s), LastOf(s))
          /\ Below(H, {m.n})
      <4>1. /\ InOrder(H, OnSocket(c, s), Queued(c, s), InInbox(s), LastOf(s))
            /\ NoHole(H \cup OnSocket(c, s) \cup Queued(c, s) \cup InInbox(s))
        BY <1>2, <2>1, <2>5 DEF LineInv
      <4> HIDE DEF H, T
      <4>2. QED
        BY <2>1, <3>1, <4>1, SocketToHeard
    <3>5. Heard(c, s)' = H \cup {m.n} /\ Ascending(s, heard'[c])
      <4>1. Numbers(s, Append(heard[d], m)) = Numbers(s, heard[d]) \cup {m.n}
        BY <1>2, <1>4, <2>5, <3>3, NumbersAppended
      <4>2. Ascending(s, Append(heard[d], m))
        BY <1>2, <1>4, <2>1, <2>5, <3>3, <3>4, AscendingAppended DEF LineInv, Heard
      <4>3. QED
        BY <1>3, <2>5, <3>3, <4>1, <4>2 DEF Heard
    <3>6. (H \cup {m.n}) \cup T = H \cup OnSocket(c, s)
      BY <3>1
    <3>7. c # s
      BY <2>1, <3>1 DEF LineInv
    <3> HIDE DEF H, T
    <3>8. QED
      BY <1>1, <2>1, <2>2, <3>2, <3>4, <3>5, <3>6, <3>7 DEF LineInv, H
  <2>6. QED
    BY <2>3, <2>4, <2>5
<1>6. ASSUME NEW s \in Clients PROVE SenderInv(s)'
  <2>1. SenderInv(s)
    BY DEF RelayInv
  <2>2. s \notin open \cup gone => heard'[s] = heard[s]
    BY <1>2, <1>3
  <2>3. QED
    BY <1>1, <2>1, <2>2 DEF SenderInv, InInbox, LastOf
<1>7. QED
  BY <1>5, <1>6 DEF RelayInv

\* The first send of a queue that goes through is the last on the socket.
LEMMA RelayDeliver ==
  ASSUME TypeOK, RelayInv, NEW d \in Clients, Deliver(d)
  PROVE  RelayInv'
<1> DEFINE m == Head(queue[d]).msg
           q == Texts(queue[d])
<1>1. /\ queue[d] # <<>>
      /\ socket' = [socket EXCEPT ![d] = Append(@, m)]
      /\ queue' = [queue EXCEPT ![d] = Tail(@)]
      /\ UNCHANGED <<open, gone, inbox, sent, heard>>
  BY DEF Deliver
<1>2. /\ queue[d] \in Seq(Sends) /\ socket[d] \in Seq(Messages) /\ q \in Seq(Messages)
  BY LineTypes
<1>3. q # <<>> /\ m = Head(q) /\ Texts(Tail(queue[d])) = Tail(q)
  BY <1>1, <1>2, TextsOf
<1> HIDE DEF m, q
<1>4. m \in Messages
  BY <1>2, <1>3, Shortened
<1>5. /\ socket'[d] = Append(socket[d], m) /\ Texts(queue'[d]) = Tail(q)
      /\ \A c \in Clients \ {d} : socket'[c] = socket[c] /\ queue'[c] = queue[c]
  BY SMTT(60), <1>1, <1>3 DEF TypeOK
<1>6. ASSUME NEW c \in Clients, NEW s \in Clients PROVE LineInv(c, s)'
  <2>1. LineInv(c, s) /\ LastOf(s) \in Nat
    BY LineTypes DEF RelayInv
  <2>2. /\ Heard(c, s)' = Heard(c, s) /\ InInbox(s)' = InInbox(s) /\ LastOf(s)' = LastOf(s)
        /\ Ascending(s, heard'[c])
    BY <1>1, <2>1 DEF Heard, InInbox, LastOf, LineInv
  <2>3. CASE c # d
    <3>1. /\ OnSocket(c, s)' = OnSocket(c, s) /\ Queued(c, s)' = Queued(c, s)
          /\ Ascending(s, socket'[c]) /\ Ascending(s, Texts(queue'[c]))
      BY <1>5, <2>1, <2>3 DEF OnSocket, Queued, LineInv
    <3>2. QED
      BY <1>1, <2>1, <2>2, <3>1, LineKept
  <2>4. (Ascending(s, q) /\ Ascending(s, socket[d])) \/ c # d
    BY <2>1 DEF LineInv, q
  <2>5. CASE c = d /\ ~From(m, s)
    <3>1. Numbers(s, Append(socket[d], m)) = Numbers(s, socket[d])
      BY <1>2, <1>4, <2>5, NumbersAppended
    <3>2. Ascending(s, Append(socket[d], m))
      BY <1>2, <1>4, <2>4, <2>5, AscendingAppended
    <3>3. Numbers(s, Tail(q)) = Numbers(s, q) /\ Ascending(s, Tail(q))
      BY <1>2, <1>3, <2>4, <2>5, NumbersTaken
    <3>4. OnSocket(c, s)' = OnSocket(c, s) /\ Queued(c, s)' = Queued(c, s)
      BY <1>5, <2>5, <3>1, <3>3 DEF OnSocket, Queued, q
    <3>5. Ascending(s, socket'[c]) /\ Ascending(s, Texts(queue'[c]))
      BY <1>5, <2>5, <3>2, <3>3
    <3>6. QED
      BY <1>1, <2>1, <2>2, <3>4, <3>5, LineKept
  <2>6. CASE c = d /\ From(m, s)
    <3> DEFINE S == OnSocket(c, s)
               R == Numbers(s, Tail(q))
    <3>1. Numbers(s, q) = {m.n} \cup R /\ Below({m.n}, R) /\ Ascending(s, Tail(q))
      BY <1>2, <1>3, <2>4, <2>6, NumbersTaken
    <3>2. Queued(c, s) = {m.n} \cup R /\ Queued(c, s)' = R /\ Ascending(s, Texts(queue'[c]))
      BY <1>5, <2>6, <3>1 DEF Queued, q
    <3>3. InOrder(Heard(c, s), S \cup {m.n}, R, InInbox(s), LastOf(s)) /\ Below(S, {m.n})
      <4>1. InOrder(Heard(c, s), S, Queued(c, s), InInbox(s), LastOf(s))
        BY <2>1 DEF LineInv
      <4> HIDE DEF S, R
      <4>2. QED
        BY <2>1, <3>1, <3>2, <4>1, QueueToSocket
    <3>4. OnSocket(c, s)' = S \cup {m.n} /\ Ascending(s, socket'[c])
      <4>1. Numbers(s, Append(socket[d], m)) = Numbers(s, socket[d]) \cup {m.n}
        BY <1>2, <1>4, <2>6, NumbersAppended
      <4>2. Ascending(s, Append(socket[d], m))
        BY <1>2, <1>4, <2>4, <2>6, <3>3, AscendingAppended DEF OnSocket
      <4>3. QED
        BY <1>5, <2>6, <4>1, <4>2 DEF OnSocket
    <3>5. c # s /\ (S \cup {m.n}) \cup R = S \cup Queued(c, s)
      BY <2>1, <3>2 DEF LineInv
    <3> HIDE DEF S, R
    <3>6. Heard(c, s) \cup (S \cup {m.n}) \cup R \cup InInbox(s)
            = Heard(c, s) \cup S \cup Queued(c, s) \cup InInbox(s)
      BY <3>5
    <3>7. QED
      BY <1>1, <2>1, <2>2, <3>1, <3>2, <3>3, <3>4, <3>5, <3>6 DEF LineInv, S
  <2>7. QED
    BY <2>3, <2>5, <2>6
<1>7. ASSUME NEW s \in Clients PROVE SenderInv(s)'
  BY <1>1 DEF RelayInv, SenderInv, InInbox, LastOf
<1>8. QED
  BY <1>6, <1>7 DEF RelayInv

\* A relayed message goes to the end of every peer's queue, whatever the peer
\* has still to take.
LEMMA RelayHandleRelay ==
  ASSUME TypeOK, RelayInv, NEW d \in Clients, HandleRelay(d)
  PROVE  RelayInv'
<1> DEFINE m == Head(inbox[d])
           e == [task |-> d, msg |-> m]
           J == Numbers(d, Tail(inbox[d]))
<1>1. /\ inbox[d] # <<>> /\ m.kind = "relay"
      /\ inbox' = [inbox EXCEPT ![d] = Tail(@)]
      /\ queue' = [c \in Clients |->
                     IF c \in (open \ {d}) \cap open THEN Append(queue[c], e) ELSE queue[c]]
      /\ UNCHANGED <<open, gone, sent, socket, heard>>
  BY DEF HandleRelay, Reads, Send, Peers
<1>2. /\ inbox[d] \in Seq(Control) /\ LastOf(d) \in Nat /\ d \in Tasks
  BY LineTypes DEF Tasks
<1>3. Tail(inbox[d]) \in Seq(Control) /\ m \in Control /\ m = inbox[d][1] /\ 1 \in DOMAIN inbox[d]
  BY <1>1, <1>2, Shortened
<1>4. SenderInv(d) /\ m \in Messages /\ \A s \in Clients : From(m, s) <=> s = d
  <2>1. SenderInv(d)
    BY DEF RelayInv
  <2>2. m.from = d
    BY <1>1, <1>3, <2>1 DEF SenderInv
  <2>3. QED
    BY <1>1, <1>3, <2>1, <2>2 DEF From, Control, Messages
<1>5. e \in Sends /\ e.msg = m
  BY <1>2, <1>4 DEF Sends
<1>6. From(m, d) /\ Ascending(d, inbox[d])
  BY <1>4 DEF SenderInv
<1>7. InInbox(d) = {m.n} \cup J /\ Below({m.n}, J) /\ Ascending(d, Tail(inbox[d]))
  BY <1>1, <1>2, <1>6, NumbersTaken DEF InInbox
<1> HIDE DEF m, e
<1>8. /\ inbox'[d] = Tail(inbox[d]) /\ \A s \in Clients \ {d} : inbox'[s] = inbox[s]
  BY <1>1 DEF TypeOK
<1>9. InInbox(d)' = J
  BY <1>8 DEF InInbox
<1> HIDE DEF J
<1>10. NoHole(J) /\ (d \in open => UpTo(J, LastOf(d)))
  <2>1. {m.n} \cup J \subseteq 1 .. LastOf(d)
    BY <1>7 DEF RelayInv, LineInv, InOrder
  <2>2. NoHole({m.n} \cup J) /\ (d \in open => UpTo({m.n} \cup J, LastOf(d)))
    BY <1>4, <1>7 DEF SenderInv
  <2>3. QED
    BY <1>2, <1>7, <2>1, <2>2, PartOfNoHole
<1>11. ASSUME NEW c \in Clients, NEW s \in Clients PROVE LineInv(c, s)'
  <2>1. LineInv(c, s) /\ LastOf(s) \in Nat /\ queue[c] \in Seq(Sends)
    BY LineTypes DEF RelayInv
  <2>2. /\ Heard(c, s)' = Heard(c, s) /\ OnSocket(c, s)' = OnSocket(c, s)
        /\ LastOf(s)' = LastOf(s) /\ Ascending(s, heard'[c]) /\ Ascending(s, socket'[c])
    BY <1>1, <2>1 DEF Heard, OnSocket, LastOf, LineInv
  <2> DEFINE q == Texts(queue[c])
  <2>3. q \in Seq(Messages) /\ Ascending(s, q) /\ Queued(c, s) = Numbers(s, q)
    BY <2>1, LineTypes DEF LineInv, Queued
  <2>4. Texts(Append(queue[c], e)) = Append(q, m)
    BY <1>5, <2>1, TextsOf
  <2>5. /\ c \in open \ {d} => Texts(queue'[c]) = Append(q, m)
        /\ c \notin open \ {d} => Texts(queue'[c]) = q
    BY <1>1, <2>4
  <2> HIDE DEF q
  <2>6. CASE s # d
    <3>1. InInbox(s)' = InInbox(s)
      BY <1>8, <2>6 DEF InInbox
    <3>2. Numbers(s, Append(q, m)) = Numbers(s, q)
      BY <1>4, <2>3, <2>6, NumbersAppended
    <3>3. Ascending(s, Append(q, m))
      BY <1>4, <2>3, <2>6, AscendingAppended
    <3>4. Queued(c, s)' = Queued(c, s) /\ Ascending(s, Texts(queue'[c]))
      BY <2>3, <2>5, <3>2, <3>3 DEF Queued
    <3>5. QED
      BY <1>1, <2>1, <2>2, <3>1, <3>4, LineKept
  <2>7. CASE s = d /\ c \in open \ {d}
    <3> DEFINE Q == Queued(c, s)
    <3>1. InOrder(Heard(c, s), OnSocket(c, s), Q \cup {m.n}, J, LastOf(s)) /\ Below(Q, {m.n})
      <4>1. InOrder(Heard(c, s), OnSocket(c, s), Q, InInbox(s), LastOf(s))
        BY <2>1 DEF LineInv
      <4> HIDE DEF Q
      <4>2. QED
        BY <1>7, <2>1, <2>7, <4>1, InboxToQueue
    <3>2. Numbers(s, Append(q, m)) = Numbers(s, q) \cup {m.n}
      BY <1>4, <2>3, <2>7, NumbersAppended
    <3>3. Ascending(s, Append(q, m))
      BY <1>4, <2>3, <2>7, <3>1, AscendingAppended
    <3>4. Queued(c, s)' = Q \cup {m.n} /\ Ascending(s, Texts(queue'[c])) /\ InInbox(s)' = J
      BY <1>9, <2>3, <2>5, <2>7, <3>2, <3>3 DEF Queued
    <3> HIDE DEF Q
    <3>5. Heard(c, s) \cup OnSocket(c, s) \cup (Q \cup {m.n}) \cup J
            = Heard(c, s) \cup OnSocket(c, s) \cup Q \cup InInbox(s)
      BY <1>7, <2>7
    <3>6. QED
      BY <1>1, <2>1, <2>2, <2>7, <3>1, <3>4, <3>5 DEF LineInv, Q
  <2>8. CASE s = d /\ c \notin open \ {d}
    <3>1. Queued(c, s)' = Queued(c, s) /\ Ascending(s, Texts(queue'[c])) /\ InInbox(s)' = J
      BY <1>9, <2>3, <2>5, <2>8 DEF Queued
    <3>2. InOrder(Heard(c, s), OnSocket(c, s), Queued(c, s), J, LastOf(s))
      <4>1. J \subseteq InInbox(s)
        BY <1>7, <2>8
      <4>2. QED
        BY <2>1, <4>1, Fewer DEF LineInv
    <3>3. c \in open => c = s /\ Heard(c, s) \cup OnSocket(c, s) \cup Queued(c, s) \cup J = J
      BY <2>1, <2>8 DEF LineInv
    <3>4. QED
      BY <1>1, <1>10, <2>1, <2>2, <2>8, <3>1, <3>2, <3>3 DEF LineInv
  <2>9. QED
    BY <2>6, <2>7, <2>8
<1>12. ASSUME NEW s \in Clients PROVE SenderInv(s)'
  <2>1. SenderInv(s) /\ LastOf(s)' = LastOf(s)
    BY <1>1 DEF RelayInv, LastOf
  <2>2. CASE s = d
    <3>1. \A i \in DOMAIN inbox'[d] : inbox'[d][i].kind = "relay" => inbox'[d][i].from = d
      <4>1. \A i \in DOMAIN inbox'[d] : i + 1 \in DOMAIN inbox[d] /\ inbox'[d][i] = inbox[d][i + 1]
        <5> DEFINE t == Tail(inbox[d])
        <5>1. \A i \in DOMAIN t : i + 1 \in DOMAIN inbox[d] /\ t[i] = inbox[d][i + 1]
          BY <1>1, <1>2, Shortened
        <5>2. QED
          BY <1>8, <5>1
      <4>2. QED
        BY <1>4, <4>1 DEF SenderInv
    <3>2. QED
      BY <1>1, <1>7, <1>8, <1>9, <1>10, <2>1, <2>2, <3>1 DEF SenderInv
  <2>3. CASE s # d
    BY <1>1, <1>8, <2>1, <2>3 DEF SenderInv, InInbox
  <2>4. QED
    BY <2>2, <2>3
<1>13. QED
  BY <1>11, <1>12 DEF RelayInv

\* Everything else sends no relayed message and reads none.
LEMMA RelayOthers ==
  ASSUME TypeOK, RelayInv,
         \/ \E d \in Clients : HandleChange(d) \/ HandleFailingStart(d) \/ HandleHello(d)
         \/ \E t \in Tasks : BroadcastNext(t)
         \/ Tick
         \/ UNCHANGED vars
  PROVE  RelayInv'
<1>1. ASSUME UNCHANGED <<open, gone, sent, socket, heard>>,
             \A c, s \in Clients : Queued(c, s)' = Queued(c, s) /\ Ascending(s, Texts(queue'[c])),
             \A s \in Clients :
               /\ Ascending(s, inbox'[s]) /\ InInbox(s)' = InInbox(s)
               /\ \A i \in DOMAIN inbox'[s] : inbox'[s][i].kind = "relay" => inbox'[s][i].from = s
      PROVE  RelayInv'
  <2>1. ASSUME NEW c \in Clients, NEW s \in Clients PROVE LineInv(c, s)'
    <3>1. LineInv(c, s)
      BY DEF RelayInv
    <3>2. /\ Heard(c, s)' = Heard(c, s) /\ OnSocket(c, s)' = OnSocket(c, s)
          /\ LastOf(s)' = LastOf(s) /\ Ascending(s, heard'[c]) /\ Ascending(s, socket'[c])
      BY <1>1, <3>1 DEF Heard, OnSocket, LastOf, LineInv
    <3>3. QED
      BY <1>1, <3>1, <3>2, LineKept
  <2>2. ASSUME NEW s \in Clients PROVE SenderInv(s)'
    <3>1. SenderInv(s) /\ LastOf(s)' = LastOf(s)
      BY <1>1 DEF RelayInv, LastOf
    <3>2. QED
      BY <1>1, <3>1, SenderKept
  <2>3. QED
    BY <2>1, <2>2 DEF RelayInv
<1>2. ASSUME UNCHANGED queue
      PROVE  \A c, s \in Clients : Queued(c, s)' = Queued(c, s) /\ Ascending(s, Texts(queue'[c]))
  BY <1>2 DEF Queued, RelayInv, LineInv
<1>3. ASSUME UNCHANGED inbox
      PROVE  \A s \in Clients :
               /\ Ascending(s, inbox'[s]) /\ InInbox(s)' = InInbox(s)
               /\ \A i \in DOMAIN inbox'[s] : inbox'[s][i].kind = "relay" => inbox'[s][i].from = s
  BY <1>3 DEF InInbox, RelayInv, SenderInv
<1>4. ASSUME NEW t \in Tasks, NEW to, NEW m \in Messages, m.kind # "relay", Send(t, to, m)
      PROVE  \A c, s \in Clients : Queued(c, s)' = Queued(c, s) /\ Ascending(s, Texts(queue'[c]))
  BY <1>4, SendQuiet DEF RelayInv, LineInv
<1>5. ASSUME NEW d \in Clients, NEW kind, kind # "relay", Reads(d, kind)
      PROVE  \A s \in Clients :
               /\ Ascending(s, inbox'[s]) /\ InInbox(s)' = InInbox(s)
               /\ \A i \in DOMAIN inbox'[s] : inbox'[s][i].kind = "relay" => inbox'[s][i].from = s
  BY <1>5, ReadQuiet DEF RelayInv
<1>6. bus \in Nat /\ \A t \in Tasks : text[t] \in Nat
  BY DEF TypeOK
<1>7. Error \in Messages /\ Error.kind # "relay"
      /\ \A b \in Nat : Status(b) \in Messages /\ Status(b).kind # "relay"
  BY DEF Error, Status, Messages
<1>8. ASSUME NEW d \in Clients, HandleChange(d) PROVE RelayInv'
  <2>1. Reads(d, "change") /\ UNCHANGED <<open, gone, sent, socket, heard, queue>>
    BY <1>8 DEF HandleChange
  <2>2. QED
    BY <1>1, <1>2, <1>5, <2>1
<1>9. ASSUME NEW d \in Clients, HandleFailingStart(d) PROVE RelayInv'
  <2>1. /\ Reads(d, "failing") /\ Send(d, {d}, Error) /\ d \in Tasks
        /\ UNCHANGED <<open, gone, sent, socket, heard>>
    BY <1>9 DEF HandleFailingStart, Tasks
  <2>2. QED
    BY <1>1, <1>4, <1>5, <1>7, <2>1
<1>10. ASSUME NEW d \in Clients, HandleHello(d) PROVE RelayInv'
  <2>1. /\ Reads(d, "hello") /\ Send(d, {d}, Status(bus)) /\ d \in Tasks
        /\ UNCHANGED <<open, gone, sent, socket, heard>>
    BY <1>10 DEF HandleHello, Tasks
  <2>2. QED
    BY <1>1, <1>4, <1>5, <1>6, <1>7, <2>1
<1>11. ASSUME NEW t \in Tasks, BroadcastNext(t) PROVE RelayInv'
  <2>1. PICK c \in left[t] : Send(t, {c}, Status(text[t]))
    BY <1>11 DEF BroadcastNext
  <2>2. UNCHANGED <<open, gone, sent, socket, heard, inbox>>
    BY <1>11 DEF BroadcastNext
  <2>3. QED
    BY <1>1, <1>3, <1>4, <1>6, <1>7, <2>1, <2>2
<1>12. CASE Tick
  <2>1. UNCHANGED <<open, gone, sent, socket, heard, inbox, queue>>
    BY <1>12 DEF Tick
  <2>2. QED
    BY <1>1, <1>2, <1>3, <2>1
<1>13. CASE UNCHANGED vars
  <2>1. UNCHANGED <<open, gone, sent, socket, heard, inbox, queue>>
    BY <1>13 DEF vars
  <2>2. QED
    BY <1>1, <1>2, <1>3, <2>1
<1>14. QED
  BY <1>8, <1>9, <1>10, <1>11, <1>12, <1>13

\* One step keeps the lines.
LEMMA RelayStep == TypeOK /\ RelayInv /\ [Next]_vars => RelayInv'
BY RelayConnect, RelayDisconnect, RelayHandlerEnds, RelayClientSends, RelayClientReceives,
   RelayDeliver, RelayHandleRelay, RelayOthers DEF Next

\* What a client heard of a sender is the first of the four places.
LEMMA LinesAreGapless == RelayInv => RelayGapless
<1> SUFFICES ASSUME RelayInv, NEW c \in Clients, NEW s \in Clients
             PROVE  LET h    == heard[c]
                        mine == {i \in DOMAIN h : From(h[i], s)}
                        nums == {h[i].n : i \in mine}
                    IN  /\ s = c => nums = {}
                        /\ \A i, j \in mine : i < j => h[i].n < h[j].n
                        /\ \A a, b \in nums : a .. b \subseteq nums
  BY DEF RelayGapless
<1>1. LineInv(c, s)
  BY DEF RelayInv
<1>2. s = c => Heard(c, s) = {}
  BY <1>1 DEF LineInv
<1>3. Ascending(s, heard[c]) /\ NoHole(Heard(c, s))
  BY <1>1 DEF LineInv, InOrder
<1>4. QED
  BY <1>2, <1>3 DEF Heard, Numbers, Ascending, NoHole

\* Of every sender a client hears an unbroken, ascending run of messages and
\* never its own, however slow other peers are and whoever comes and goes.
THEOREM RelayIsGapless == Spec => []RelayGapless
<1>1. TypeOK /\ RelayInv /\ [Next]_vars => TypeOK' /\ RelayInv'
  BY TypeStep, RelayStep
<1>2. QED
  BY <1>1, TypeInit, RelayInit, LinesAreGapless, PTL DEF Spec
=============================================================================
