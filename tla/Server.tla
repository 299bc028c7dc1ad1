------------------------------- MODULE Server -------------------------------
(***************************************************************************)
(* The control plane of backend/discodb2_backend/server.py: one handler    *)
(* coroutine per connection takes control messages one at a time; it       *)
(* relays some verbatim to every other connection, and answers those that  *)
(* change the engine by sending a status snapshot to every connection in   *)
(* turn.  A ticker task broadcasts the status periodically.                *)
(*                                                                         *)
(* External, from how the code uses the websockets library: send() waits   *)
(* its turn, first come first served, while the connection's buffer is     *)
(* full, and returns by an exception when the connection closes; a peer    *)
(* that does not answer keepalive pings is disconnected.                   *)
(*                                                                         *)
(* The engine is the number of changes it went through (Engine.tla has the *)
(* rest), and the binary stream, which a task of its own sends, is left    *)
(* out.                                                                    *)
(***************************************************************************)
EXTENDS Integers, Sequences, FiniteSets

CONSTANTS
  Clients,     \* the connections there may be; a reconnect is another one
  Prompt,      \* those that read what they are sent
  Ticker,      \* the periodic status task
  Null,        \* no status seen
  SocketCap,   \* bound: messages buffered by a connection
  InboxCap,    \* bound: control messages on their way to the server
  Workloads    \* bound: what a behaviour contains, [clients, sends, ticks]: which
               \* connect, the control messages per client and kind, and whether
               \* the ticker's interval expires

ControlKinds == {"relay", "change", "failing", "hello"}

ASSUME ServerConstants ==
  /\ Prompt \subseteq Clients /\ Ticker \notin Clients
  /\ SocketCap \in Nat \ {0} /\ InboxCap \in Nat \ {0}
  /\ Workloads \subseteq [clients : SUBSET Clients, sends : [Clients \X ControlKinds -> Nat], ticks : BOOLEAN]

VARIABLES
  open,    \* the connections the websockets server lists
  live,    \* those whose handler runs
  inbox,   \* per client: control messages not read yet
  gone,    \* those that were closed
  sent,    \* per client and kind: control messages sent so far
  on,      \* per task: the connections its send() calls wait for
  left,    \* per task: the connections its broadcast has still to visit
  text,    \* per task: the snapshot its broadcast carries
  queue,   \* per connection: sends waiting for their turn
  socket,  \* per connection: messages on their way to the client
  bus,     \* the engine's state
  heard,   \* per client: relayed messages received so far
  shown,   \* per client: the last status received
  workload \* the bound of this behaviour

vars == <<open, live, inbox, gone, sent, on, left, text, queue, socket,
          bus, heard, shown, workload>>

Tasks == Clients \cup {Ticker}

Idle(t) == on[t] = {} /\ left[t] = {}

-----------------------------------------------------------------------------
(* Messages *)

Relayed(c, n) == [kind |-> "relay", from |-> c, n |-> n]

Status(b) == [kind |-> "status", bus |-> b]

Error == [kind |-> "error"]

RelayedMessages == [kind : {"relay"}, from : Clients, n : Nat \ {0}]
Control == [kind : ControlKinds \ {"relay"}] \cup RelayedMessages
Messages == RelayedMessages \cup [kind : {"status"}, bus : Nat] \cup [kind : {"error"}]

-----------------------------------------------------------------------------
(* Sends *)

\* Task t calls send(m) on every connection of to; a closed one raises at once.
Send(t, to, m) ==
  /\ on' = [on EXCEPT ![t] = to \cap open]
  /\ queue' = [c \in Clients |->
                 IF c \in to \cap open THEN Append(queue[c], [task |-> t, msg |-> m])
                 ELSE queue[c]]

\* One send() goes through: its message is on the socket.
Deliver(c) ==
  /\ queue[c] # <<>> /\ Len(socket[c]) < SocketCap
  /\ socket' = [socket EXCEPT ![c] = Append(@, Head(queue[c]).msg)]
  /\ queue' = [queue EXCEPT ![c] = Tail(@)]
  /\ on' = [on EXCEPT ![Head(queue[c]).task] = @ \ {c}]
  /\ UNCHANGED <<open, live, inbox, gone, sent, left, text, bus, heard, shown, workload>>

\* broadcast_status: the next connection of the snapshot, in no known order.
BroadcastNext(t) ==
  /\ on[t] = {}
  /\ \E c \in left[t] :
       /\ left' = [left EXCEPT ![t] = @ \ {c}]
       /\ Send(t, {c}, Status(text[t]))
  /\ UNCHANGED <<open, live, inbox, gone, sent, text, socket, bus, heard, shown, workload>>

\* broadcast_status: the snapshot is taken with the change it reports.
Broadcast(t, b) ==
  /\ left' = [left EXCEPT ![t] = open]
  /\ text' = [text EXCEPT ![t] = b]

-----------------------------------------------------------------------------
(* Connections *)

\* A handler registers its connection and greets it with a status.
Connect(c) ==
  /\ c \in workload.clients /\ c \notin open \cup gone
  /\ open' = open \cup {c} /\ live' = live \cup {c}
  /\ on' = [on EXCEPT ![c] = {c}]
  /\ queue' = [queue EXCEPT ![c] = <<[task |-> c, msg |-> Status(bus)]>>]
  /\ UNCHANGED <<inbox, gone, sent, left, text, socket, bus, heard, shown, workload>>

\* Mutant: an exception of one send leaves the task waiting for it.
Stranded(c) == on

\* A send to a closed connection raises, which its task swallows.
Released(c) == [t \in Tasks |-> on[t] \ {c}]

\* The peer goes away, or is dropped for not answering pings.
Disconnect(c) ==
  /\ c \in open
  /\ open' = open \ {c} /\ gone' = gone \cup {c}
  /\ queue' = [queue EXCEPT ![c] = <<>>] /\ socket' = [socket EXCEPT ![c] = <<>>]
  /\ on' = Released(c)
  /\ UNCHANGED <<live, inbox, sent, left, text, bus, heard, shown, workload>>

\* The handler finds its connection closed and leaves; what it had not read
\* may be lost.
HandlerEnds(c) ==
  /\ c \in live \ open /\ Idle(c)
  /\ live' = live \ {c}
  /\ inbox' = [inbox EXCEPT ![c] = <<>>]
  /\ UNCHANGED <<open, gone, sent, on, left, text, queue, socket, bus, heard, shown, workload>>

-----------------------------------------------------------------------------
(* Clients *)

ClientSends(c, kind) ==
  /\ c \in open /\ Len(inbox[c]) < InboxCap
  /\ sent[c][kind] < workload.sends[c, kind]
  /\ sent' = [sent EXCEPT ![c][kind] = @ + 1]
  /\ inbox' = [inbox EXCEPT ![c] =
                  Append(@, IF kind = "relay" THEN Relayed(c, sent[c][kind] + 1)
                            ELSE [kind |-> kind])]
  /\ UNCHANGED <<open, live, gone, on, left, text, queue, socket, bus, heard, shown, workload>>

ClientReceives(c) ==
  /\ socket[c] # <<>>
  /\ LET m == Head(socket[c])
     IN  /\ heard' = IF m.kind = "relay" THEN [heard EXCEPT ![c] = Append(@, m)] ELSE heard
         /\ shown' = IF m.kind = "status" THEN [shown EXCEPT ![c] = m.bus] ELSE shown
  /\ socket' = [socket EXCEPT ![c] = Tail(@)]
  /\ UNCHANGED <<open, live, inbox, gone, sent, on, left, text, queue, bus, workload>>

-----------------------------------------------------------------------------
(* Handlers *)

Reads(c, kind) ==
  /\ c \in live /\ Idle(c)
  /\ inbox[c] # <<>> /\ Head(inbox[c]).kind = kind
  /\ inbox' = [inbox EXCEPT ![c] = Tail(@)]

\* Mutant: a peer that is still busy is left out.
UnburdenedPeers(c) == {d \in open \ {c} : queue[d] = <<>>}

Peers(c) == open \ {c}

\* relay_to_others: one send per peer, all at once, and wait for all of them.
HandleRelay(c) ==
  /\ Reads(c, "relay")
  /\ Send(c, Peers(c), Head(inbox[c]))
  /\ UNCHANGED <<open, live, gone, sent, left, text, socket, bus, heard, shown, workload>>

\* start, stop, record_start, record_stop.
HandleChange(c) ==
  /\ Reads(c, "change")
  /\ bus' = bus + 1
  /\ Broadcast(c, bus + 1)
  /\ UNCHANGED <<open, live, gone, sent, on, queue, socket, heard, shown, workload>>

\* A start that raises: the running source was stopped before, and only the
\* sender is told.
HandleFailingStart(c) ==
  /\ Reads(c, "failing")
  /\ bus' = bus + 1
  /\ Send(c, {c}, Error)
  /\ UNCHANGED <<open, live, gone, sent, left, text, socket, heard, shown, workload>>

HandleHello(c) ==
  /\ Reads(c, "hello")
  /\ Send(c, {c}, Status(bus))
  /\ UNCHANGED <<open, live, gone, sent, left, text, socket, bus, heard, shown, workload>>

\* Mutant: the ticker broadcasts the snapshot it took last.
StaleSnapshot == text[Ticker]

Snapshot == bus

Tick ==
  /\ workload.ticks /\ Idle(Ticker)
  /\ Broadcast(Ticker, Snapshot)
  /\ UNCHANGED <<open, live, inbox, gone, sent, on, queue, socket, bus, heard, shown, workload>>

-----------------------------------------------------------------------------
Init ==
  /\ open = {} /\ live = {} /\ gone = {}
  /\ inbox = [c \in Clients |-> <<>>]
  /\ sent = [c \in Clients |-> [kind \in ControlKinds |-> 0]]
  /\ on = [t \in Tasks |-> {}] /\ left = [t \in Tasks |-> {}]
  /\ text = [t \in Tasks |-> 0]
  /\ queue = [c \in Clients |-> <<>>] /\ socket = [c \in Clients |-> <<>>]
  /\ bus = 0
  /\ heard = [c \in Clients |-> <<>>] /\ shown = [c \in Clients |-> Null]
  /\ workload \in Workloads

Handles(c) ==
  HandleRelay(c) \/ HandleChange(c) \/ HandleFailingStart(c) \/ HandleHello(c)

Next ==
  \/ \E c \in Clients :
       \/ Connect(c) \/ Disconnect(c) \/ HandlerEnds(c)
       \/ \E kind \in ControlKinds : ClientSends(c, kind)
       \/ ClientReceives(c) \/ Deliver(c)
       \/ HandleRelay(c) \/ HandleChange(c) \/ HandleFailingStart(c) \/ HandleHello(c)
  \/ \E t \in Tasks : BroadcastNext(t)
  \/ Tick

Spec == Init /\ [][Next]_vars

\* The loop runs every task that is ready; prompt clients read; any other is
\* disconnected by keepalive in the end.
FairSpec ==
  /\ Spec
  /\ \A c \in Clients : WF_vars(Handles(c)) /\ WF_vars(HandlerEnds(c)) /\ WF_vars(Deliver(c))
  /\ \A t \in Tasks : WF_vars(BroadcastNext(t))
  /\ WF_vars(Tick)
  /\ \A c \in Prompt : WF_vars(ClientReceives(c))
  /\ \A c \in Clients \ Prompt : WF_vars(Disconnect(c))

-----------------------------------------------------------------------------
(* Properties *)

\* Type invariant, with the reason for every wait: a task is blocked on a
\* connection exactly when one send of its own is queued there, so no handler
\* hangs on a connection that closed or a message that went out.
TypeOK ==
  /\ open \subseteq live /\ live \subseteq Clients /\ live \ open \subseteq gone
  /\ gone \subseteq Clients /\ open \cap gone = {}
  /\ inbox \in [Clients -> Seq(Control)]
  /\ sent \in [Clients -> [ControlKinds -> Nat]]
  /\ on \in [Tasks -> SUBSET open] /\ left \in [Tasks -> SUBSET Clients]
  /\ bus \in Nat /\ text \in [Tasks -> 0 .. bus]
  /\ queue \in [Clients -> Seq([task : Tasks, msg : Messages])]
  /\ socket \in [Clients -> Seq(Messages)]
  /\ heard \in [Clients -> Seq(RelayedMessages)]
  /\ shown \in [Clients -> Nat \cup {Null}]
  /\ \A c \in Clients : Len(socket[c]) <= SocketCap
  /\ \A c \in Clients \ open : socket[c] = <<>> /\ queue[c] = <<>>
  /\ \A c \in Clients \ live : Idle(c)
  /\ \A c \in Clients, t \in Tasks :
       c \in on[t] <=> \E i \in DOMAIN queue[c] : queue[c][i].task = t
  /\ \A c \in Clients : \A i, j \in DOMAIN queue[c] :
       queue[c][i].task = queue[c][j].task => i = j

\* Relay: of every sender, a client receives an unbroken run of messages in
\* the order sent, none twice and never its own, from its connection on,
\* however slow other peers are and whoever comes and goes.
From(m, s) == m.kind = "relay" /\ m.from = s
RelayGapless ==
  \A c, s \in Clients :
    LET h    == heard[c]
        mine == {i \in DOMAIN h : From(h[i], s)}
        nums == {h[i].n : i \in mine}
    IN  /\ s = c => nums = {}
        /\ \A i, j \in mine : i < j => h[i].n < h[j].n
        /\ \A a, b \in nums : a .. b \subseteq nums

\* However snapshots overtake each other, and whoever did not read, every
\* connected prompt client ends up with the engine's state.
StatusConverges == <>[](workload.ticks => \A c \in Prompt \cap open : shown[c] = bus)

\* Every handler gets back to its socket: no cycle of full buffers.
HandlersReturn == \A c \in Clients : (~Idle(c)) ~> Idle(c)
=============================================================================
