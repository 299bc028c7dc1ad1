------------------------------ MODULE MCServer ------------------------------
(***************************************************************************)
(* TLC instances of Server: one prompt client, the others may stop         *)
(* reading; every connection buffers a single message.                     *)
(***************************************************************************)
EXTENDS Server

CONSTANTS c1, c2, c3

\* n messages of one kind by every client of cs, and what rest allows.
Sends(cs, kind, n, rest) ==
  [w \in Clients \X ControlKinds |-> IF w[1] \in cs /\ w[2] = kind THEN n ELSE rest[w]]

Silent == [w \in Clients \X ControlKinds |-> 0]
Changes == [clients |-> {c1, c2}, sends |-> Sends({c1, c2}, "change", 1, Silent), ticks |-> TRUE]
Relays == [clients |-> {c1, c2, c3}, ticks |-> FALSE,
           sends |-> Sends({c1}, "relay", 3, Sends({c2}, "hello", 1, Silent))]
Others == [clients |-> {c1}, ticks |-> TRUE,
           sends |-> Sends({c1}, "failing", 1, Sends({c1}, "hello", 1, Silent))]
MCWorkloads == {Changes, Relays, Others}
=============================================================================
