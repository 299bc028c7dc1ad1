----------------------------- MODULE LossyStream -----------------------------
(***************************************************************************)
(* What the binary stream promises each viewer (engine.py:11-14): frames   *)
(* are numbered by arrival; a viewer is handed batches of frames that have *)
(* arrived, newer than all it was handed before and in order.  Frames may  *)
(* be missing (a slow viewer loses whole batches), none comes twice or     *)
(* late.                                                                   *)
(***************************************************************************)
EXTENDS Integers, Sequences

CONSTANT Clients
VARIABLES
  sent,  \* number of frames that have arrived
  got    \* per client, the batches handed to it: sequences of frame numbers

Init == sent = 0 /\ got = [c \in Clients |-> <<>>]

Arrive == sent' = sent + 1 /\ UNCHANGED got

\* b may follow the batches already handed over.
Newer(bs, b) ==
  /\ \A k \in DOMAIN b : b[k] \in 1 .. sent
  /\ \A k, m \in DOMAIN b : k < m => b[k] < b[m]
  /\ \A i \in DOMAIN bs : \A j \in DOMAIN bs[i] : \A k \in DOMAIN b :
       bs[i][j] < b[k]

Deliver(c) ==
  LET n == Len(got[c]) IN
    /\ Len(got'[c]) = n + 1
    /\ Newer(got[c], got'[c][n + 1])
    /\ got' = [got EXCEPT ![c] = Append(@, got'[c][n + 1])]
    /\ UNCHANGED sent

Next == Arrive \/ \E c \in Clients : Deliver(c)

Spec == Init /\ [][Next]_<<sent, got>>
=============================================================================
