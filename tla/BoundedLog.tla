----------------------------- MODULE BoundedLog -----------------------------
(***************************************************************************)
(* What a reader of RawFrameRing may rely on, with the circular storage    *)
(* gone: the newest Cap frames since the last clear in arrival order, how  *)
(* many frames there have been, and which clear they follow.               *)
(***************************************************************************)
EXTENDS Integers, Sequences

CONSTANTS Frames, Cap, MaxPushed, MaxGen

VARIABLES
  kept,  \* the frames retained, oldest first
  total, \* frames pushed since the last clear
  era    \* clears so far

logVars == <<kept, total, era>>

Init == kept = <<>> /\ total = 0 /\ era = 0

Push(f) ==
  /\ kept' = Append(IF Len(kept) < Cap THEN kept ELSE Tail(kept), f)
  /\ total' = total + 1
  /\ UNCHANGED era

Clear == kept' = <<>> /\ total' = 0 /\ era' = era + 1

Next ==
  \/ total < MaxPushed /\ \E f \in Frames : Push(f)
  \/ era < MaxGen /\ Clear

Spec == Init /\ [][Next]_logVars

-----------------------------------------------------------------------------
\* The positions a cursor may resume from: everything after it is still here.
Resumable == total - Len(kept) .. total

\* The frames after position seq, for a resumable seq.
After(seq) == SubSeq(kept, seq - (total - Len(kept)) + 1, Len(kept))
=============================================================================
