------------------------------ MODULE FrameRing ------------------------------
(***************************************************************************)
(* RawFrameRing of frontend/cockpit/src/state/ringBuffer.ts: a circular    *)
(* buffer of raw frames with a cursor space (totalPushed) and a generation *)
(* that lets an incremental reader notice that the ring was cleared.  The  *)
(* parallel typed arrays are one array of frames here; a frame is opaque.  *)
(***************************************************************************)
EXTENDS Integers, Sequences

CONSTANTS
  Frames,    \* what can be pushed
  NoFrame,   \* what an unwritten slot holds
  Cap,       \* cap, the capacity in frames
  MaxPushed, \* bound: frames pushed between two clears
  MaxGen     \* bound: clears

ASSUME RingConstants ==
  /\ Cap \in Nat \ {0} /\ MaxPushed \in Nat /\ MaxGen \in Nat
  /\ NoFrame \notin Frames

VARIABLES
  slots,       \* the backing store
  head,        \* next write slot
  count,       \* valid frames
  totalPushed, \* frames pushed since the last clear: the cursor space
  gen          \* clears so far

ringVars == <<slots, head, count, totalPushed, gen>>

-----------------------------------------------------------------------------
InitRing ==
  /\ slots = [i \in 0 .. Cap - 1 |-> NoFrame]
  /\ head = 0 /\ count = 0 /\ totalPushed = 0 /\ gen = 0

Push(f) ==
  /\ slots' = [slots EXCEPT ![head] = f]
  /\ head' = (head + 1) % Cap
  /\ count' = IF count < Cap THEN count + 1 ELSE count
  /\ totalPushed' = totalPushed + 1
  /\ UNCHANGED gen

Clear ==
  /\ head' = 0 /\ count' = 0 /\ totalPushed' = 0
  /\ gen' = gen + 1
  /\ UNCHANGED slots

-----------------------------------------------------------------------------
(* Reads.  Logical index 0 is the oldest frame retained. *)

\* Mutant: the oldest frame is always looked for in slot 0.
OldestIsSlotZero == 0

OldestSlot == IF count < Cap THEN 0 ELSE head

Physical(l) == (OldestSlot + l) % Cap

At(l) == slots[Physical(l)]

\* The whole ring, read frame by frame (collect with an open window).
Contents == [i \in 1 .. count |-> At(i - 1)]

\* The whole ring, copied in at most two contiguous spans (windowPacked).
Packed ==
  LET first == IF count < Cap - OldestSlot THEN count ELSE Cap - OldestSlot
      Span(from, n) == [i \in 1 .. n |-> slots[from + i - 1]]
  IN  Span(OldestSlot, first) \o Span(0, count - first)

Lapped(seq) == seq > totalPushed \/ seq < totalPushed - count

\* The frames pushed since cursor seq, oldest first; none if it was lapped.
Since(seq) ==
  IF Lapped(seq) THEN <<>>
  ELSE LET base == totalPushed - count
       IN  [i \in 1 .. totalPushed - seq |-> At(seq + i - 1 - base)]

-----------------------------------------------------------------------------
Init == InitRing

Next ==
  \/ totalPushed < MaxPushed /\ \E f \in Frames : Push(f)
  \/ gen < MaxGen /\ Clear

Spec == Init /\ [][Next]_ringVars

-----------------------------------------------------------------------------
(* Properties *)

\* Type invariant: cursors stay in range, and a ring that is not full was
\* written from slot 0 on, which is what lets physical() start there.
RingTypeOK ==
  /\ slots \in [0 .. Cap - 1 -> Frames \cup {NoFrame}]
  /\ head \in 0 .. Cap - 1 /\ count \in 0 .. Cap
  /\ totalPushed \in Nat /\ gen \in Nat
  /\ count <= totalPushed
  /\ count < Cap => head = count /\ totalPushed = count

Log == INSTANCE BoundedLog WITH kept <- Contents, total <- totalPushed, era <- gen

\* The ring is a log of the newest Cap frames: no push, wrap-around or clear
\* ever shows a reader a frame out of order, twice, or from before a clear.
ImplementsBoundedLog == Log!Spec

\* windowPacked's two-span copy is the ring frame by frame, wherever the
\* wrap-around falls.
PackedIsContents == Packed = Contents

\* since(seq) says lapped exactly when a frame after seq is gone (or the ring
\* was cleared below seq), and otherwise returns just the frames after seq.
SinceReadsTheLog ==
  \A seq \in 0 .. MaxPushed :
    /\ Lapped(seq) <=> seq \notin Log!Resumable
    /\ ~Lapped(seq) => Since(seq) = Log!After(seq)

=============================================================================
