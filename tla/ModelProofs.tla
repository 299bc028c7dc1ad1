---------------------------- MODULE ModelProofs ----------------------------
(***************************************************************************)
(* Proofs about the frame ring and about the messages counted from it.     *)
(*                                                                         *)
(* The ring, for every capacity and every set of frames: Physical() is     *)
(* read through Wrapped, which says without % where a slot index lands;    *)
(* the refinement then compares sequences position by position.            *)
(*                                                                         *)
(* MessageModel: the groups that the incremental model folds together over *)
(* many posts are those a count of the whole log would give, through laps, *)
(* resets, re-detections and splits that are too wide, as long as the      *)
(* stamps of a session do not step back.                                   *)
(***************************************************************************)
EXTENDS MessageModel, SequenceTheorems, FiniteSetTheorems, WellFoundedInduction, TLAPS

-----------------------------------------------------------------------------
(* The frame ring. *)

Slots == Frames \cup {NoFrame}

Wrapped(a) == IF a < Cap THEN a ELSE a - Cap

\* An index less than two turns round the ring lands where Wrapped says.
LEMMA WrapLemma ==
  ASSUME NEW a \in 0 .. 2 * Cap - 1
  PROVE  a % Cap = Wrapped(a) /\ Wrapped(a) \in 0 .. Cap - 1
<1>1. Cap \in Nat \ {0}  BY RingConstants
<1>2. CASE a < Cap  BY <1>1, <1>2 DEF Wrapped
<1>3. CASE a >= Cap  BY <1>1, <1>3 DEF Wrapped
<1> QED  BY <1>1, <1>2, <1>3

\* Two indices of the ring add up to less than two turns.
LEMMA SumLemma ==
  ASSUME NEW a \in 0 .. Cap - 1, NEW b \in 0 .. Cap - 1
  PROVE  a + b \in 0 .. 2 * Cap - 1
BY RingConstants

\* A function on 1 .. n is a sequence of length n.
LEMMA FunctionIsSeq ==
  ASSUME NEW S, NEW n \in Nat, NEW s \in [1 .. n -> S]
  PROVE  s \in Seq(S) /\ Len(s) = n
OBVIOUS

\* What Append does to a sequence.
LEMMA AppendLemma ==
  ASSUME NEW S, NEW s \in Seq(S), NEW e \in S
  PROVE  /\ Append(s, e) \in Seq(S) /\ Len(Append(s, e)) = Len(s) + 1
         /\ Append(s, e)[Len(s) + 1] = e
         /\ \A i \in 1 .. Len(s) : Append(s, e)[i] = s[i]
OBVIOUS

\* Reading the ring: one slot per retained frame, counted from the oldest.
LEMMA ReadLemma ==
  ASSUME RingTypeOK
  PROVE  /\ OldestSlot \in 0 .. Cap - 1
         /\ \A l \in 0 .. count - 1 : At(l) = slots[Wrapped(OldestSlot + l)]
         /\ \A l \in 0 .. count - 1 : At(l) \in Slots
         /\ Contents \in Seq(Slots) /\ Len(Contents) = count
         /\ \A i \in 1 .. count : Contents[i] = At(i - 1)
<1>1. Cap \in Nat \ {0}  BY RingConstants
<1>2. OldestSlot \in 0 .. Cap - 1  BY <1>1 DEF OldestSlot, RingTypeOK
<1>3. ASSUME NEW l \in 0 .. count - 1
      PROVE  At(l) = slots[Wrapped(OldestSlot + l)] /\ At(l) \in Slots
  <2>1. OldestSlot + l \in 0 .. 2 * Cap - 1  BY <1>1, <1>2 DEF RingTypeOK
  <2>2. (OldestSlot + l) % Cap = Wrapped(OldestSlot + l)
        /\ Wrapped(OldestSlot + l) \in 0 .. Cap - 1
    BY <2>1, WrapLemma
  <2> QED  BY <2>2 DEF At, Physical, RingTypeOK, Slots
<1>4. count \in Nat  BY <1>1 DEF RingTypeOK
<1>5. Contents \in [1 .. count -> Slots]  BY <1>3, <1>4 DEF Contents
<1>6. Contents \in Seq(Slots) /\ Len(Contents) = count  BY <1>4, <1>5
<1> QED  BY <1>2, <1>3, <1>6 DEF Contents

-----------------------------------------------------------------------------
\* The type invariant is inductive.
LEMMA RingTypeInductive ==
  /\ Init => RingTypeOK
  /\ RingTypeOK /\ [Next]_ringVars => RingTypeOK'
<1>1. Cap \in Nat \ {0}  BY RingConstants
<1>2. Init => RingTypeOK  BY <1>1 DEF Init, InitRing, RingTypeOK
<1>3. ASSUME RingTypeOK, [Next]_ringVars
      PROVE  RingTypeOK'
  <2>1. ASSUME NEW f \in Frames, Push(f)
        PROVE  RingTypeOK'
    <3>1. head + 1 \in 0 .. 2 * Cap - 1  BY <1>1, <1>3 DEF RingTypeOK
    <3>2. head' = Wrapped(head + 1) /\ head' \in 0 .. Cap - 1
      BY <2>1, <3>1, WrapLemma DEF Push
    <3>3. slots' \in [0 .. Cap - 1 -> Frames \cup {NoFrame}]
      BY <1>3, <2>1 DEF Push, RingTypeOK
    <3>4. count' \in 0 .. Cap /\ totalPushed' \in Nat /\ gen' \in Nat
          /\ count' <= totalPushed'
      BY <1>1, <1>3, <2>1 DEF Push, RingTypeOK
    <3>5. count' < Cap => head' = count' /\ totalPushed' = count'
      BY <1>1, <1>3, <2>1, <3>2 DEF Push, RingTypeOK, Wrapped
    <3> QED  BY <3>2, <3>3, <3>4, <3>5 DEF RingTypeOK
  <2>2. CASE Clear  BY <1>1, <1>3, <2>2 DEF Clear, RingTypeOK
  <2>3. CASE UNCHANGED ringVars  BY <1>3, <2>3 DEF ringVars, RingTypeOK
  <2> QED  BY <1>3, <2>1, <2>2, <2>3 DEF Next
<1> QED  BY <1>2, <1>3

\* The cursors stay in range, for every capacity.
THEOREM TypeCorrect == Spec => []RingTypeOK
<1>1. Init => RingTypeOK  BY RingTypeInductive
<1>2. RingTypeOK /\ [Next]_ringVars => RingTypeOK'  BY RingTypeInductive
<1> QED  BY <1>1, <1>2, PTL DEF Spec

-----------------------------------------------------------------------------
\* What a push leaves of the frames retained.
Old == IF Len(Contents) < Cap THEN Contents ELSE Tail(Contents)

\* A push appends to the log, and takes its oldest frame away when it is full.
LEMMA PushAppends ==
  ASSUME RingTypeOK, RingTypeOK', NEW f \in Frames, Push(f)
  PROVE  Log!Push(f)
<1>1. Cap \in Nat \ {0}  BY RingConstants
<1>0. /\ count \in 0 .. Cap /\ count' \in 0 .. Cap
      /\ head \in 0 .. Cap - 1 /\ head' \in 0 .. Cap - 1
  BY <1>1 DEF RingTypeOK
<1>2. Contents \in Seq(Slots) /\ Len(Contents) = count  BY ReadLemma
<1>3. Contents' \in Seq(Slots) /\ Len(Contents') = count'
  <2>1. count' \in Nat  BY <1>0, <1>1
  <2>2. ASSUME NEW i \in 1 .. count'
        PROVE  At(i - 1)' \in Slots
    <3>1. OldestSlot' \in 0 .. Cap - 1  BY <1>0, <1>1 DEF OldestSlot
    <3>2. OldestSlot' + (i - 1) \in 0 .. 2 * Cap - 1
      <4>1. i - 1 \in 0 .. Cap - 1  BY <1>0, <1>1
      <4> QED  BY <3>1, <4>1, SumLemma
    <3>3. (OldestSlot' + (i - 1)) % Cap \in 0 .. Cap - 1  BY <3>2, WrapLemma
    <3> QED  BY <3>3 DEF At, Physical, RingTypeOK, Slots
  <2>3. Contents' \in [1 .. count' -> Slots]  BY <2>1, <2>2 DEF Contents
  <2> QED  BY <2>1, <2>3
<1>4. head' = Wrapped(head + 1)
  <2>1. head + 1 \in 0 .. 2 * Cap - 1  BY <1>1 DEF RingTypeOK
  <2> QED  BY <2>1, WrapLemma DEF Push
<1>5. Old \in Seq(Slots) /\ count' = Len(Old) + 1
  BY <1>1, <1>2 DEF Push, RingTypeOK, Old
<1>6. Append(Old, f) \in Seq(Slots) /\ Len(Append(Old, f)) = count'
  <2>1. f \in Slots  BY DEF Slots
  <2> QED  BY <1>5, <2>1, AppendLemma
<1>7. ASSUME NEW i \in 1 .. count'
      PROVE  Contents'[i] = Append(Old, f)[i]
  <2>1. OldestSlot' \in 0 .. Cap - 1  BY <1>0, <1>1 DEF OldestSlot
  <2>2. OldestSlot' + (i - 1) \in 0 .. 2 * Cap - 1
    <3>1. i - 1 \in 0 .. Cap - 1  BY <1>0, <1>1
    <3> QED  BY <2>1, <3>1, SumLemma
  <2>3. Contents'[i] = slots'[Wrapped(OldestSlot' + (i - 1))]
    BY <2>2, WrapLemma DEF Contents, At, Physical
  <2>4. Wrapped(OldestSlot' + (i - 1)) \in 0 .. Cap - 1  BY <2>2, WrapLemma
  <2>5. CASE count < Cap
    <3>1. OldestSlot = 0 /\ OldestSlot' = 0 /\ head = count /\ count' = count + 1
      BY <1>1, <1>4, <2>5 DEF Push, RingTypeOK, OldestSlot, Wrapped
    <3>2. Wrapped(OldestSlot' + (i - 1)) = i - 1  BY <1>1, <2>5, <3>1 DEF Wrapped, RingTypeOK
    <3>3. CASE i = count'
      <4>1. Contents'[i] = f
        BY <2>3, <2>4, <3>1, <3>2, <3>3 DEF Push, RingTypeOK
      <4>2. Append(Old, f)[i] = f
        <5>1. f \in Slots  BY DEF Slots
        <5> QED  BY <1>5, <3>3, <5>1, AppendLemma
      <4> QED  BY <4>1, <4>2
    <3>4. CASE i < count'
      <4>1. i \in 1 .. count /\ i - 1 \in 0 .. count - 1  BY <1>1, <3>1, <3>4 DEF RingTypeOK
      <4>2. Wrapped(OldestSlot + (i - 1)) = i - 1
        BY <1>1, <2>5, <3>1, <4>1 DEF Wrapped, RingTypeOK
      <4>3. Contents[i] = slots[i - 1]  BY <4>1, <4>2, ReadLemma
      <4>4. Contents'[i] = slots[i - 1]
        BY <2>3, <2>4, <3>1, <3>2, <4>1 DEF Push, RingTypeOK
      <4>5. Append(Old, f)[i] = Contents[i]  BY <1>2, <1>5, <2>5, <4>1 DEF Old
      <4> QED  BY <4>3, <4>4, <4>5
    <3>5. i = count' \/ i < count'  BY <1>0, <1>1
    <3> QED  BY <3>3, <3>4, <3>5
  <2>6. CASE count = Cap
    <3>1. OldestSlot = head /\ OldestSlot' = head' /\ count' = Cap
      BY <1>1, <2>6 DEF Push, RingTypeOK, OldestSlot
    <3>2. Old = Tail(Contents)  BY <1>1, <1>2, <2>6 DEF Old
    <3>3. CASE i = Cap
      <4>1. Wrapped(OldestSlot' + (i - 1)) = head
        BY <1>1, <1>4, <3>1, <3>3 DEF Wrapped, RingTypeOK
      <4>2. Contents'[i] = f  BY <2>3, <4>1 DEF Push, RingTypeOK
      <4>3. Append(Old, f)[i] = f
        <5>1. f \in Slots  BY DEF Slots
        <5> QED  BY <1>5, <3>1, <3>3, <5>1, AppendLemma
      <4> QED  BY <4>2, <4>3
    <3>4. CASE i < Cap
      <4>1. i + 1 \in 1 .. count /\ i \in 0 .. count - 1
        BY <1>1, <2>6, <3>4 DEF RingTypeOK
      <4>2. Wrapped(OldestSlot' + (i - 1)) = Wrapped(head + i)
            /\ Wrapped(head + i) # head
        BY <1>1, <1>4, <3>1, <3>4, <4>1 DEF Wrapped, RingTypeOK
      <4>3. Contents'[i] = slots[Wrapped(head + i)]
        BY <2>3, <2>4, <4>2 DEF Push, RingTypeOK
      <4>4. At(i) = slots[Wrapped(head + i)]  BY <3>1, <4>1, ReadLemma
      <4>5. Contents[i + 1] = At((i + 1) - 1)  BY <4>1, ReadLemma
      <4>6. (i + 1) - 1 = i  OBVIOUS
      <4>7. Append(Old, f)[i] = Contents[i + 1]
        BY <1>1, <1>2, <1>5, <2>6, <3>1, <3>2, <3>4
      <4> QED  BY <4>3, <4>4, <4>5, <4>6, <4>7
    <3>5. i = Cap \/ i < Cap  BY <1>0, <1>1, <3>1
    <3> QED  BY <3>3, <3>4, <3>5
  <2>7. count < Cap \/ count = Cap  BY <1>0, <1>1
  <2> QED  BY <2>5, <2>6, <2>7
<1>8. Contents' = Append(Old, f)
  <2> QED  BY <1>3, <1>6, <1>7
<1> QED  BY <1>8 DEF Push, Log!Push, Old

\* The ring refines the log of its newest Cap frames.
THEOREM RingIsBoundedLog == Spec => ImplementsBoundedLog
<1>1. Init => Log!Init
  <2> SUFFICES ASSUME Init PROVE Log!Init  OBVIOUS
  <2>1. count = 0  BY DEF Init, InitRing
  <2>2. Contents = << >>  BY <2>1 DEF Contents
  <2> QED  BY <2>2 DEF Init, InitRing, Log!Init
<1>2. ASSUME RingTypeOK, RingTypeOK', [Next]_ringVars
      PROVE  [Log!Next]_<<Contents, totalPushed, gen>>
  <2>1. ASSUME totalPushed < MaxPushed, NEW f \in Frames, Push(f)
        PROVE  Log!Next
    <3>1. Log!Push(f)  BY <1>2, <2>1, PushAppends
    <3> QED  BY <2>1, <3>1 DEF Log!Next
  <2>2. ASSUME gen < MaxGen, Clear
        PROVE  Log!Next
    <3>1. count' = 0  BY <2>2 DEF Clear
    <3>2. Contents' = << >>  BY <3>1 DEF Contents
    <3> QED  BY <2>2, <3>2 DEF Clear, Log!Clear, Log!Next
  <2>3. ASSUME UNCHANGED ringVars
        PROVE  UNCHANGED <<Contents, totalPushed, gen>>
    BY <2>3 DEF ringVars, Contents, At, Physical, OldestSlot
  <2> QED  BY <1>2, <2>1, <2>2, <2>3 DEF Next
<1>3. Spec => []RingTypeOK  BY TypeCorrect
<1> QED  BY <1>1, <1>2, <1>3, PTL DEF Spec, ImplementsBoundedLog, Log!Spec, Log!logVars

-----------------------------------------------------------------------------
\* Wherever the ring wraps, the two-span copy equals the frame-by-frame read.
LEMMA PackedLemma == RingTypeOK => PackedIsContents
<1> SUFFICES ASSUME RingTypeOK PROVE Packed = Contents  BY DEF PackedIsContents
<1> DEFINE first == IF count < Cap - OldestSlot THEN count ELSE Cap - OldestSlot
           A == [i \in 1 .. first |-> slots[OldestSlot + i - 1]]
           B == [i \in 1 .. count - first |-> slots[0 + i - 1]]
<1>1. Cap \in Nat \ {0}  BY RingConstants
<1>2. count \in 0 .. Cap /\ OldestSlot \in 0 .. Cap - 1
  BY <1>1, ReadLemma DEF RingTypeOK
<1>3. first \in 0 .. count /\ (first = count \/ first = Cap - OldestSlot)
      /\ first <= Cap - OldestSlot
  BY <1>1, <1>2
<1>4. A \in Seq(Slots) /\ Len(A) = first
  <2>1. \A i \in 1 .. first : OldestSlot + i - 1 \in 0 .. Cap - 1
    BY <1>1, <1>2, <1>3
  <2>2. A \in [1 .. first -> Slots]  BY <2>1 DEF RingTypeOK, Slots
  <2>3. first \in Nat  BY <1>1, <1>2, <1>3
  <2> HIDE DEF A, first
  <2> QED  BY <2>2, <2>3, FunctionIsSeq
<1>5. B \in Seq(Slots) /\ Len(B) = count - first
  <2>1. \A i \in 1 .. count - first : 0 + i - 1 \in 0 .. Cap - 1
    BY <1>1, <1>2, <1>3
  <2>2. B \in [1 .. count - first -> Slots]  BY <2>1 DEF RingTypeOK, Slots
  <2>3. count - first \in Nat  BY <1>1, <1>2, <1>3
  <2> HIDE DEF B, first
  <2> QED  BY <2>2, <2>3, FunctionIsSeq
<1>6. Packed = A \o B  BY DEF Packed
<1>7. A \o B \in Seq(Slots) /\ Len(A \o B) = count
  <2> HIDE DEF A, B, first
  <2> QED  BY <1>2, <1>3, <1>4, <1>5
<1>8. ASSUME NEW i \in 1 .. count
      PROVE  (A \o B)[i] = Contents[i]
  <2>1. i - 1 \in 0 .. count - 1  BY <1>1, <1>2
  <2>2. Contents[i] = slots[Wrapped(OldestSlot + (i - 1))]
    BY <2>1, ReadLemma
  <2>3. CASE i <= first
    <3>1. (A \o B)[i] = A[i]
      <4> HIDE DEF A, B, first
      <4> QED  BY <1>2, <1>3, <1>4, <1>5, <2>3
    <3>2. i \in 1 .. first  BY <1>2, <1>3, <2>3
    <3>3. Wrapped(OldestSlot + (i - 1)) = OldestSlot + i - 1
      BY <1>1, <1>2, <1>3, <2>3 DEF Wrapped
    <3> QED  BY <2>2, <3>1, <3>2, <3>3
  <2>4. CASE i > first
    <3>1. (A \o B)[i] = B[i - first]
      <4> HIDE DEF A, B, first
      <4> QED  BY SMTT(60), <1>2, <1>3, <1>4, <1>5, <2>4
    <3>2. i - first \in 1 .. count - first  BY <1>2, <1>3, <2>4
    <3>3. first = Cap - OldestSlot  BY <1>2, <1>3, <2>4
    <3>4. Wrapped(OldestSlot + (i - 1)) = 0 + (i - first) - 1
      <4> HIDE DEF first
      <4> QED  BY <1>1, <1>2, <1>3, <2>4, <3>3 DEF Wrapped
    <3>5. B[i - first] = slots[0 + (i - first) - 1]
      <4> HIDE DEF first
      <4> QED  BY <3>2
    <3> QED  BY <2>2, <3>1, <3>4, <3>5
  <2>5. i <= first \/ i > first  BY <1>2, <1>3
  <2> QED  BY <2>3, <2>4, <2>5
<1>9. Contents \in Seq(Slots) /\ Len(Contents) = count  BY ReadLemma
<1>10. A \o B = Contents
  <2> HIDE DEF A, B, first
  <2> QED  BY <1>7, <1>8, <1>9, SeqEqual
<1> QED  BY <1>6, <1>10

\* windowPacked's fast path is right at every fill level.
THEOREM PackedCopyIsTheRing == Spec => []PackedIsContents
BY TypeCorrect, PackedLemma, PTL

\* A cursor is either refused or answered with exactly what follows it.
LEMMA SinceLemma == RingTypeOK => SinceReadsTheLog
<1> SUFFICES ASSUME RingTypeOK, NEW seq \in 0 .. MaxPushed
             PROVE  /\ Lapped(seq) <=> seq \notin Log!Resumable
                    /\ ~Lapped(seq) => Since(seq) = Log!After(seq)
  BY DEF SinceReadsTheLog
<1> DEFINE base == totalPushed - count
<1>1. Cap \in Nat \ {0} /\ seq \in Nat  BY RingConstants
<1>2. Contents \in Seq(Slots) /\ Len(Contents) = count  BY ReadLemma
<1>3. count \in Nat /\ totalPushed \in Nat /\ count <= totalPushed
  BY <1>1 DEF RingTypeOK
<1>4. Lapped(seq) <=> seq \notin Log!Resumable
  BY <1>1, <1>2, <1>3 DEF Lapped, Log!Resumable
<1>5. ASSUME ~Lapped(seq)
      PROVE  Since(seq) = Log!After(seq)
  <2>1. seq \in base .. totalPushed  BY <1>1, <1>3, <1>5 DEF Lapped
  <2>2. Since(seq) = [i \in 1 .. totalPushed - seq |-> At(seq + i - 1 - base)]
    BY <1>5 DEF Since
  <2>3. Log!After(seq) = SubSeq(Contents, seq - base + 1, count)
    BY <1>2 DEF Log!After
  <2>4. SubSeq(Contents, seq - base + 1, count)
          = [i \in 1 .. totalPushed - seq |-> Contents[(seq - base + 1) + i - 1]]
    <3>1. seq - base + 1 \in 1 .. count + 1 /\ count - (seq - base + 1) + 1 = totalPushed - seq
      BY <1>3, <2>1
    <3> HIDE DEF base
    <3> QED  BY SMTT(60), <1>2, <1>3, <3>1
  <2>5. ASSUME NEW i \in 1 .. totalPushed - seq
        PROVE  At(seq + i - 1 - base) = Contents[(seq - base + 1) + i - 1]
    <3>1. (seq - base + 1) + i - 1 \in 1 .. count  BY <1>1, <1>3, <2>1
    <3>2. ((seq - base + 1) + i - 1) - 1 = seq + i - 1 - base  BY <1>1, <1>3
    <3>3. Contents[(seq - base + 1) + i - 1] = At(((seq - base + 1) + i - 1) - 1)
      BY <3>1, ReadLemma
    <3> QED  BY <3>2, <3>3
  <2> HIDE DEF base
  <2> QED  BY <2>2, <2>3, <2>4, <2>5
<1> QED  BY <1>4, <1>5

\* since() loses no frame and repeats none, for every capacity and cursor.
THEOREM SinceIsExact == Spec => []SinceReadsTheLog
BY TypeCorrect, SinceLemma, PTL

-----------------------------------------------------------------------------
(* Induction over numbers, by sets. *)

\* Every set of numbers that is not empty has a least one.
LEMMA LeastNumber ==
  ASSUME NEW T \in SUBSET Nat, T # {}
  PROVE  \E n \in T : \A m \in T : n <= m
<1> DEFINE R == {p \in Nat \X Nat : p[1] < p[2]}
<1>1. IsWellFoundedOn(R, Nat)
  BY NatLessThanWellFounded DEF OpToRel
<1>2. PICK x \in T : \A y \in T : ~(<<y, x>> \in R)
  BY <1>1, WFMin
<1>3. ASSUME NEW m \in T PROVE x <= m
  <2>1. x \in Nat /\ m \in Nat
    BY <1>2
  <2>2. ~(<<m, x>> \in R)
    BY <1>2
  <2>3. ~(m < x)
    BY <2>1, <2>2
  <2> HIDE DEF R
  <2>4. QED
    BY <2>1, <2>3
<1> HIDE DEF R
<1>4. QED
  BY <1>2, <1>3

\* A set of numbers that has 0, and with every number the next, is all of them.
LEMMA Induction ==
  ASSUME NEW T \in SUBSET Nat, 0 \in T, \A n \in T : n + 1 \in T
  PROVE  T = Nat
<1> SUFFICES ASSUME Nat \ T # {} PROVE FALSE
  OBVIOUS
<1>1. PICK n \in Nat \ T : \A m \in Nat \ T : n <= m
  BY LeastNumber
<1>2. n # 0 /\ n - 1 \in Nat /\ n - 1 < n /\ (n - 1) + 1 = n
  BY <1>1
<1>3. QED
  BY <1>1, <1>2

-----------------------------------------------------------------------------
(* The fold *)

\* The functions the fold can be over the first n frames.
IsFold(f, n, start, field, frames, at, limited) ==
  f = [i \in 0 .. n |->
        IF i = 0 THEN start
        ELSE IF i \in at THEN Added(f[i - 1], field, frames[i], limited)
        ELSE f[i - 1]]

\* What such a function does with one more frame.
Steps(f, n, start, field, frames, at, limited) ==
  /\ f[0] = start
  /\ \A i \in 1 .. n :
       f[i] = IF i \in at THEN Added(f[i - 1], field, frames[i], limited) ELSE f[i - 1]

\* There is such a function, for every number of frames.
LEMMA FoldExists ==
  ASSUME NEW start, NEW field, NEW frames, NEW at, NEW limited, NEW N \in Nat
  PROVE  \E f : IsFold(f, N, start, field, frames, at, limited)
<1> DEFINE Of(h, i) == IF i = 0 THEN start
                       ELSE IF i \in at THEN Added(h[i - 1], field, frames[i], limited)
                       ELSE h[i - 1]
           Is(f, n) == f = [i \in 0 .. n |-> Of(f, i)]
           T == {n \in Nat : \E f : Is(f, n)}
<1>1. 0 \in T
  <2> DEFINE f == [i \in 0 .. 0 |-> start]
  <2>1. f = [i \in 0 .. 0 |-> Of(f, i)]
    OBVIOUS
  <2>2. QED
    BY <2>1
<1>2. ASSUME NEW n \in T PROVE n + 1 \in T
  <2>1. PICK f : Is(f, n)
    OBVIOUS
  <2> DEFINE g == [i \in 0 .. (n + 1) |-> IF i <= n THEN f[i] ELSE Of(f, n + 1)]
  <2>2. ASSUME NEW i \in 0 .. (n + 1) PROVE g[i] = Of(g, i)
    <3>1. CASE i = 0
      <4>1. g[i] = f[0] /\ 0 \in 0 .. n
        BY <3>1
      <4>2. f[0] = Of(f, 0)
        <5> HIDE DEF Of, g
        <5>1. QED
          BY <2>1, <4>1
      <4>3. QED
        BY <3>1, <4>1, <4>2
    <3>2. CASE i > 0 /\ i <= n
      <4>1. i \in 0 .. n /\ g[i] = f[i]
        BY <3>2
      <4>2. f[i] = Of(f, i)
        <5> HIDE DEF Of, g
        <5>1. QED
          BY <2>1, <4>1
      <4>3. i - 1 \in 0 .. (n + 1) /\ i - 1 <= n
        BY <3>2
      <4>4. g[i - 1] = f[i - 1]
        BY <4>3
      <4>5. QED
        BY <3>2, <4>1, <4>2, <4>4
    <3>3. CASE i = n + 1
      <4>1. g[i] = Of(f, n + 1)
        BY <3>3
      <4>2. n \in 0 .. (n + 1) /\ i - 1 = n /\ i # 0
        BY <3>3
      <4>3. g[i - 1] = f[n]
        BY <4>2
      <4>4. Of(f, n + 1) = Of(g, i)
        BY <3>3, <4>2, <4>3
      <4>5. QED
        BY <4>1, <4>4
    <3>4. QED
      BY <3>1, <3>2, <3>3
  <2>3. g = [i \in 0 .. (n + 1) |-> Of(g, i)]
    <3> HIDE DEF Of
    <3>1. g = [i \in 0 .. (n + 1) |-> g[i]]
      OBVIOUS
    <3> HIDE DEF g
    <3>2. QED
      BY <2>2, <3>1
  <2>4. Is(g, n + 1)
    BY <2>3
  <2> HIDE DEF g, Is
  <2>5. QED
    BY <2>4
<1>3. T = Nat
  <2> HIDE DEF T
  <2>1. T \in SUBSET Nat
    BY DEF T
  <2>2. QED
    BY <1>1, <1>2, <2>1, Induction
<1>4. PICK f : Is(f, N)
  BY <1>3
<1>5. IsFold(f, N, start, field, frames, at, limited)
  BY <1>4 DEF IsFold
<1>6. QED
  BY <1>5

\* A function of the fold takes the frames one by one.
LEMMA FoldSteps ==
  ASSUME NEW start, NEW field, NEW frames, NEW at, NEW limited, NEW N \in Nat, NEW f,
         IsFold(f, N, start, field, frames, at, limited)
  PROVE  Steps(f, N, start, field, frames, at, limited)
<1> DEFINE Of(h, i) == IF i = 0 THEN start
                       ELSE IF i \in at THEN Added(h[i - 1], field, frames[i], limited)
                       ELSE h[i - 1]
<1>1. f = [i \in 0 .. N |-> Of(f, i)]
  BY DEF IsFold
<1>2. ASSUME NEW i \in 0 .. N PROVE f[i] = Of(f, i)
  <2> HIDE DEF Of
  <2>1. QED
    BY <1>1
<1>3. f[0] = start
  BY <1>2
<1>4. ASSUME NEW i \in 1 .. N
      PROVE  f[i] = IF i \in at THEN Added(f[i - 1], field, frames[i], limited) ELSE f[i - 1]
  BY <1>2
<1>5. QED
  BY <1>3, <1>4 DEF Steps

\* A fold is the last value of a function that takes the frames one by one.
LEMMA FoldIsStepped ==
  ASSUME NEW start, NEW field, NEW frames, NEW at, NEW limited, Len(frames) \in Nat
  PROVE  \E f : /\ Steps(f, Len(frames), start, field, frames, at, limited)
                /\ Fold(start, field, frames, at, limited) = f[Len(frames)]
<1> DEFINE N == Len(frames)
           f == CHOOSE g : IsFold(g, N, start, field, frames, at, limited)
<1>1. Fold(start, field, frames, at, limited) = f[N]
  BY DEF Fold, IsFold
<1>2. IsFold(f, N, start, field, frames, at, limited)
  <2>1. \E g : IsFold(g, N, start, field, frames, at, limited)
    BY FoldExists
  <2>2. QED
    BY <2>1
<1> HIDE DEF f
<1>3. Steps(f, N, start, field, frames, at, limited)
  BY <1>2, FoldSteps
<1>4. QED
  BY <1>1, <1>3

-----------------------------------------------------------------------------
(* Counting *)

\* The positions counted for key k.
Mine(q, field, id, from, to, k) == {i \in from + 1 .. to : q[i].id = id /\ field[q[i].data] = k}

\* The greatest of a set that has one.
LEMMA TopIsMax ==
  ASSUME NEW S \in SUBSET Int, NEW m \in S, \A x \in S : m >= x
  PROVE  Max(S) = m
<1> DEFINE top == Max(S)
<1>1. top \in S /\ \A y \in S : top >= y
  BY DEF Max
<1> HIDE DEF top
<1>2. top \in Int /\ m \in Int /\ top >= m /\ m >= top
  BY <1>1
<1>3. top = m
  BY <1>2
<1>4. QED
  BY <1>3 DEF top

\* Positions up to a number have a last one.
LEMMA HasTop ==
  ASSUME NEW n \in Nat, NEW S \in SUBSET (1 .. n), S # {}
  PROVE  \E x \in S : \A y \in S : x >= y
<1> DEFINE T == {m \in Nat : n - m \in S}
<1>1. PICK s \in S : TRUE
  OBVIOUS
<1>2. n - s \in Nat /\ n - (n - s) = s
  BY <1>1
<1>3. n - s \in T
  BY <1>2
<1>4. PICK m \in T : \A o \in T : m <= o
  <2>1. T \in SUBSET Nat /\ T # {}
    BY <1>3
  <2> HIDE DEF T
  <2>2. QED
    BY <2>1, LeastNumber
<1>5. ASSUME NEW y \in S PROVE n - m >= y
  <2>1. y \in 1 .. n /\ n - y \in Nat /\ n - (n - y) = y
    OBVIOUS
  <2>2. n - y \in T
    BY <2>1
  <2>3. m <= n - y /\ m \in Nat
    BY <1>4, <2>2
  <2>4. QED
    BY <2>1, <2>3
<1>6. n - m \in S
  BY <1>4
<1>7. QED
  BY <1>5, <1>6

\* What is counted of one key.
LEMMA CountedAt ==
  ASSUME NEW q, NEW field, NEW id, NEW from, NEW to, NEW k \in Keys
  PROVE  Counted(q, field, id, from, to)[k]
           = [n |-> Cardinality(Mine(q, field, id, from, to, k)),
              last |-> IF Mine(q, field, id, from, to, k) = {} THEN NoFrame
                       ELSE q[Max(Mine(q, field, id, from, to, k))]]
  BY DEF Counted, Mine

\* The positions counted are finitely many.
LEMMA MineFinite ==
  ASSUME NEW q, NEW field, NEW id, NEW from \in Nat, NEW to \in Nat, NEW k
  PROVE  /\ IsFiniteSet(Mine(q, field, id, from, to, k))
         /\ Cardinality(Mine(q, field, id, from, to, k)) \in Nat
<1>1. IsFiniteSet(from + 1 .. to)
  BY FS_Interval
<1>2. Mine(q, field, id, from, to, k) \subseteq from + 1 .. to
  BY DEF Mine
<1>3. QED
  BY <1>1, <1>2, FS_Subset, FS_CardinalityType

\* Nothing is counted of no frames.
LEMMA CountNone ==
  ASSUME NEW q, NEW field, NEW id, NEW from \in Nat
  PROVE  Counted(q, field, id, from, from) = NoGroups
<1>1. ASSUME NEW k \in Keys PROVE Mine(q, field, id, from, from, k) = {}
  BY DEF Mine
<1>2. Cardinality({}) = 0
  BY FS_EmptySet
<1>3. ASSUME NEW k \in Keys PROVE Counted(q, field, id, from, from)[k] = NoGroup
  BY <1>1, <1>2, CountedAt DEF NoGroup
<1>4. Counted(q, field, id, from, from) = [k \in Keys |-> Counted(q, field, id, from, from)[k]]
  BY DEF Counted
<1>5. QED
  BY <1>3, <1>4 DEF NoGroups

\* One frame more: it is one more of its key, and the latest, if it is of the id.
LEMMA CountOne ==
  ASSUME NEW q, NEW field, NEW id, NEW from \in Nat, NEW to \in Nat, from <= to,
         q[to + 1].id = id => field[q[to + 1].data] \in Keys
  PROVE  Counted(q, field, id, from, to + 1)
           = IF q[to + 1].id = id THEN Tally(Counted(q, field, id, from, to), field, q[to + 1])
             ELSE Counted(q, field, id, from, to)
<1> DEFINE f == q[to + 1]
           j == field[f.data]
           old(k) == Mine(q, field, id, from, to, k)
           new(k) == Mine(q, field, id, from, to + 1, k)
           C == Counted(q, field, id, from, to)
           D == Counted(q, field, id, from, to + 1)
<1>1. ASSUME NEW k \in Keys
      PROVE  new(k) = IF f.id = id /\ j = k THEN old(k) \cup {to + 1} ELSE old(k)
  <2>1. from + 1 .. (to + 1) = (from + 1 .. to) \cup {to + 1}
    OBVIOUS
  <2>2. QED
    BY <2>1 DEF Mine
<1>2. ASSUME NEW k \in Keys
      PROVE  /\ IsFiniteSet(old(k)) /\ Cardinality(old(k)) \in Nat /\ to + 1 \notin old(k)
             /\ old(k) \in SUBSET Int /\ \A x \in old(k) : to + 1 >= x
  <2>1. IsFiniteSet(old(k)) /\ Cardinality(old(k)) \in Nat
    BY MineFinite
  <2>2. old(k) \subseteq from + 1 .. to
    BY DEF Mine
  <2> HIDE DEF old
  <2>3. to + 1 \notin old(k) /\ old(k) \in SUBSET Int /\ \A x \in old(k) : to + 1 >= x
    BY <2>2
  <2>4. QED
    BY <2>1, <2>3
<1>3. ASSUME NEW k \in Keys
      PROVE  /\ C[k] = [n |-> Cardinality(old(k)), last |-> IF old(k) = {} THEN NoFrame ELSE q[Max(old(k))]]
             /\ D[k] = [n |-> Cardinality(new(k)), last |-> IF new(k) = {} THEN NoFrame ELSE q[Max(new(k))]]
  BY CountedAt
<1>4. C = [k \in Keys |-> C[k]] /\ D = [k \in Keys |-> D[k]]
  BY DEF Counted
<1> HIDE DEF old, new, C, D
<1>5. CASE f.id = id
  <2>1. j \in Keys
    BY <1>5
  <2>2. D[j] = [n |-> C[j].n + 1, last |-> f]
    <3>1. new(j) = old(j) \cup {to + 1}
      BY <1>1, <1>5, <2>1
    <3>2. Cardinality(new(j)) = Cardinality(old(j)) + 1
      BY <1>2, <2>1, <3>1, FS_AddElement
    <3>3. Max(new(j)) = to + 1
      <4>1. new(j) \in SUBSET Int /\ to + 1 \in new(j) /\ \A x \in new(j) : to + 1 >= x
        BY <1>2, <2>1, <3>1
      <4>2. QED
        BY <4>1, TopIsMax
    <3>4. new(j) # {}
      BY <3>1
    <3>5. C[j].n = Cardinality(old(j))
      <4>1. C[j] = [n |-> Cardinality(old(j)), last |-> IF old(j) = {} THEN NoFrame ELSE q[Max(old(j))]]
        BY <1>3, <2>1
      <4> HIDE DEF j
      <4>2. QED
        BY <4>1
    <3>6. QED
      BY <1>3, <2>1, <3>2, <3>3, <3>4, <3>5
  <2>3. ASSUME NEW k \in Keys, k # j PROVE D[k] = C[k]
    <3>1. new(k) = old(k)
      BY <1>1, <2>3
    <3>2. QED
      BY <1>3, <3>1
  <2>4. Tally(C, field, f) = [C EXCEPT ![j] = [n |-> C[j].n + 1, last |-> f]]
    BY DEF Tally
  <2>5. DOMAIN C = Keys
    BY <1>4
  <2> HIDE DEF f, j
  <2>6. Tally(C, field, f) = [k \in Keys |-> IF k = j THEN [n |-> C[j].n + 1, last |-> f] ELSE C[k]]
    BY <1>4, <2>4, <2>5
  <2>7. D = [k \in Keys |-> IF k = j THEN [n |-> C[j].n + 1, last |-> f] ELSE C[k]]
    BY <1>4, <2>2, <2>3
  <2>8. D = Tally(C, field, f)
    BY <2>6, <2>7
  <2>9. QED
    BY <1>5, <2>8 DEF f, C, D
<1>6. CASE f.id # id
  <2>1. ASSUME NEW k \in Keys PROVE D[k] = C[k]
    <3>1. new(k) = old(k)
      BY <1>1, <1>6
    <3>2. QED
      BY <1>3, <3>1
  <2>2. D = C
    BY <1>4, <2>1
  <2>3. QED
    BY <1>6, <2>2 DEF f, C, D
<1>7. QED
  BY <1>5, <1>6

\* What is counted depends on the frames counted, and on nothing behind them.
LEMMA CountedSame ==
  ASSUME NEW q, NEW r, NEW field, NEW id, NEW from \in Nat, NEW to \in Nat,
         \A i \in 1 .. to : q[i] = r[i]
  PROVE  Counted(q, field, id, from, to) = Counted(r, field, id, from, to)
<1>1. ASSUME NEW k \in Keys PROVE Mine(q, field, id, from, to, k) = Mine(r, field, id, from, to, k)
  <2>1. from + 1 .. to \subseteq 1 .. to
    OBVIOUS
  <2>2. QED
    BY <2>1 DEF Mine
<1>2. ASSUME NEW k \in Keys, Mine(q, field, id, from, to, k) # {}
      PROVE  q[Max(Mine(q, field, id, from, to, k))] = r[Max(Mine(q, field, id, from, to, k))]
  <2> DEFINE M == Mine(q, field, id, from, to, k)
  <2>1. M \in SUBSET (1 .. to)
    BY DEF Mine
  <2>2. Max(M) \in M
    <3>1. \E x \in M : \A y \in M : x >= y
      BY <1>2, <2>1, HasTop
    <3>2. QED
      BY <3>1 DEF Max
  <2>3. QED
    BY <2>1, <2>2
<1>3. ASSUME NEW k \in Keys
      PROVE  Counted(q, field, id, from, to)[k] = Counted(r, field, id, from, to)[k]
  <2> DEFINE M == Mine(q, field, id, from, to, k)
             at(p) == IF M = {} THEN NoFrame ELSE p[Max(M)]
  <2>1. Counted(q, field, id, from, to)[k] = [n |-> Cardinality(M), last |-> at(q)]
    BY CountedAt
  <2>2. Mine(r, field, id, from, to, k) = M
    BY <1>1
  <2>3. Counted(r, field, id, from, to)[k] = [n |-> Cardinality(M), last |-> at(r)]
    <3>1. Counted(r, field, id, from, to)[k]
            = [n |-> Cardinality(Mine(r, field, id, from, to, k)),
               last |-> IF Mine(r, field, id, from, to, k) = {} THEN NoFrame
                        ELSE r[Max(Mine(r, field, id, from, to, k))]]
      BY CountedAt
    <3> HIDE DEF M
    <3>2. QED
      BY <2>2, <3>1
  <2>4. at(q) = at(r)
    BY <1>2
  <2> HIDE DEF M, at
  <2>5. QED
    BY <2>1, <2>3, <2>4
<1>4. /\ Counted(q, field, id, from, to) = [k \in Keys |-> Counted(q, field, id, from, to)[k]]
      /\ Counted(r, field, id, from, to) = [k \in Keys |-> Counted(r, field, id, from, to)[k]]
  BY DEF Counted
<1>5. QED
  BY <1>3, <1>4

-----------------------------------------------------------------------------
(* Folding counts *)

\* A frame folded in.
LEMMA AddedFrame ==
  ASSUME NEW acc, NEW field, NEW f, NEW limited \in BOOLEAN
  PROVE  /\ ~acc.wide => Added(acc, field, f, limited).groups = Tally(acc.groups, field, f)
         /\ acc.wide => Added(acc, field, f, limited) = acc
         /\ ~limited /\ ~acc.wide => ~Added(acc, field, f, limited).wide
  BY DEF Added

\* The frames are those of q after base, and at is where those of the id are.
Reads(frames, at, q, base, field, id) ==
  /\ Len(frames) \in Nat
  /\ \A i \in 1 .. Len(frames) :
       /\ frames[i] = q[base + i]
       /\ q[base + i].id = id => field[q[base + i].data] \in Keys
       /\ i \in at <=> frames[i].id = id

\* The fold gives what was counted, unless it ran into its limit.
FoldsTo(start, field, frames, at, limited, counted) ==
  ~limited \/ ~Fold(start, field, frames, at, limited).wide
    => Fold(start, field, frames, at, limited).groups = counted

\* Frames q[base + 1], .. folded into the groups of what was counted up to base give what is
\* counted up to the last of them; a fold without a limit always does.
LEMMA FoldCounts ==
  ASSUME NEW q, NEW field, NEW id, NEW from \in Nat, NEW base \in Nat, from <= base,
         NEW frames, NEW at, Reads(frames, at, q, base, field, id), NEW limited \in BOOLEAN,
         NEW start, ~start.wide, start.groups = Counted(q, field, id, from, base)
  PROVE  FoldsTo(start, field, frames, at, limited, Counted(q, field, id, from, base + Len(frames)))
<1> DEFINE N == Len(frames)
<1>0. /\ N \in Nat
      /\ \A i \in 1 .. N :
           frames[i] = q[base + i] /\ (q[base + i].id = id => field[q[base + i].data] \in Keys)
      /\ \A i \in 1 .. N : i \in at <=> frames[i].id = id
  BY DEF Reads
<1>1. PICK f : Steps(f, N, start, field, frames, at, limited) /\ Fold(start, field, frames, at, limited) = f[N]
  BY <1>0, FoldIsStepped
<1> DEFINE Good(n) == /\ ~limited => ~f[n].wide
                      /\ ~f[n].wide => f[n].groups = Counted(q, field, id, from, base + n)
           T == {n \in Nat : n <= N => Good(n)}
<1>2. 0 \in T
  BY <1>1 DEF Steps
<1>3. ASSUME NEW n \in T PROVE n + 1 \in T
  <2>1. SUFFICES ASSUME n + 1 <= N PROVE Good(n + 1)
    OBVIOUS
  <2> DEFINE g == q[base + (n + 1)]
  <2>2. n \in Nat /\ n <= N /\ n + 1 \in 1 .. N /\ (n + 1) - 1 = n /\ base + (n + 1) = (base + n) + 1
    BY <1>0, <2>1
  <2>3. Good(n)
    BY <2>2
  <2>4. f[n + 1] = IF n + 1 \in at THEN Added(f[n], field, frames[n + 1], limited) ELSE f[n]
    BY <1>1, <2>2 DEF Steps
  <2>5. frames[n + 1] = g /\ (g.id = id => field[g.data] \in Keys) /\ (n + 1 \in at <=> g.id = id)
    BY <1>0, <2>2
  <2>6. Counted(q, field, id, from, base + (n + 1))
          = IF g.id = id THEN Tally(Counted(q, field, id, from, base + n), field, g)
            ELSE Counted(q, field, id, from, base + n)
    <3> DEFINE to == base + n
    <3>1. to \in Nat /\ from <= to /\ g = q[to + 1] /\ base + (n + 1) = to + 1
      BY <2>2
    <3> HIDE DEF g, to, T
    <3>2. q[to + 1].id = id => field[q[to + 1].data] \in Keys
      BY <2>5, <3>1
    <3>3. Counted(q, field, id, from, to + 1)
            = IF q[to + 1].id = id THEN Tally(Counted(q, field, id, from, to), field, q[to + 1])
              ELSE Counted(q, field, id, from, to)
      BY <3>1, <3>2, CountOne
    <3>4. Counted(q, field, id, from, base + (n + 1))
            = IF g.id = id THEN Tally(Counted(q, field, id, from, to), field, g)
              ELSE Counted(q, field, id, from, to)
      BY <3>1, <3>3
    <3>5. QED
      BY <3>4 DEF to
  <2> HIDE DEF g, T
  <2>7. CASE g.id = id
    <3>1. f[n + 1] = Added(f[n], field, g, limited)
      BY <2>4, <2>5, <2>7
    <3>2. CASE f[n].wide
      <4>1. f[n + 1] = f[n] /\ limited
        BY <2>3, <3>1, <3>2, AddedFrame
      <4>2. QED
        BY <3>2, <4>1
    <3>3. CASE ~f[n].wide
      <4>1. f[n + 1].groups = Tally(f[n].groups, field, g) /\ (~limited => ~f[n + 1].wide)
        BY <3>1, <3>3, AddedFrame
      <4>2. f[n].groups = Counted(q, field, id, from, base + n)
        BY <2>3, <3>3
      <4>3. QED
        BY <2>6, <2>7, <4>1, <4>2
    <3>4. QED
      BY <3>2, <3>3
  <2>8. CASE g.id # id
    <3>1. f[n + 1] = f[n]
      BY <2>4, <2>5, <2>8
    <3>2. QED
      BY <2>3, <2>6, <2>8, <3>1
  <2>9. QED
    BY <2>7, <2>8
<1>4. T = Nat
  <2> HIDE DEF T
  <2>1. T \in SUBSET Nat
    BY DEF T
  <2>2. QED
    BY <1>2, <1>3, <2>1, Induction
<1>5. Good(N)
  <2>1. N \in T /\ N <= N
    BY <1>0, <1>4
  <2>2. QED
    BY <2>1
<1>6. QED
  BY <1>1, <1>5 DEF FoldsTo

-----------------------------------------------------------------------------
(* The ring and the log *)

\* The ring holds the end of the log, and in a steady capture its stamps do not step back.
RingLog ==
  /\ log \in Seq(Frames) /\ Len(log) = totalPushed
  /\ \A i \in 1 .. count : Contents[i] = log[totalPushed - count + i]
  /\ ~Rewinds => \A i, j \in 1 .. count : i <= j => Contents[i].t <= Contents[j].t

\* What the ring does at a step of the worker.
LEMMA RingSteps ==
  ASSUME [MNext]_vars
  PROVE  \/ \E f \in Frames : Ingest(f)
         \/ Reset
         \/ UNCHANGED <<ringVars, log>>
  BY DEF MNext, vars, Select, Tick

\* The ring's cursors stay in range under the worker.
LEMMA RingTypeKept == RingTypeOK /\ [MNext]_vars => RingTypeOK'
<1> SUFFICES ASSUME RingTypeOK, [MNext]_vars PROVE RingTypeOK'
  OBVIOUS
<1>1. [Next]_ringVars
  BY RingSteps DEF Ingest, Reset, Next
<1>2. QED
  BY <1>1, RingTypeInductive

\* A push puts its frame at the end, behind what it leaves of the others.
LEMMA PushReads ==
  ASSUME RingTypeOK, RingTypeOK', NEW f \in Frames, Push(f)
  PROVE  /\ count \in Nat /\ count' \in Nat \ {0} /\ totalPushed \in Nat /\ totalPushed' = totalPushed + 1
         /\ count <= totalPushed
         /\ Contents'[count'] = f
         /\ \/ count' = count + 1 /\ \A i \in 1 .. count : Contents'[i] = Contents[i]
            \/ count' = count /\ \A i \in 1 .. count - 1 : Contents'[i] = Contents[i + 1]
<1>1. Cap \in Nat \ {0}
  BY RingConstants
<1>2. Contents \in Seq(Slots) /\ Len(Contents) = count
  BY ReadLemma
<1>3. Log!Push(f)
  BY PushAppends
<1>4. count \in 0 .. Cap /\ count' = (IF count < Cap THEN count + 1 ELSE count) /\ totalPushed' = totalPushed + 1
      /\ totalPushed \in Nat /\ count <= totalPushed
  BY DEF Push, RingTypeOK
<1>5. f \in Slots
  BY DEF Slots
<1> HIDE DEF Slots
<1>6. CASE count < Cap
  <2>1. Contents' = Append(Contents, f)
    BY <1>2, <1>3, <1>6 DEF Log!Push
  <2>2. /\ Append(Contents, f)[count + 1] = f
        /\ \A i \in 1 .. count : Append(Contents, f)[i] = Contents[i]
    BY <1>2, <1>5, AppendLemma
  <2>3. count' = count + 1 /\ count \in Nat /\ count' \in Nat \ {0}
    BY <1>1, <1>4, <1>6
  <2>4. Contents'[count'] = f
    BY <2>1, <2>2, <2>3
  <2>5. \A i \in 1 .. count : Contents'[i] = Contents[i]
    BY <2>1, <2>2
  <2>6. count <= totalPushed /\ totalPushed \in Nat /\ totalPushed' = totalPushed + 1
    BY <1>4
  <2> HIDE DEF Contents
  <2>7. QED
    BY <2>3, <2>4, <2>5, <2>6
<1>7. CASE ~(count < Cap)
  <2>1. Contents' = Append(Tail(Contents), f)
    BY <1>2, <1>3, <1>7 DEF Log!Push
  <2>2. count' = count /\ count \in Nat \ {0}
    BY <1>1, <1>4, <1>7
  <2>3. /\ Tail(Contents) \in Seq(Slots) /\ Len(Tail(Contents)) = count - 1
        /\ \A i \in 1 .. count - 1 : Tail(Contents)[i] = Contents[i + 1]
    BY <1>2, <2>2, EmptySeq, HeadTailProperties
  <2>4. /\ Append(Tail(Contents), f)[(count - 1) + 1] = f
        /\ \A i \in 1 .. count - 1 : Append(Tail(Contents), f)[i] = Tail(Contents)[i]
    BY <1>5, <2>3, AppendLemma
  <2>5. (count - 1) + 1 = count
    BY <2>2
  <2>6. Contents'[count'] = f
    BY <2>1, <2>2, <2>4, <2>5
  <2>7. \A i \in 1 .. count - 1 : Contents'[i] = Contents[i + 1]
    BY <2>1, <2>3, <2>4
  <2>8. count <= totalPushed /\ totalPushed \in Nat /\ totalPushed' = totalPushed + 1
    BY <1>4
  <2> HIDE DEF Contents
  <2>9. QED
    BY <2>2, <2>6, <2>7, <2>8
<1>8. QED
  BY <1>6, <1>7

\* The ring stays the end of the log.
LEMMA RingLogKept == RingTypeOK /\ RingLog /\ [MNext]_vars => RingLog'
<1> SUFFICES ASSUME RingTypeOK, RingLog, [MNext]_vars PROVE RingLog'
  OBVIOUS
<1>1. ASSUME NEW f \in Frames, Ingest(f) PROVE RingLog'
  <2>1. Push(f) /\ log' = Append(log, f) /\ (~Rewinds /\ count > 0 => f.t >= Contents[count].t)
    BY <1>1 DEF Ingest
  <2>2. RingTypeOK'
    BY RingTypeKept
  <2>3. /\ count \in Nat /\ count' \in Nat \ {0} /\ totalPushed \in Nat /\ totalPushed' = totalPushed + 1
        /\ count <= totalPushed
        /\ Contents'[count'] = f
        /\ \/ count' = count + 1 /\ \A i \in 1 .. count : Contents'[i] = Contents[i]
           \/ count' = count /\ \A i \in 1 .. count - 1 : Contents'[i] = Contents[i + 1]
    BY <2>1, <2>2, PushReads
  <2>4. /\ log \in Seq(Frames) /\ Len(log) = totalPushed
        /\ \A i \in 1 .. count : Contents[i] = log[totalPushed - count + i]
        /\ ~Rewinds => \A i, j \in 1 .. count : i <= j => Contents[i].t <= Contents[j].t
    BY DEF RingLog
  <2>5. /\ log' \in Seq(Frames) /\ Len(log') = totalPushed + 1 /\ log'[totalPushed + 1] = f
        /\ \A i \in 1 .. totalPushed : log'[i] = log[i]
    BY <2>1, <2>4, AppendLemma
  <2>6. ASSUME NEW i \in 1 .. count' PROVE Contents'[i] = log'[totalPushed' - count' + i]
    <3>1. CASE i = count'
      <4>1. totalPushed' - count' + i = totalPushed + 1
        <5>1. count' \in Int /\ totalPushed' \in Int /\ totalPushed' = totalPushed + 1 /\ i = count'
          BY <2>3, <3>1
        <5>2. ASSUME NEW a \in Int, NEW b \in Int PROVE a - b + b = a
          OBVIOUS
        <5>3. QED
          BY <5>1, <5>2
      <4>2. QED
        BY <2>3, <2>5, <3>1, <4>1
    <3>2. CASE i # count' /\ count' = count + 1 /\ \A j \in 1 .. count : Contents'[j] = Contents[j]
      <4>1. /\ i \in 1 .. count /\ totalPushed' - count' + i = totalPushed - count + i
            /\ totalPushed - count + i \in 1 .. totalPushed
        BY <2>3, <3>2
      <4>2. QED
        BY <2>4, <2>5, <3>2, <4>1
    <3>3. CASE i # count' /\ count' = count /\ \A j \in 1 .. count - 1 : Contents'[j] = Contents[j + 1]
      <4>1. /\ i \in 1 .. count - 1 /\ i + 1 \in 1 .. count
            /\ totalPushed' - count' + i = totalPushed - count + (i + 1)
            /\ totalPushed - count + (i + 1) \in 1 .. totalPushed
        BY <2>3, <3>3
      <4>2. QED
        BY <2>4, <2>5, <3>3, <4>1
    <3>4. QED
      BY <2>3, <3>1, <3>2, <3>3
  <2>7. ASSUME ~Rewinds, NEW i \in 1 .. count', NEW j \in 1 .. count', i <= j
        PROVE  Contents'[i].t <= Contents'[j].t
    <3>0. f.t \in Nat /\ (count > 0 => f.t >= Contents[count].t)
      BY <2>1, <2>7, ModelConstants
    <3>a. \A k \in 1 .. count : Contents[k].t \in Nat
      <4>1. \A k \in 1 .. count : totalPushed - count + k \in 1 .. Len(log)
        BY <2>3, <2>4
      <4>2. \A k \in 1 .. count : Contents[k] \in Frames
        BY <2>4, <4>1
      <4>3. QED
        BY <4>2, ModelConstants
    <3>1. \A k \in 1 .. count' : k # count' => \E l \in 1 .. count : Contents'[k] = Contents[l] /\ Contents[l].t <= f.t
      <4> SUFFICES ASSUME NEW k \in 1 .. count', k # count'
                   PROVE  \E l \in 1 .. count : Contents'[k] = Contents[l] /\ Contents[l].t <= f.t
        OBVIOUS
      <4>1. \E l \in 1 .. count : Contents'[k] = Contents[l]
        <5>1. k \in 1 .. count - 1 \/ (count' = count + 1 /\ k \in 1 .. count)
          BY <2>3
        <5>2. k \in 1 .. count - 1 => k + 1 \in 1 .. count /\ k \in 1 .. count
          BY <2>3
        <5>3. QED
          BY <2>3, <5>1, <5>2
      <4>2. PICK l \in 1 .. count : Contents'[k] = Contents[l]
        BY <4>1
      <4>3. count \in 1 .. count /\ l <= count /\ count > 0
        BY <2>3, <4>2
      <4>4. Contents[l].t <= Contents[count].t /\ Contents[count].t <= f.t
        BY <2>4, <2>7, <3>0, <3>a, <4>3
      <4>5. Contents[l].t <= f.t
        BY <3>0, <3>a, <4>3, <4>4
      <4>6. QED
        BY <4>2, <4>5
    <3>2. CASE j = count'
      <4>1. CASE i = count'
        BY <2>3, <3>0, <3>2, <4>1
      <4>2. CASE i # count'
        BY <2>3, <3>1, <3>2, <4>2
      <4>3. QED
        BY <4>1, <4>2
    <3>3. CASE j # count'
      <4>1. i # count'
        BY <2>3, <2>7, <3>3
      <4>2. CASE count' = count + 1 /\ \A k \in 1 .. count : Contents'[k] = Contents[k]
        <5>1. i \in 1 .. count /\ j \in 1 .. count
          BY <2>3, <3>3, <4>1, <4>2
        <5>2. QED
          BY <2>4, <2>7, <4>2, <5>1
      <4>3. CASE count' = count /\ \A k \in 1 .. count - 1 : Contents'[k] = Contents[k + 1]
        <5>1. /\ i \in 1 .. count - 1 /\ j \in 1 .. count - 1 /\ i + 1 \in 1 .. count /\ j + 1 \in 1 .. count
              /\ i + 1 <= j + 1
          BY <2>3, <2>7, <3>3, <4>1, <4>3
        <5>2. QED
          BY <2>4, <2>7, <4>3, <5>1
      <4>4. QED
        BY <2>3, <4>2, <4>3
    <3>4. QED
      BY <3>2, <3>3
  <2>8. QED
    BY <2>3, <2>5, <2>6, <2>7 DEF RingLog
<1>2. ASSUME Reset PROVE RingLog'
  <2>1. count' = 0 /\ totalPushed' = 0 /\ log' = <<>>
    BY <1>2 DEF Reset, Clear
  <2>2. QED
    BY <2>1 DEF RingLog
<1>3. ASSUME UNCHANGED <<ringVars, log>> PROVE RingLog'
  BY <1>3 DEF RingLog, ringVars, Contents, At, Physical, OldestSlot
<1>4. QED
  BY <1>1, <1>2, <1>3, RingSteps

-----------------------------------------------------------------------------
(* A sync *)

\* What a field makes of a frame of the log is one of its keys.
LEMMA LogKeys ==
  ASSUME RingLog, NEW field \in Fields, NEW i \in 1 .. Len(log)
  PROVE  field[log[i].data] \in Keys
<1>1. log[i] \in Frames
  BY DEF RingLog
<1>2. QED
  BY <1>1, ModelConstants

\* The history of an id is all the ring holds of it, and folds to its count.
LEMMA HistCounts ==
  ASSUME ~Rewinds, RingTypeOK, RingLog, NEW field \in Fields, NEW s, NEW limited \in BOOLEAN
  PROVE  FoldsTo(Empty, field, Contents, Hist(s), limited,
                 Counted(log, field, s, totalPushed - count, totalPushed))
<1> DEFINE base == totalPushed - count
<1>1. count \in Nat /\ totalPushed \in Nat /\ count <= totalPushed /\ base \in Nat
      /\ base + count = totalPushed
  BY RingConstants DEF RingTypeOK
<1>2. Len(Contents) = count /\ Contents \in Seq(Slots)
  BY ReadLemma
<1>3. ASSUME NEW i \in 1 .. count
      PROVE  /\ Contents[i] = log[base + i]
             /\ (log[base + i].id = s => field[log[base + i].data] \in Keys)
  <2>1. base + i \in 1 .. Len(log)
    BY <1>1 DEF RingLog
  <2>2. QED
    BY <2>1, LogKeys DEF RingLog
<1>4. ASSUME NEW i \in 1 .. count PROVE i \in Hist(s) <=> Contents[i].id = s
  <2>1. count \in 1 .. count /\ i <= count
    BY <1>1
  <2>2. Contents[i].t <= Contents[count].t
    BY <2>1 DEF RingLog
  <2>3. DOMAIN Contents = 1 .. count
    BY DEF Contents
  <2>4. QED
    BY <2>2, <2>3 DEF Hist, OfId
<1>5. ~Empty.wide /\ Empty.groups = Counted(log, field, s, base, base)
  BY <1>1, CountNone DEF Empty
<1> HIDE DEF base, Contents, Hist, Empty
<1>6. Reads(Contents, Hist(s), log, base, field, s)
  BY <1>1, <1>2, <1>3, <1>4 DEF Reads
<1>7. base <= base
  BY <1>1
<1>8. FoldsTo(Empty, field, Contents, Hist(s), limited,
              Counted(log, field, s, base, base + Len(Contents)))
  BY <1>1, <1>5, <1>6, <1>7, FoldCounts
<1>9. base + Len(Contents) = totalPushed
  BY <1>1, <1>2
<1>10. QED
  BY <1>8, <1>9 DEF base

\* What since() reports folds the counts up to the cursor into those up to the end.
LEMMA SinceCounts ==
  ASSUME RingTypeOK, RingLog, NEW field \in Fields, NEW s,
         NEW at \in 0 .. totalPushed, ~Lapped(at), NEW from \in 0 .. at,
         NEW start, ~start.wide, start.groups = Counted(log, field, s, from, at)
  PROVE  FoldsTo(start, field, Since(at), OfId(Since(at), s), TRUE,
                 Counted(log, field, s, from, totalPushed))
<1> DEFINE base == totalPushed - count
           n == totalPushed - at
           new == [i \in 1 .. n |-> At(at + i - 1 - base)]
<1>1. /\ count \in Nat /\ totalPushed \in Nat /\ count <= totalPushed /\ base \in Nat
      /\ n \in Nat /\ at \in Nat /\ from \in Nat /\ from <= at /\ at + n = totalPushed
  BY RingConstants DEF RingTypeOK
<1>2. base <= at
  BY <1>1 DEF Lapped
<1>3. Since(at) = new
  BY DEF Since
<1>4. ASSUME NEW i \in 1 .. n
      PROVE  /\ new[i] = log[at + i]
             /\ (log[at + i].id = s => field[log[at + i].data] \in Keys)
  <2>1. (at + i) - base \in 1 .. count /\ ((at + i) - base) - 1 = at + i - 1 - base
    BY <1>1, <1>2
  <2>2. new[i] = Contents[(at + i) - base]
    BY <2>1, ReadLemma
  <2>3. base + ((at + i) - base) = at + i /\ at + i \in 1 .. Len(log)
    <3>1. Len(log) = totalPushed /\ base \in Int /\ at + i \in Int /\ i \in 1 .. n
      BY <1>1 DEF RingLog
    <3>2. ASSUME NEW a \in Int, NEW b \in Int PROVE b + (a - b) = a
      OBVIOUS
    <3>3. at + i \in 1 .. totalPushed
      BY <1>1
    <3> HIDE DEF base
    <3>4. QED
      BY <3>1, <3>2, <3>3
  <2>4. Contents[(at + i) - base] = log[base + ((at + i) - base)]
    BY <2>1 DEF RingLog
  <2>5. new[i] = log[at + i]
    BY <2>2, <2>3, <2>4
  <2>6. field[log[at + i].data] \in Keys
    BY <2>3, LogKeys
  <2>7. QED
    BY <2>5, <2>6
<1>5. Len(new) = n
  BY <1>1
<1>6. \A i \in 1 .. n : i \in OfId(new, s) <=> new[i].id = s
  BY DEF OfId
<1> HIDE DEF new, n, base
<1>7. Reads(new, OfId(new, s), log, at, field, s)
  BY <1>1, <1>4, <1>5, <1>6 DEF Reads
<1>8. FoldsTo(start, field, new, OfId(new, s), TRUE, Counted(log, field, s, from, at + Len(new)))
  BY <1>1, <1>7, FoldCounts
<1>9. QED
  BY <1>1, <1>3, <1>5, <1>8

-----------------------------------------------------------------------------
(* The invariant *)

\* What is counted of the log for an id, from some point no later than the oldest
\* frame the ring held when the log was n frames long.
CountsUpTo(gs, field, id, n) ==
  \E from \in 0 .. Retained(n) : gs = Counted(log, field, id, from, n)

\* A model that has seen this session's ring and folds has counted up to its cursor.
GroupsCount ==
  lastGen = gen /\ Folds =>
    /\ cursor \in 0 .. totalPushed
    /\ CountsUpTo(groups, curField, curSel, cursor)

\* A selection is one the model has seen, with this session's ring.
SelectionSeen == sel # Null => curSel = sel /\ lastGen = gen /\ curField \in Fields

ModelTypeOK ==
  /\ sel \in Ids \cup {Null}
  /\ eff = curField /\ curField \in Fields \cup {Null}
  /\ lastGen \in Int /\ lastGen <= gen
  /\ synced \in 0 .. Len(log)

\* Type correctness, the ring and the log, and what groups and rows count.
ModelInv ==
  /\ RingTypeOK /\ RingLog
  /\ ModelTypeOK
  /\ SelectionSeen
  /\ GroupsCount
  /\ RowsAreExact

\* The ring's oldest frame is one Retained allows for.
LEMMA OldestIsRetained ==
  ASSUME RingTypeOK
  PROVE  totalPushed - count \in 0 .. Retained(totalPushed)
<1>1. Cap \in Nat \ {0}
  BY RingConstants
<1>2. CASE count < Cap
  BY <1>1, <1>2 DEF RingTypeOK, Retained
<1>3. CASE count = Cap
  BY <1>1, <1>3 DEF RingTypeOK, Retained
<1>4. QED
  BY <1>1, <1>2, <1>3 DEF RingTypeOK

\* What was retained before is still no later than what is retained.
LEMMA RetainedGrows ==
  ASSUME NEW n \in Nat, NEW m \in Nat, n <= m, NEW from \in 0 .. Retained(n)
  PROVE  from \in 0 .. Retained(m) /\ from \in 0 .. n
<1>1. Cap \in Nat \ {0}
  BY RingConstants
<1>2. QED
  BY <1>1 DEF Retained

\* The field of a sync's answer is a field of the model, and the groups kept and the
\* rows sent are counts of the whole log, however it came to them.
LEMMA SyncCounts ==
  ASSUME ~Rewinds, ModelInv, NEW s \in Ids, NEW d, NEW defNew, NEW due, NEW det \in Fields,
         Sync(s, d, defNew, due, det)
  PROVE  /\ curSel' = s /\ lastGen' = gen
         /\ eff' = curField' /\ curField' \in Fields
         /\ mode' = "incremental" =>
              cursor' = totalPushed /\ CountsUpTo(groups', curField', s, totalPushed)
         /\ CountsUpTo(rows', curField', s, totalPushed)
         /\ synced' = totalPushed
<1> DEFINE selChanged == s # curSel \/ defNew \/ GenerationChanged
           detects    == eff = Null \/ selChanged \/ Grown \/ due
           field      == IF detects THEN det ELSE eff
           rebuilt    == Rebuilds(selChanged, field)
           folded     == Folded(s, rebuilt, field)
<1>1. /\ curSel' = s /\ lastGen' = gen
      /\ eff' = field /\ curField' = field
      /\ mode' = IF folded.wide THEN "passthrough" ELSE "incremental"
      /\ cursor' = CursorAfter(rebuilt)
      /\ groups' = Kept(folded)
      /\ rows' = Emitted(s, folded, field)
      /\ synced' = Len(log)
  BY DEF Sync
<1>2. field \in Fields
  BY DEF ModelInv, ModelTypeOK
<1>4. ~rebuilt => s = curSel /\ lastGen = gen /\ field = curField /\ (Folds => ~Lapped(cursor))
  BY DEF Rebuilds, GenerationChanged
<1> HIDE DEF selChanged, detects, field, rebuilt
<1>5. RingTypeOK /\ RingLog
  BY DEF ModelInv
<1>6. totalPushed - count \in 0 .. Retained(totalPushed)
  BY <1>5, OldestIsRetained
<1>7. CountsUpTo(GroupAll(field, s), field, s, totalPushed)
  <2>1. FoldsTo(Empty, field, Contents, Hist(s), FALSE,
                Counted(log, field, s, totalPushed - count, totalPushed))
    BY <1>2, <1>5, HistCounts
  <2>2. GroupAll(field, s) = Counted(log, field, s, totalPushed - count, totalPushed)
    BY <2>1 DEF FoldsTo, GroupAll
  <2>3. QED
    BY <1>6, <2>2 DEF CountsUpTo
<1>8. ~folded.wide => CountsUpTo(folded.groups, field, s, totalPushed) /\ (rebuilt \/ Folds)
  <2>1. CASE rebuilt
    <3>1. folded = Fold(Empty, field, Contents, Hist(s), TRUE)
      BY <2>1 DEF Folded
    <3>2. FoldsTo(Empty, field, Contents, Hist(s), TRUE,
                  Counted(log, field, s, totalPushed - count, totalPushed))
      BY <1>2, <1>5, HistCounts
    <3>3. ~folded.wide => folded.groups = Counted(log, field, s, totalPushed - count, totalPushed)
      BY <3>1, <3>2 DEF FoldsTo
    <3> HIDE DEF folded
    <3>4. QED
      BY <1>6, <2>1, <3>3 DEF CountsUpTo
  <2>2. CASE ~rebuilt /\ Folds
    <3> DEFINE start == [groups |-> groups, n |-> idCount, wide |-> FALSE]
    <3>1. folded = Fold(start, field, Since(cursor), OfId(Since(cursor), s), TRUE)
      BY <2>2 DEF Folded
    <3>2. s = curSel /\ lastGen = gen /\ field = curField /\ ~Lapped(cursor)
      BY <1>4, <2>2
    <3>3. cursor \in 0 .. totalPushed /\ CountsUpTo(groups, field, s, cursor)
      BY <2>2, <3>2 DEF ModelInv, GroupsCount
    <3>4. PICK from \in 0 .. Retained(cursor) : groups = Counted(log, field, s, from, cursor)
      BY <3>3 DEF CountsUpTo
    <3>5. from \in 0 .. Retained(totalPushed) /\ from \in 0 .. cursor
      <4>1. cursor \in Nat /\ totalPushed \in Nat /\ cursor <= totalPushed
        BY <1>5, <3>3 DEF RingTypeOK
      <4>2. QED
        BY <4>1, RetainedGrows
    <3>6. ~start.wide /\ start.groups = Counted(log, field, s, from, cursor)
      BY <3>4
    <3> HIDE DEF start, folded
    <3>7. FoldsTo(start, field, Since(cursor), OfId(Since(cursor), s), TRUE,
                  Counted(log, field, s, from, totalPushed))
      BY <1>2, <1>5, <3>2, <3>3, <3>5, <3>6, SinceCounts
    <3>8. ~folded.wide => folded.groups = Counted(log, field, s, from, totalPushed)
      BY <3>1, <3>7 DEF FoldsTo
    <3>9. QED
      BY <2>2, <3>5, <3>8 DEF CountsUpTo
  <2>3. CASE ~rebuilt /\ ~Folds
    BY <2>3 DEF Folded
  <2>4. QED
    BY <2>1, <2>2, <2>3
<1> HIDE DEF folded
<1>9. CountsUpTo(Emitted(s, folded, field), field, s, totalPushed)
  BY <1>7, <1>8 DEF Emitted
<1>10. ASSUME mode' = "incremental"
       PROVE  cursor' = totalPushed /\ CountsUpTo(groups', curField', s, totalPushed)
  <2>1. ~folded.wide
    BY <1>1, <1>10
  <2>2. CursorAfter(rebuilt) = totalPushed /\ Kept(folded) = folded.groups
    BY <1>8, <2>1 DEF CursorAfter, Kept
  <2>3. QED
    BY <1>1, <1>8, <2>1, <2>2
<1>11. synced' = totalPushed
  BY <1>1, <1>5 DEF RingLog
<1>12. QED
  BY <1>1, <1>2, <1>9, <1>10, <1>11

\* A selection leaves the invariant as it was, with a sync of its own.
LEMMA SyncKeeps ==
  ASSUME ~Rewinds, ModelInv, NEW s \in Ids, NEW d, NEW defNew, NEW due, NEW det \in Fields,
         Sync(s, d, defNew, due, det), sel' = s, UNCHANGED <<ringVars, log>>
  PROVE  ModelInv'
<1>1. /\ curSel' = s /\ lastGen' = gen
      /\ eff' = curField' /\ curField' \in Fields
      /\ mode' = "incremental" =>
           cursor' = totalPushed /\ CountsUpTo(groups', curField', s, totalPushed)
      /\ CountsUpTo(rows', curField', s, totalPushed)
      /\ synced' = totalPushed
  BY SyncCounts
<1>2. /\ slots' = slots /\ head' = head /\ count' = count /\ totalPushed' = totalPushed
      /\ gen' = gen /\ log' = log
  BY DEF ringVars
<1>3. RingTypeOK' /\ RingLog'
  BY ZenonT(90), <1>2 DEF ModelInv, RingTypeOK, RingLog, Contents, At, Physical, OldestSlot
<1>4. totalPushed \in Nat /\ gen \in Nat /\ Len(log) = totalPushed
  BY DEF ModelInv, RingTypeOK, RingLog
<1>5. ModelTypeOK' /\ SelectionSeen'
  BY <1>1, <1>2, <1>4 DEF ModelTypeOK, SelectionSeen
<1>6. GroupsCount'
  <2>1. \A gs, fd, id, n : CountsUpTo(gs, fd, id, n) =>
          \E from \in 0 .. Retained(n) : gs = Counted(log', fd, id, from, n)
    BY <1>2 DEF CountsUpTo
  <2>2. mode' = "incremental" =>
          /\ cursor' = totalPushed
          /\ \E from \in 0 .. Retained(totalPushed) :
               groups' = Counted(log', curField', curSel', from, totalPushed)
    BY <1>1, <2>1
  <2>3. totalPushed \in 0 .. totalPushed
    BY <1>4
  <2>4. QED
    BY <1>2, <2>2, <2>3 DEF GroupsCount, Folds, CountsUpTo
<1>7. RowsAreExact'
  BY <1>1, <1>2 DEF RowsAreExact, CountsUpTo
<1>8. QED
  BY <1>3, <1>5, <1>6, <1>7 DEF ModelInv

\* What a detector may answer is a field of the model.
LEMMA DetectionsAreFields ==
  ASSUME NEW d, NEW det \in Detections(d)
  PROVE  det \in Fields
BY ModelConstants DEF Detections

\* Ingesting a frame leaves what was counted before it.
LEMMA IngestKeeps ==
  ASSUME ModelInv, RingTypeOK', RingLog', NEW f \in Frames, Ingest(f)
  PROVE  ModelInv'
<1>1. /\ totalPushed' = totalPushed + 1 /\ gen' = gen /\ log' = Append(log, f)
      /\ UNCHANGED <<sel, def, modelVars, rows, synced>>
  BY DEF Ingest, Push
<1>2. log \in Seq(Frames) /\ totalPushed \in Nat /\ Len(log) = totalPushed
  BY DEF ModelInv, RingLog, RingTypeOK
<1>3. Len(log') = totalPushed + 1 /\ \A i \in 1 .. totalPushed : log[i] = log'[i]
  BY <1>1, <1>2, AppendLemma
<1>4. ASSUME NEW n \in 0 .. totalPushed, NEW fd, NEW id, NEW from \in 0 .. Retained(n)
      PROVE  Counted(log', fd, id, from, n) = Counted(log, fd, id, from, n)
  <2>1. n \in Nat /\ from \in Nat
    BY <1>2, RetainedGrows
  <2>2. \A i \in 1 .. n : log[i] = log'[i]
    BY <1>2, <1>3
  <2>3. Counted(log, fd, id, from, n) = Counted(log', fd, id, from, n)
    BY <2>1, <2>2, CountedSame
  <2>4. QED
    BY <2>3
<1>5. ModelTypeOK' /\ SelectionSeen'
  BY <1>1, <1>2, <1>3 DEF ModelInv, ModelTypeOK, SelectionSeen, modelVars
<1>6. GroupsCount'
  <2>1. SUFFICES ASSUME lastGen' = gen', Folds'
                 PROVE  /\ cursor' \in 0 .. totalPushed'
                        /\ \E from \in 0 .. Retained(cursor') :
                             groups' = Counted(log', curField', curSel', from, cursor')
    BY DEF GroupsCount, CountsUpTo
  <2>2. /\ cursor' = cursor /\ groups' = groups /\ curField' = curField /\ curSel' = curSel
        /\ lastGen = gen /\ Folds
    BY <1>1, <2>1 DEF modelVars, Folds
  <2>3. cursor \in 0 .. totalPushed /\ CountsUpTo(groups, curField, curSel, cursor)
    BY <2>2 DEF ModelInv, GroupsCount
  <2>4. PICK from \in 0 .. Retained(cursor) : groups = Counted(log, curField, curSel, from, cursor)
    BY <2>3 DEF CountsUpTo
  <2>5. Counted(log', curField, curSel, from, cursor) = Counted(log, curField, curSel, from, cursor)
    BY <1>4, <2>3
  <2>6. cursor \in 0 .. totalPushed + 1
    BY <1>2, <2>3
  <2>7. QED
    BY <1>1, <2>2, <2>4, <2>5, <2>6
<1>7. RowsAreExact'
  <2>1. SUFFICES ASSUME sel # Null
                 PROVE  \E from \in 0 .. Retained(synced) :
                          rows = Counted(log', curField, sel, from, synced)
    BY <1>1 DEF RowsAreExact, modelVars
  <2>2. PICK from \in 0 .. Retained(synced) : rows = Counted(log, curField, sel, from, synced)
    BY <2>1 DEF ModelInv, RowsAreExact
  <2>3. synced \in 0 .. totalPushed
    BY <1>2 DEF ModelInv, ModelTypeOK
  <2>4. Counted(log', curField, sel, from, synced) = Counted(log, curField, sel, from, synced)
    BY <1>4, <2>3
  <2>5. QED
    BY <2>2, <2>4
<1>8. QED
  BY <1>5, <1>6, <1>7 DEF ModelInv

\* A reset leaves a model that knows it has not seen this ring.
LEMMA ResetKeeps ==
  ASSUME ModelInv, RingTypeOK', RingLog', Reset
  PROVE  ModelInv'
<1>1. /\ gen' = gen + 1 /\ sel' = Null /\ synced' = 0 /\ log' = <<>>
      /\ UNCHANGED modelVars
  BY DEF Reset, Clear
<1>2. gen \in Nat /\ ModelTypeOK
  BY DEF ModelInv, RingTypeOK
<1>3. lastGen' \in Int /\ lastGen' <= gen' /\ lastGen' # gen'
  BY <1>1, <1>2 DEF ModelTypeOK, modelVars
<1>4. ModelTypeOK'
  BY <1>1, <1>2, <1>3 DEF ModelTypeOK, modelVars
<1>5. SelectionSeen' /\ GroupsCount' /\ RowsAreExact'
  BY <1>1, <1>3 DEF SelectionSeen, GroupsCount, RowsAreExact
<1>6. QED
  BY <1>4, <1>5 DEF ModelInv

\* Selecting nothing leaves the model alone.
LEMMA DeselectKeeps ==
  ASSUME ModelInv, NEW d, NEW det, Select(Null, d, det)
  PROVE  ModelInv'
<1>1. /\ sel' = Null /\ synced' = Len(log)
      /\ UNCHANGED modelVars /\ UNCHANGED <<ringVars, log>>
  BY DEF Select
<1>2. /\ slots' = slots /\ head' = head /\ count' = count /\ totalPushed' = totalPushed
      /\ gen' = gen /\ log' = log
      /\ curSel' = curSel /\ lastGen' = lastGen /\ eff' = eff /\ curField' = curField
      /\ mode' = mode /\ cursor' = cursor /\ groups' = groups
  BY <1>1 DEF ringVars, modelVars
<1>3. RingTypeOK' /\ RingLog'
  BY <1>2 DEF ModelInv, RingTypeOK, RingLog, Contents, At, Physical, OldestSlot
<1>4. Len(log) \in Nat
  BY DEF ModelInv, RingTypeOK, RingLog
<1>5. ModelTypeOK'
  BY <1>1, <1>2, <1>4 DEF ModelInv, ModelTypeOK
<1>6. SelectionSeen' /\ RowsAreExact'
  BY <1>1 DEF SelectionSeen, RowsAreExact
<1>7. GroupsCount'
  BY <1>2 DEF ModelInv, GroupsCount, CountsUpTo, Folds
<1>8. QED
  BY <1>3, <1>5, <1>6, <1>7 DEF ModelInv

\* The invariant holds at the start, and no step of a steady capture breaks it.
LEMMA ModelInductive ==
  ASSUME ~Rewinds
  PROVE  /\ MInit => ModelInv
         /\ ModelInv /\ [MNext]_vars => ModelInv'
<1>1. ASSUME MInit PROVE ModelInv
  <2>1. InitRing /\ log = <<>> /\ sel = Null /\ lastGen = -1 /\ synced = 0
        /\ eff = Null /\ curField = Null
    BY <1>1 DEF MInit
  <2>2. RingTypeOK
    BY <2>1, RingTypeInductive DEF Init
  <2>3. count = 0 /\ totalPushed = 0 /\ gen = 0
    BY <2>1 DEF InitRing
  <2>4. RingLog
    BY <2>1, <2>3 DEF RingLog
  <2>5. ModelTypeOK /\ SelectionSeen /\ GroupsCount /\ RowsAreExact
    BY <2>1, <2>3 DEF ModelTypeOK, SelectionSeen, GroupsCount, RowsAreExact
  <2>6. QED
    BY <2>2, <2>4, <2>5 DEF ModelInv
<1>2. ASSUME ModelInv, [MNext]_vars PROVE ModelInv'
  <2>1. RingTypeOK' /\ RingLog'
    BY <1>2, RingTypeKept, RingLogKept DEF ModelInv
  <2>2. ASSUME NEW f \in Frames, Ingest(f) PROVE ModelInv'
    BY <1>2, <2>1, <2>2, IngestKeeps
  <2>3. ASSUME NEW s \in Ids, NEW d \in Defs, NEW det \in Detections(d), Select(s, d, det)
        PROVE  ModelInv'
    <3>1. s # Null
      BY ModelConstants DEF Ids
    <3>2. det \in Fields
      BY DetectionsAreFields
    <3>3. /\ Sync(s, d, d # NoDef \/ curDef # NoDef, FALSE, det)
          /\ sel' = s /\ UNCHANGED <<ringVars, log>>
      BY <2>3, <3>1 DEF Select
    <3>4. QED
      BY <1>2, <3>2, <3>3, SyncKeeps
  <2>4. ASSUME Select(Null, NoDef, Whole) PROVE ModelInv'
    BY <1>2, <2>4, DeselectKeeps
  <2>5. ASSUME Reset PROVE ModelInv'
    BY <1>2, <2>1, <2>5, ResetKeeps
  <2>6. ASSUME NEW due \in BOOLEAN, NEW det \in Detections(def), Tick(due, det) PROVE ModelInv'
    <3>1. det \in Fields
      BY DetectionsAreFields
    <3>2. sel \in Ids /\ Sync(sel, def, FALSE, due, det) /\ sel' = sel /\ UNCHANGED <<ringVars, log>>
      BY <1>2, <2>6 DEF Tick, ModelInv, ModelTypeOK
    <3>3. QED
      BY <1>2, <3>1, <3>2, SyncKeeps
  <2>7. CASE UNCHANGED vars
    <3>1. UNCHANGED <<ringVars, sel, modelVars, rows, log, synced>>
      BY <2>7 DEF vars
    <3>2. /\ slots' = slots /\ head' = head /\ count' = count /\ totalPushed' = totalPushed
          /\ gen' = gen /\ log' = log /\ sel' = sel /\ rows' = rows /\ synced' = synced
          /\ curSel' = curSel /\ lastGen' = lastGen /\ eff' = eff /\ curField' = curField
          /\ mode' = mode /\ cursor' = cursor /\ groups' = groups
      BY <3>1 DEF ringVars, modelVars
    <3>3. ModelTypeOK' /\ SelectionSeen' /\ RowsAreExact'
      BY <1>2, <3>2 DEF ModelInv, ModelTypeOK, SelectionSeen, RowsAreExact
    <3>4. GroupsCount'
      BY <1>2, <3>2 DEF ModelInv, GroupsCount, CountsUpTo, Folds
    <3>5. QED
      BY <2>1, <3>3, <3>4 DEF ModelInv
  <2>8. QED
    BY <1>2, <2>2, <2>3, <2>4, <2>5, <2>6, <2>7 DEF MNext
<1>3. QED
  BY <1>1, <1>2

-----------------------------------------------------------------------------
(* The theorems *)

\* The ring of the worker keeps its cursors in range, whatever the worker does and
\* whatever the stamps (ringBuffer.ts under analysis.worker.ts).
THEOREM WorkerRingTypes == MSpec => []RingTypeOK
<1>1. MInit => RingTypeOK
  BY RingTypeInductive DEF MInit, Init
<1>2. RingTypeOK /\ [MNext]_vars => RingTypeOK'
  BY RingTypeKept
<1>3. QED
  BY <1>1, <1>2, PTL DEF MSpec

\* The worker's ring is a ring like any other, so what is proved of the ring alone holds
\* of it: it is the log of the newest Cap frames (ringBuffer.ts under analysis.worker.ts).
THEOREM WorkerRingIsBoundedLog == MSpec => ImplementsBoundedLog
<1>1. MInit => Init
  BY DEF MInit, Init
<1>2. [MNext]_vars => [Next]_ringVars
  BY RingSteps DEF Ingest, Reset, Next
<1>3. MSpec => Spec
  BY <1>1, <1>2, PTL DEF MSpec, Spec
<1>4. QED
  BY <1>3, RingIsBoundedLog

\* In a capture whose stamps do not step back the rows last posted are exact: the
\* groups the incremental model has folded together from since() deltas, over any
\* number of posts, laps, resets, selections and re-detections, count every frame of
\* the selected id once, from no later than the oldest frame the ring held.
THEOREM RowsStayExact == ~Rewinds => (MSpec => []RowsAreExact)
<1> SUFFICES ASSUME ~Rewinds PROVE MSpec => []RowsAreExact
  OBVIOUS
<1>1. MInit => ModelInv
  BY ModelInductive
<1>2. ModelInv /\ [MNext]_vars => ModelInv'
  BY ModelInductive
<1>3. ModelInv => RowsAreExact
  BY DEF ModelInv
<1>4. QED
  BY <1>1, <1>2, <1>3, PTL DEF MSpec
=============================================================================
